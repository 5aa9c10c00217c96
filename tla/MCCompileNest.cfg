CONSTANTS
  Vars = {"s", "t", "u"}
  LoopVars = {"i", "j"}
  ParamNames <- OneParam
  Params <- OneArg
  Exprs <- LoopExprs
  Conds <- NoConds
  Loops <- NestLoops
  MaxLoops = 2
  MaxStmts = 2
  MaxDepth = 1
  DeadCode = FALSE
  EarlyReturns = FALSE
  ElseCalls = FALSE
  Budget = 2
SPECIFICATION CompileSpec
INVARIANT NestsKeepCalls
CHECK_DEADLOCK FALSE
