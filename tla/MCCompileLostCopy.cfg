CONSTANTS
  Vars = {"s", "t", "u"}
  LoopVars = {"i"}
  ParamNames <- OneParam
  Params <- OneArg
  Exprs <- FibExprs
  Conds <- NoConds
  Loops <- FibLoops
  MaxLoops = 1
  MaxStmts = 4
  MaxDepth = 1
  DeadCode = FALSE
  EarlyReturns = FALSE
  ElseCalls = FALSE
  Budget = 2
SPECIFICATION CompileSpec
INVARIANT LoopsReturn
CHECK_DEADLOCK FALSE
