CONSTANTS
  Vars = {"s", "t", "u"}
  LoopVars = {"i", "j"}
  ParamNames <- OneParam
  Params <- OneArg
  Exprs <- LoopExprs
  Conds <- NoConds
  Loops <- MCLoops
  MaxLoops = 2
  MaxStmts = 3
  MaxDepth = 1
  DeadCode = FALSE
  EarlyReturns = FALSE
  ElseCalls = FALSE
  Budget = 2
SPECIFICATION CompileSpec
INVARIANTS ReturnsMeanSource MachineReturns LoopsKeepCalls
PROPERTY StopsAtFixpoint
CHECK_DEADLOCK FALSE
