CONSTANTS
  Vars = {"x", "y"}
  LoopVars = {"i", "j"}
  ParamNames <- MCParamNames
  Params <- MCParams
  Exprs <- MCExprs
  Conds <- MCConds
  Loops <- MCLoops
  MaxLoops = 2
  MaxStmts = 4
  MaxDepth = 2
  DeadCode = FALSE
  EarlyReturns = TRUE
  ElseCalls = TRUE
SPECIFICATION LowerSpec
INVARIANTS BindingsMeanSource ReturnsMeanSource
CHECK_DEADLOCK FALSE
