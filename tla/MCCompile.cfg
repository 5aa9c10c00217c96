CONSTANTS
  Vars = {"x"}
  LoopVars = {}
  ParamNames <- OneParam
  Params <- TwoValues
  Exprs <- MCExprs
  Conds <- MCConds
  Loops = {}
  MaxLoops = 0
  MaxStmts = 4
  MaxDepth = 2
  DeadCode = FALSE
  EarlyReturns = FALSE
  ElseCalls = FALSE
  Budget = 5
SPECIFICATION CompileSpec
INVARIANTS ReturnsMeanSource CallsMeanSource GraphIsSound ChainCoversCalls
           MachineReturns MachineCalls NeverAborts
CHECK_DEADLOCK FALSE
