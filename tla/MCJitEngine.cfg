\* Threshold 2 makes two mutators race for one crossing; two functions
\* registered twice fill the queue of two and find it full.
CONSTANTS
  Mutators = {t1, t2, t3}
  Steady = t1
  Functions = {f, g}
  Thresholds = {1, 2}
  KMaxPendingJobs = 2
  NoThread = NoThread
  NoFunction = NoFunction
  MaxCalls = 2
  MaxRegistrations = 2
SPECIFICATION SteadySpec
INVARIANTS TypeOK QueueBounded OneJobPerRegistration
PROPERTY OnCallReturns
CHECK_DEADLOCK FALSE
