CONSTANTS
  t1 = t1  t2 = t2  a1 = a1  a2 = a2  a3 = a3
  Mutators <- MCMutators
  Addrs <- MCAddrs
  Aot = Aot
  MaxEpoch = 4
SPECIFICATION FairSpec
INVARIANTS NoUseAfterUnmap StampProtectsRunning
PROPERTY EventuallyReclaimed
