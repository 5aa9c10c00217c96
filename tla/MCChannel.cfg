\* Two producers and three consumers: enough for a barging consumer to take
\* the value a woken one was notified for while a third one sleeps.
CONSTANTS
  Producers = {p1, p2}
  Consumers = {c1, c2, c3}
  NoThread = NoThread
  MaxSends = 2
  MaxSpurious = 1
SPECIFICATION FairSpec
INVARIANTS LockDiscipline NoLostWakeup
PROPERTIES ImplementsFifo EventuallyReceived
CHECK_DEADLOCK FALSE
