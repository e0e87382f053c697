CONSTANTS
  j1 = j1
  j2 = j2
  Jobs = {j1, j2}
  Threads = 1
  Prefetch = 2
  MaxFaults = 1
SPECIFICATION FairSpec
INVARIANT RowCoversWork
INVARIANT DeregisteredWhenDrained
INVARIANT NoLostWakeup
PROPERTY RunnerComesBack
PROPERTY StopEnds
CHECK_DEADLOCK FALSE
