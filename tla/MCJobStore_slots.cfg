CONSTANTS
  LeftToRight = FALSE
  NullCount = NullCount
  j1 = j1
  j2 = j2
  j3 = j3
  j4 = j4
  p1 = p1
  p2 = p2
  k1 = k1
  b1 = b1
  b2 = b2
  Jobs = {j1, j2, j3, j4}
  Procs = {p1}
  NoProc = NoProc
  Keys = {k1}
  NoKey = NoKey
  Key <- OneKey
  Limit <- LimitTwo
  Delayed = {j1, j2}
  Blocks = {j1, j2, j3, j4}
  Backend <- OneAlias
  Historical = {}
  PreserveFinished = TRUE
SPECIFICATION Spec
INVARIANTS
  SlotsExact
  NoIdleSlotWithWaiter
