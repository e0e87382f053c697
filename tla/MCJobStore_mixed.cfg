CONSTANTS
  LeftToRight = TRUE
  NullCount = NullCount
  j1 = j1
  j2 = j2
  j3 = j3
  j4 = j4
  p1 = p1
  p2 = p2
  k1 = k1
  b1 = b1
  b2 = b2
  Jobs = {j1, j2, j3, j4}
  Procs = {p1, p2}
  NoProc = NoProc
  Keys = {k1}
  NoKey = NoKey
  Key <- FreeJob
  Limit <- RaisedLimit
  Delayed = {j2, j3, j4}
  Blocks = {j2, j3, j4}
  Backend <- TwoAliases
  Historical = {j2}
  PreserveFinished = FALSE
SPECIFICATION FairSpec
INVARIANTS
  OneState
  ClaimsOwned
PROPERTIES
  FollowsLifecycle
  ImplementsSemaphoreKey
  Drains
