CONSTANTS
  a1 = a1
  a2 = a2
  b1 = b1
  b2 = b2
  ka = ka
  kb = kb
  s1 = s1
  s2 = s2
  s3 = s3
  Jobs = {a1, a2, b1, b2}
  Keys = {ka, kb}
  Key <- KeyOf
  Limit <- OneSlot
  Sessions = {s1, s2, s3}
  Ops <- Work
  UseSkipLocked = TRUE
  SupportsSkipLocked = TRUE
  Attempts = 3
  MaxCrashes = 1
  LeftToRight = FALSE
  NullCount = NullCount
SPECIFICATION FairSpec
INVARIANT NoIdleSlotBesideWaiter
INVARIANT SlotsAddUp
INVARIANT CompletionNeverInCycle
PROPERTY IdleSlotGoes
CHECK_DEADLOCK FALSE
