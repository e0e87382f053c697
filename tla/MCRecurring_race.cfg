CONSTANTS
  s1 = s1
  s2 = s2
  Schedulers = {s1, s2}
  Keys = {1}
  MaxTime = 2
  Schedules <- BothSchedules
  Configs <- Releases
  Batch = 2
  SkipLocked = TRUE
  DynamicEnabled = TRUE
  NullsFirst = TRUE
  PreserveFinished = FALSE
  Retention = 0
  Breakable = {1}
  MaxEdits = 1
  MaxIds = 3
  MaxCrashes = 1
SPECIFICATION Spec
SYMMETRY Interchangeable
INVARIANTS
  JobExactlyWhenAttached
PROPERTIES
  NoSecondJob
  CursorNeverRewinds
CHECK_DEADLOCK FALSE
