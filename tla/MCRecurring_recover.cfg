CONSTANTS
  s1 = s1
  s2 = s2
  Schedulers = {s1, s2}
  Keys = {1}
  MaxTime = 1
  Schedules <- ShortSchedules
  Configs <- NoStatic
  Batch = 1
  SkipLocked = TRUE
  DynamicEnabled = TRUE
  NullsFirst = TRUE
  PreserveFinished = TRUE
  Retention = 1
  Breakable = {1}
  MaxEdits = 1
  MaxIds = 2
  MaxCrashes = 1
SPECIFICATION FairSpec
PROPERTIES
  ReservationRecovered
  
  FinishedJobsCleared
