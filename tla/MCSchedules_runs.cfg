CONSTANTS
  MaxSearchDays = 366
  NoRun = NoRun
  NoZone = NoZone
  Cases <- AllCases
  Moments <- AroundNights
  MaxGap <- ThreeDays
  Grid <- HalfHours
SPECIFICATION Spec
INVARIANT NextRunIsNextDue
PROPERTY FiresWhatIsDue
CHECK_DEADLOCK FALSE
