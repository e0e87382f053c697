CONSTANTS
  j1 = j1
  s1 = s1
  s2 = s2
  w1 = w1
  w2 = w2
  Jobs = {j1}
  Sups = {s1, s2}
  Wrks = {w1, w2}
  NoProc = NoProc
  Pid <- OwnPid
  Capacity = 1
  Budgets <- OneOrTwoFaults
SPECIFICATION FairSpec
INVARIANTS ClaimsAttended ReplacementBoots
PROPERTIES OrphansByExit ClaimsSettle WorkerComesBack PrunedStops
