CONSTANTS
  LeftToRight = FALSE
  NullCount = NullCount
  Limits = {1, 2, 3, 4}
  MaxJobs = 8
SPECIFICATION Spec
INVARIANTS
  RowConsistent
  BridgeCountExact
  NoLeakedSlot
  DialectsAgree
  BulkIsSingles
