CONSTANTS
  w1 = w1
  w2 = w2
  o1 = o1
  o2 = o2
  a = a
  b = b
  Rows = {1, 2}
  Queues = {a}
  Queue <- Together
  Priority <- Ranked
  Workers = {w1, w2}
  Selectors <- Everything
  Shapes = {}
  Limits = {2}
  Postgres = TRUE
  Operators = {o1, o2}
  MaxTime = 3
SPECIFICATION Spec
SYMMETRY Interchangeable
INVARIANTS
  LatencyExcludesPauses
PROPERTIES
  PausedMeansPaused
