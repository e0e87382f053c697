CONSTANTS
  w1 = w1
  w2 = w2
  o1 = o1
  o2 = o2
  a = a
  b = b
  Rows = {1, 2, 3}
  Queues = {a, b}
  Queue <- Alternate
  Priority <- Ranked
  Workers = {w1}
  Selectors <- Everything
  Shapes <- AllShapes
  Limits = {2}
  Postgres = TRUE
  Operators = {o1}
  MaxTime = 0
SPECIFICATION FairSpec
INVARIANTS
  SelectsInOrder
PROPERTIES
  CallsReturn
