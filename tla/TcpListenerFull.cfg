CONSTANTS
  c1 = c1
  c2 = c2
  c3 = c3
  c4 = c4
  Conn = {c1, c2, c3, c4}
  MaxFiles = 3
  BatchSize = 2
SPECIFICATION Spec
INVARIANT EndsOnlyWhenStopped
CHECK_DEADLOCK FALSE
