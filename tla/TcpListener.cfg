CONSTANTS
  c1 = c1
  c2 = c2
  c3 = c3
  c4 = c4
  Conn = {c1, c2, c3, c4}
  MaxFiles = 3
  BatchSize = 2
SPECIFICATION FairSpec
INVARIANTS
  FilesExact
  RefsExact
  ServedUntimed
PROPERTY KeptLeaves
CHECK_DEADLOCK FALSE
