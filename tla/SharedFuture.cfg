SPECIFICATION Spec
CONSTANTS
  Leaf = {l1, l2, l3}
  Awaiter = {p1, p2}
  Helper = {h1, h2}
  Future = Future
  NoCort = NoCort
  SizeMod = 16
  Statements = 2
INVARIANT ResumedWhenDone
CHECK_DEADLOCK FALSE
