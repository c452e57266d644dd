SPECIFICATION FairSpec
CONSTANTS
  Leaf = {l1, l2, l3}
  Awaiter = {p1, p2}
  Helper = {h1, h2}
  Future = Future
  NoCort = NoCort
  SizeMod = 16
  Statements = 2
INVARIANTS  HelperLeavesWithLast FutureKnowsWaiters FutureOutlivesRuns
PROPERTIES FutureServes
CHECK_DEADLOCK FALSE
