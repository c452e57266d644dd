SPECIFICATION FairSpec
CONSTANTS
  t1 = t1
  t2 = t2
  c1 = c1
  c2 = c2
  None = None
  Ctrler = {t1, t2}
  Keepers = {t1, t2}
  Conn = {c1, c2}
  InitSize = 1
  AutoRelease = 1
  Loads <- MCLoads
INVARIANTS PoolExact RefsExact StreamExact BlocksExact  WaitersPolled
PROPERTIES IdleLeaves
