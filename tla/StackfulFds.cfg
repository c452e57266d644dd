CONSTANTS
  a = a
  b = b
  f1 = f1
  f2 = f2
  Coroutine = {a, b}
  Fd = {f1, f2}
  Sleeps = {1, 2}
  Deadlines = {2}
  Limits = {1}
  MaxTable = 2
  MaxLag = 1
  Ties = FALSE
SPECIFICATION FairSpec
INVARIANTS
  
  WatchedExact
  
  NothingBlocks
PROPERTY TimedCallsReturn
CHECK_DEADLOCK FALSE
