SPECIFICATION FairSpec
CONSTANTS
  f1 = f1
  f2 = f2
  f3 = f3
  Waiter = {f1, f2, f3}
  MaxOpen = 3
  CountMod = 8
  MaxFails = 1
INVARIANTS CountExact PendingValid ReturnsIdle
PROPERTIES IdleReturns
CHECK_DEADLOCK FALSE
