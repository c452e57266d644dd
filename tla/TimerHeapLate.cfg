SPECIFICATION Spec
CONSTANTS
  w1 = w1
  w2 = w2
  w3 = w3
  w4 = w4
  w5 = w5
  w6 = w6
  w7 = w7
  w8 = w8
  Waiter = {w1, w2, w3, w4, w5, w6, w7, w8}
  Timeouts = {1, 2, 3, 4, 5, 6, 7, 8}
  Uses <- Own
  IntMod = 16
  MaxNow = 0
INVARIANTS NextIsEarliest
CHECK_DEADLOCK FALSE
