SPECIFICATION Spec
CONSTANTS
  w1 = w1
  w2 = w2
  w3 = w3
  w4 = w4
  w5 = w5
  w6 = w6
  w7 = w7
  w8 = w8
  Waiter = {w1, w2, w3, w4}
  Timeouts = {0, 1, 3, 4}
  Uses <- EachAll
  IntMod = 16
  MaxNow = 4
SYMMETRY Symmetry
INVARIANTS HeapExact 
 
CHECK_DEADLOCK FALSE
