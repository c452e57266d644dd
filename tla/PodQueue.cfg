SPECIFICATION QueueSpec
CONSTANTS
  e1 = e1
  e2 = e2
  Elem = {e1, e2}
  Junk = Junk
  InitCapacity = 2
  MaxSize = 8
PROPERTIES IsFifo
CHECK_DEADLOCK FALSE
