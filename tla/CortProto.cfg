SPECIFICATION FairSpec
CONSTANTS
  c1 = c1
  c2 = c2
  c3 = c3
  c4 = c4
  Cort = {c1, c2, c3, c4}
  NoCort = NoCort
  AutoDelete = {c3}
  WithThen = {c2}
  SizeMod = 8
  Fuel <- MCFuel
INVARIANTS WaitCountExact NoReentry SavedParentWaits 
PROPERTIES ResumedWhenAllDone StartedFinishes
CHECK_DEADLOCK FALSE
