SPECIFICATION FairSpec
CONSTANTS
  c1 = c1
  c2 = c2
  c3 = c3
  Cort = {c1, c2, c3}
  NoCort = NoCort
  Settings <- MCSettings
  SizeMod = 16
  Fuel = 2
INVARIANTS GrantsBacked NoRecverStranded NoSenderStranded WaitsInOnePlace
PROPERTIES CloseReleases
CHECK_DEADLOCK FALSE
