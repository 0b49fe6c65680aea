SPECIFICATION FairSpec
CONSTANTS
  Modes <- AllModes
  Capacity = 2
  Scripts <- UpTo3
  MaxStops = 1
  Inherited = Inherited
INVARIANTS
  TypeOK
  ReturnsEverything
PROPERTIES
  NeverStuck
  Returns
CHECK_DEADLOCK FALSE
