SPECIFICATION Spec
CONSTANTS
  None = None
  Worlds <- MCWorlds
  MaxFailures = 1
  MayRace = FALSE
INVARIANT QualityIsNoChange
CHECK_DEADLOCK FALSE
