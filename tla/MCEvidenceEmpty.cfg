SPECIFICATION Spec
CONSTANTS
  None = None
  Worlds <- UsualOnly
  MaxFailures = 0
  MayRace = FALSE
INVARIANT EmptyMeansNone
CHECK_DEADLOCK FALSE
