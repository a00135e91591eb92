SPECIFICATION Spec
CONSTANTS
  None = None
  Worlds <- MCWorlds
  MaxFailures = 2
  MayRace = TRUE
INVARIANT ConfirmedNodesAreReal
INVARIANT ConfirmedRelationshipsAreReal
INVARIANT CompleteDiscoveryMissesNothing
INVARIANT EveryRecordShownOnce
INVARIANT CountsShown
INVARIANT FeedbackIsTrue
INVARIANT PageReadsWhatWasWritten
INVARIANT EmptyPageMeansNone
INVARIANT RouteTargetIsReal
INVARIANT AmbiguityIsShown
CHECK_DEADLOCK FALSE
