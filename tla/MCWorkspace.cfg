SPECIFICATION Spec
CONSTANTS
  None = None
  Scans <- MCScans
INVARIANT TypeOK
INVARIANT TopologyUsable
INVARIANT PlacedApart
INVARIANT SelectionLands
INVARIANT EveryContainerOnce
INVARIANT TwoSourcesAgree
PROPERTY TopologyOnlyOnRequest
PROPERTY ChangesOpensClean
