SPECIFICATION FairSpec
CONSTANTS
  a = a
  b = b
  None = None
  Servers <- TwoServers
  MaxScans = 2
  MaxCalls = 2
  OneBrowserThread = FALSE
INVARIANT SessionInv
INVARIANT ActiveWhileOwed
INVARIANT GraphAgreement
PROPERTY NoRepopulation
PROPERTY ScanEnds
PROPERTY LoadingEnds
CHECK_DEADLOCK FALSE
