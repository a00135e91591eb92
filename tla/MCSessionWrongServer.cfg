SPECIFICATION Spec
CONSTANTS
  a = a
  b = b
  None = None
  Servers <- TwoServers
  MaxScans = 2
  MaxCalls = 1
  OneBrowserThread = TRUE
INVARIANT ChangesOfShownServer
CHECK_DEADLOCK FALSE
