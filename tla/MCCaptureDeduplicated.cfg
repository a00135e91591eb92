SPECIFICATION Spec
CONSTANTS
  w1 = w1
  w2 = w2
  c1 = c1
  c2 = c2
  s1 = s1
  s2 = s2
  x = x
  y = y
  None = None
  Windows <- TwoWindows
  Connections <- OneConnection
  ServerIds <- TwoServers
  Fingerprints <- TwoContents
  Ids = {1, 2, 3}
  Times = {1, 2, 3}
  RetentionLimit = 2
  MaxIdentities = 2
  MaxCompares = 1
INVARIANT NoChangeWhenDeduplicated
