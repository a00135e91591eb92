SPECIFICATION FairSpec
CONSTANTS
  t1 = t1
  t2 = t2
  x = x
  y = y
  Threads <- TwoThreads
  Fingerprints <- TwoContents
  Ids = {1, 2, 3, 4, 5}
  Times = {1, 2, 3, 4}
  RetentionLimit = 2
  StrictClock = TRUE
  MaxFileDamage = 0
INVARIANT IInv
INVARIANT BoundedHistory
PROPERTY EvictOnlyOldest
PROPERTY Linearizable
PROPERTY LockReleased
