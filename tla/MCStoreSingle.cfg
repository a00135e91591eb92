SPECIFICATION Spec
CONSTANTS
  t1 = t1
  t2 = t2
  x = x
  y = y
  Threads <- OneThread
  Fingerprints <- TwoContents
  Ids = {1, 2, 3, 4, 5}
  Times = {1, 2, 3, 4, 5}
  RetentionLimit = 2
  StrictClock = TRUE
  MaxFileDamage = 1
INVARIANT IInv
INVARIANT BoundedHistory
INVARIANT NoConsecutiveDuplicates
PROPERTY LatestIsNewest
PROPERTY SavedIsListed
