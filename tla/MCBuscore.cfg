SPECIFICATION BuscoreFairSpec
CONSTANTS
  Threads = {t1, t2, t3}
  Counts <- MCCounts
  None = None
INVARIANTS
  TypeOK
  ClosedOnce
PROPERTIES
  ImplementsCountSpec
  SyncEndsOnPoison
CHECK_DEADLOCK FALSE
