SPECIFICATION FairSpec
CONSTANTS
  w1 = w1
  w2 = w2
  w3 = w3
  Workers <- TwoWorkers
  PoolSize = 2
  ServerMax = 2
  BusyBound = 0
  Faults <- Deaths
INVARIANTS TypeOK LockedIsHeld OneHolder
PROPERTIES JobsEnd
CHECK_DEADLOCK FALSE
