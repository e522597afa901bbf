SPECIFICATION Spec
CONSTANTS
  w1 = w1
  w2 = w2
  w3 = w3
  Workers <- ThreeWorkers
  PoolSize = 1
  ServerMax = 2
  BusyBound = 0
  Faults <- Drops
SYMMETRY Symmetry
INVARIANTS PingScreens
CHECK_DEADLOCK FALSE
