SPECIFICATION Spec
CONSTANTS
  t1 = t1
  t2 = t2
  t3 = t3
  main = main
  NoTask = NoTask
  Tasks <- ThreeTasks
  Producers <- OneCaller
  ThreadMax = 3
  ThreadMin = 1
  QueueMax = 2
  AliveFloor = 1
  Faults <- EveryFault
SYMMETRY Symmetry
INVARIANTS TypeOK CountersMatchThreads AliveBelowMax OneCopy NoStrandedProducer
PROPERTIES RefinesTaskQueue
CHECK_DEADLOCK FALSE
