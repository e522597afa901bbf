SPECIFICATION FairSpec
CONSTANTS
  t1 = t1
  t2 = t2
  t3 = t3
  main = main
  NoTask = NoTask
  Tasks <- TwoTasks
  Producers <- OneCaller
  ThreadMax = 5
  ThreadMin = 2
  QueueMax = 1
  AliveFloor = 2
  Faults <- NoFaults
PROPERTIES NoIdleStarvation
