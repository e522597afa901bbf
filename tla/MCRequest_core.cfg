SPECIFICATION Spec
CONSTANTS
  c1 = c1
  c2 = c2
  c3 = c3
  t1 = t1
  t2 = t2
  t3 = t3
  Nobody = Nobody
  Clients <- ThreeClients
  Requests = 1
  Kinds <- LoudKinds
  FdMax = 2
  EpollMax = 2
  Tasks <- TwoTasks
  QueueMax = 1
  ThreadMax = 1
  Faults <- AllFaults
SYMMETRY Symmetry
INVARIANTS TypeOK SlotsCounted  RightIfUndisturbed
CHECK_DEADLOCK FALSE
