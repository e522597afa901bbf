SPECIFICATION Spec
CONSTANTS
  c1 = c1
  c2 = c2
  c3 = c3
  t1 = t1
  t2 = t2
  t3 = t3
  Nobody = Nobody
  Clients <- TwoClients
  Requests = 1
  Kinds <- FewKinds
  FdMax = 2
  EpollMax = 2
  Tasks <- TwoTasks
  QueueMax = 1
  ThreadMax = 1
  Faults <- NoFaults
INVARIANT RightReply
CHECK_DEADLOCK FALSE
