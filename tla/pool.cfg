SPECIFICATION FairSpec
CONSTANTS
  t1 = t1
  t2 = t2
  t3 = t3
  p1 = p1
  p2 = p2
  NumWorkers = 3
  Producers <- MCProducers
  Tasks <- MCTasks
  Free = Free
CHECK_DEADLOCK TRUE
INVARIANTS
  TypeOK
  TakenInOrder
  TakeFindsTask
  NoneStranded
  FewLateTasks
PROPERTY TasksStart
