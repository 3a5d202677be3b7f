SPECIFICATION Spec
CONSTANTS
  Threads = {t1, t2}
  NumThreads = 2
  Queues = {qa, qb}
  InOrderQueues = {qb}
  Kernels = {k}
  Grids <- EmptyGrid
  LocalArgs = {FALSE}
  Ops = {"kernel", "copy", "sync", "wait", "finish", "release"}
  ReleaseApart = TRUE
  MaxWaits = 1
  MaxCommands = 2
  MaxRejected = 0
  None = None
CHECK_DEADLOCK FALSE
INVARIANTS TypeOK NeedsMet WaitsTruthful EventsOutliveUse EveryGroupOnce
