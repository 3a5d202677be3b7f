SPECIFICATION FairSpec
CONSTANTS
  Threads = {t1}
  NumThreads = 2
  Queues = {qa, qb}
  InOrderQueues = {qb}
  Kernels = {k}
  Grids <- SmallGrid
  LocalArgs = {FALSE}
  Ops = {"kernel", "copy", "sync", "wait", "finish", "release"}
  ReleaseApart = TRUE
  MaxWaits = 1
  MaxCommands = 2
  MaxRejected = 1
  None = None
CHECK_DEADLOCK FALSE
PROPERTIES CallsReturn CommandsRun
