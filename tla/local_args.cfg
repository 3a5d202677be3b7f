SPECIFICATION Spec
CONSTANTS
  Threads = {t1}
  NumThreads = 2
  Queues = {qa}
  InOrderQueues = {}
  Kernels = {k}
  Grids <- LargeGrid
  LocalArgs = {TRUE}
  Ops = {"kernel"}
  ReleaseApart = TRUE
  MaxWaits = 1
  MaxCommands = 3
  MaxRejected = 0
  None = None
CHECK_DEADLOCK FALSE
INVARIANT LocalArgsKept
