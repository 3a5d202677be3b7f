SPECIFICATION Spec
CONSTANTS
  Threads = {t1, t2}
  Queues = {qa}
  ComputeStreams = 2
  TransferStreams = 1
  UintMod = 12
  StartIndices = {0, 10}
  Ops = {"kernel", "read", "barrier", "wait"}
  MaxWaits = 2
  MaxCalls = 3
  None = None
SYMMETRY Symmetry
CHECK_DEADLOCK FALSE
INVARIANTS WaitListsHonoured HostWaitsTruthful
