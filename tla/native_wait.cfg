SPECIFICATION Spec
CONSTANTS
  Threads = {t1}
  Queues = {qa}
  ComputeStreams = 2
  TransferStreams = 1
  UintMod = 12
  StartIndices = {0}
  Ops = {"kernel", "transfer", "native"}
  MaxWaits = 1
  MaxCalls = 3
  None = None
INVARIANT NeedsMet
