SPECIFICATION Spec
CONSTANTS
  Threads = {t1}
  Queues = {qa}
  ComputeStreams = 2
  TransferStreams = 1
  UintMod = 12
  StartIndices = {0}
  Ops = {"kernel", "transfer", "barrier", "finish", "handle"}
  MaxWaits = 2
  MaxCalls = 4
  None = None
INVARIANTS TypeOK NeedsMet PendingInRange SyncedTokensDone FinishDrains
