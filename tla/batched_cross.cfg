SPECIFICATION FairSpec
CONSTANTS
  Threads = {t1, t2}
  Queues = {qa, qb}
  ImmQueues = {}
  Lists = {l1, l2, l3, l4}
  Slots = 1
  MaxOps = 2
  Kinds = {"op", "blockingop", "wait", "finish"}
  MaxWaits = 1
  MaxCalls = 3
  None = None
INVARIANTS FinishDrains WaitsSubmitted
PROPERTIES CallsReturn
