SPECIFICATION Spec
CONSTANTS
  Threads = {t1}
  Queues = {qa}
  ImmQueues = {}
  Lists = {l1, l2}
  Slots = 1
  MaxOps = 2
  Kinds = {"op", "hosttask", "finish"}
  MaxWaits = 0
  MaxCalls = 2
  None = None
SYMMETRY Symmetry
INVARIANTS FinishDrains
