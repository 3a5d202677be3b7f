SPECIFICATION Spec
CONSTANTS
  Threads = {t1, t2}
  Queues = {qa, qb}
  ImmQueues = {qi}
  Lists = {l1, l2, l3, l4}
  Slots = 1
  MaxOps = 2
  Kinds = {"op", "blockingop", "barrier", "cmdbuf", "hosttask", "wait", "flush", "finish", "begincapture", "endcapture"}
  MaxWaits = 1
  MaxCalls = 3
  None = None
SYMMETRY Symmetry
INVARIANTS TypeOK RunsInOrder ListsDisjoint GenerationTruth PendingCommandsOwned
CHECK_DEADLOCK FALSE
