SPECIFICATION Spec
CONSTANTS
  Threads = {t1}
  Queues = {qa}
  ImmQueues = {qi}
  Lists = {l1, l2}
  Slots = 1
  MaxOps = 2
  Kinds = {"op"}
  MaxWaits = 1
  MaxCalls = 2
  None = None
SYMMETRY Symmetry
INVARIANTS WaitsSubmitted
