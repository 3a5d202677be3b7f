SPECIFICATION Spec
CONSTANTS
  Threads = {t1, t2}
  Slots = 2
  FailSlots = {1}
  Ops = {"kernel", "copy", "eventswait", "barrier", "wait", "finish"}
  MaxWaits = 1
  MaxCommands = 3
  MaxErrors = 1
  None = None
SYMMETRY Symmetry
INVARIANTS TypeOK
PROPERTIES ImplementsQueue
