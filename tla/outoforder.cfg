SPECIFICATION Spec
SYMMETRY Symmetry
CONSTANTS
  Threads = {t1, t2}
  NumLists = 2
  Ptrs = {p1}
  Ops = {"kernel", "read", "eventswait", "barrier", "alloc", "free", "wait", "finish", "release"}
  Silent = {"free"}
  MaxWaits = 1
  MaxCommands = 3
  None = None
INVARIANTS TypeOK MemoryExclusive EventsKeepMeaning
PROPERTIES ImplementsQueue
