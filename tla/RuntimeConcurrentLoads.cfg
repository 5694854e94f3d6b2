SPECIFICATION Spec
CONSTANTS
  Threads = {t1, t2}
  Networks = {n1, n2}
  MemoryManagers = {neon, cl}
  NoThread = NoThread
  NoNetwork = NoNetwork
  MaxCalls = 3
  Rules = {}
  Faults = {}
INVARIANTS
  UniqueIds
SYMMETRY Symmetric
CHECK_DEADLOCK FALSE
