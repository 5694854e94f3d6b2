SPECIFICATION FairSpec
CONSTANTS
  Threads = {t1, t2}
  Networks = {n1, n2}
  MemoryManagers = {neon, cl}
  NoThread = NoThread
  NoNetwork = NoNetwork
  MaxCalls = 4
  Rules = {"SerialLoads", "NoUnloadInUse", "OneInference"}
  Faults = {"construct", "sync", "execute"}
INVARIANTS
  UniqueIds
  NoUseAfterUnload
  NoDoubleAcquire
  WorkingMemoryIsCurrent
PROPERTIES
  EveryCallReturns
  ResultsAreOwn
  ImplementsRegistry
