SPECIFICATION Spec
CONSTANTS
  N = 6
  Kinds = {"input", "constant", "unary", "splitter", "merger", "output"}
  SubTensors = TRUE
  Promises = {"OutputsConnected", "ExclusiveViews", "NoSplitToMerge"}
INVARIANTS
  NoDanglingParent
  SkippedAreInPlace
  AllTensorsAllocated
  SharedMemoryIsFree
PROPERTIES
  LifetimesHappenOnce
