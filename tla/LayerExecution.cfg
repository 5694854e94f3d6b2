CONSTANTS
  Layers <- MCLayers
  Backends <- MCBackends
SPECIFICATION Spec
INVARIANTS
  AcceptedLayersLoad
  AccessesInBounds
  EveryElementWritten
  RightElementsRead
CHECK_DEADLOCK FALSE
