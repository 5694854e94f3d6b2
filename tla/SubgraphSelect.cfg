SPECIFICATION FairSpec
CONSTANTS
  N = 5
  MaxInputs = 2
INVARIANTS
  SplitIdsGrow
  BoundaryComplete
  NoCyclicSubgraphs
PROPERTIES
  Terminates
