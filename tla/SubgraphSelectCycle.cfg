SPECIFICATION Spec
CONSTANTS
  N = 4
  MaxInputs = 3
INVARIANTS
  NoCyclicSubgraphs
