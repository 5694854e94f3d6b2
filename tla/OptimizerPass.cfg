SPECIFICATION FairSpec
CONSTANTS
  N = 6
  Kinds = {"input", "activation", "addition", "permute", "reshape", "other", "output"}
  Perms <- PermsValue
  Shapes <- ShapesValue
INVARIANTS
  WellFormed
  SameFunction
PROPERTIES
  PassEnds
