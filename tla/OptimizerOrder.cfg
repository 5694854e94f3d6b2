SPECIFICATION Spec
CONSTANTS
  N = 6
  Kinds = {"input", "activation", "permute", "output"}
  Perms <- PermsValue
  Shapes <- ShapesValue
INVARIANTS
  OrderKept
