SPECIFICATION Spec
CONSTANTS
  N = 4
  Kinds = {"input", "conv", "addition", "permute", "constant", "output"}
  KeepView = TRUE
  OneAnswer = TRUE
  Backends <- BackendsValue
  Preferences <- PreferencesValue
  Devices <- DevicesValue
  Supports <- SupportsValue
INVARIANTS
  ViewsStayCurrent
  WellFormed
  SameFunction
  EveryLayerSupported
  CopiesBetweenBackends
  TypesAgree
  FailedLayersMoved
