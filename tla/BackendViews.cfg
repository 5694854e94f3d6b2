SPECIFICATION Spec
CONSTANTS
  N = 3
  Kinds = {"input", "conv", "addition", "output"}
  KeepView = FALSE
  OneAnswer = TRUE
  Backends <- BackendsValue
  Preferences <- PreferencesValue
  Devices <- DevicesValue
  Supports <- SupportsValue
INVARIANTS
  ViewsStayCurrent
