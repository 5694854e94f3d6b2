SPECIFICATION Spec
CONSTANTS
  Models <- MCModels
  Again <- MCAgain
  MaxUses = 2
INVARIANT SortedInOrder
INVARIANT NetworkConnected
INVARIANT ImportedShapesAgree
INVARIANT OperandsRead
INVARIANT BindingsDescribeNetwork
INVARIANT NothingLeftOver
INVARIANT RoundTrip
PROPERTY EveryStepAdvances
