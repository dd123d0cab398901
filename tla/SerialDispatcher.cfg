SPECIFICATION Spec
CONSTANTS
  Count = 3
  Modes <- MCModes
  WeightVectors <- MCWeightVectors
INVARIANTS
  RightItemsRun
PROPERTIES
  ImplementsDispatch
  AlwaysReturns
CHECK_DEADLOCK FALSE
