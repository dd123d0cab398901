SPECIFICATION FairSpec
CONSTANTS
  Count = 4
  Concurrency = 2
  Cancellable = TRUE
INVARIANTS
  SlotAccounting
  NothingOutlivesDispatch
PROPERTIES
  ImplementsDispatch
  ReturnsOrLosesOneSlot
CHECK_DEADLOCK FALSE
