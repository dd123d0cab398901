SPECIFICATION FairSpec
CONSTANTS
  Count = 3
  Concurrency = 2
  Cancellable = TRUE
PROPERTY
  DispatchReturns
CHECK_DEADLOCK FALSE
