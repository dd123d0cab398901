SPECIFICATION Spec
CONSTANTS
  Loads <- MCLoads
  WorkCap = 2
  Latencies = {1, 4}
  RequestCap = 2
  Requests <- MCRequests
INVARIANTS
  ResultsAccounted
  AggregateSound
PROPERTIES
  RunReturns
CHECK_DEADLOCK FALSE
