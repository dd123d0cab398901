SPECIFICATION Spec
CONSTANTS
  Execs <- MCExecs
  PassCap <- MCPassCap
  Suites <- MCSuites
INVARIANTS
  PassBarrier
  EachTestEachPass
  RepeatHonoured
PROPERTIES
  EndsOrLosesSlot
CHECK_DEADLOCK FALSE
