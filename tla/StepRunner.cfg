SPECIFICATION MCSpec
CONSTANTS
  v = v
  w = w
  Vars <- MCVars
  Tests <- MCTests
  StdinCap = 3
  CommandCap = 3
  Servers <- MCServers
  MessageCap = 3
  ResponseCap = 2
  Window = 1
  AttemptCap = 4
  MaxDuration = 8
INVARIANTS
  VerdictSound
  NothingOutlivesStep
  TelemetryBracketed
  CallsTruthful
PROPERTY
  CallsReturn
CHECK_DEADLOCK FALSE
