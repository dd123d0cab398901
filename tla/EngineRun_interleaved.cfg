SPECIFICATION Spec
CONSTANTS
  Manifests <- MCSmall
  Configs <- MCParallelJSON
INVARIANT
  ReportFaithful
CHECK_DEADLOCK FALSE
