SPECIFICATION Spec
CONSTANTS
  Manifests <- MCDistinct
  Configs <- MCConfigs
INVARIANTS
  ResultsComplete
  ExitCodeSound
  CoverageAddsUp
  SequentialReportFaithful
PROPERTIES
  RunEnds
CHECK_DEADLOCK FALSE
