SPECIFICATION Spec
CONSTANTS
  N = 3
  Workers = 2
  MaxRuns = 2
  Names <- MCNames
  Valid <- MCValid
  Sources <- MCSources
  Flags <- MCFlags
INVARIANTS
  RerunAddsLog
CHECK_DEADLOCK FALSE
