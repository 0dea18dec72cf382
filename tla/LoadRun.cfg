SPECIFICATION FairSpec
CONSTANTS
  N = 3
  Workers = 2
  MaxRuns = 2
  Names <- MCNames
  Valid <- MCValid
  Sources <- MCSources
  Flags <- MCFlags
INVARIANTS
  BadNamesStopEverything
  OutcomeHonest
PROPERTIES
  RunReturns
CHECK_DEADLOCK FALSE
