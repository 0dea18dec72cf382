CONSTANTS
  MaxWrites = 2
  MaxSnapshots = 2
  MaxColumns = 2
  MaxRuns = 2
  MaxSteps = 2
SPECIFICATION Spec
INVARIANTS
  NothingMissed
  NothingResurrected
  CatalogCoversData
  RefusedForCause
  SameInput
CHECK_DEADLOCK FALSE
