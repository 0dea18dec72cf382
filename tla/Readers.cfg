SPECIFICATION ReadersSpec
CONSTANTS
  Names <- MCNames
  MaxTables = 2
  MaxBatches = 4
  MaxCatalogSteps = 1
INVARIANTS
  CatalogExact
  NothingOverlooked
  FailsForCause
  LineReadsBack
  TablesRouted
CHECK_DEADLOCK FALSE
