SPECIFICATION TextSpec
CONSTANTS
  Names <- MCNames
  MaxTables = 2
  MaxBatches = 4
  MaxCatalogSteps = 1
INVARIANT SplitsAsDocumented
CHECK_DEADLOCK FALSE
