CONSTANTS
  Workers = 2
  Budget = 3
  NTasks = 3
  BatchSize = 2
  Sizes <- MCSizes
  Estimates <- MCEstimates
  Workloads <- MCWorkloads
SPECIFICATION FairSpec
CHECK_DEADLOCK FALSE
INVARIANTS
  BudgetExact
  FirstErrorIsFirst
  OneOwner
  NothingLeftBehind
PROPERTIES
  ImplementsSerial
  ExtractionReturns
