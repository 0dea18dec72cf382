SPECIFICATION FairSpec
CONSTANTS
  N = 3
  MaxInflight = 2
  MaxRetries = 1
  MaxRuns = 2
INVARIANTS
  TypeOK
  CommittedInArc
  DoneIsComplete
  OvershootBounded
  OnceUnlessDisturbed
  SenderAtRest
PROPERTIES
  CommitsInOrder
  NeverResendsCommitted
  ImplementsLedger
  RunEnds
CHECK_DEADLOCK FALSE
