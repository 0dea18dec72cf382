SPECIFICATION Spec
CONSTANTS
  MaxInflight = 2
  MaxChunks = 5
  MaxLines = 2
INVARIANTS
  BodiesIntact
  BuffersBounded
CHECK_DEADLOCK FALSE
