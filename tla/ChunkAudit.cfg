SPECIFICATION Spec
CONSTANTS
  MaxPoints = 4
  Sizes = {1, 3}
  Shards <- MCShards
  Resolution <- MCResolution
  ChunkSizes = {2, 3}
  Origins = {"new", "interrupted", "orphaned", "chunkless", "finished"}
  MaxRuns = 3
INVARIANTS
  ChunksReproduced
  AuditExact
  CountedOnce
PROPERTIES
  DoneIsFinal
CHECK_DEADLOCK FALSE
