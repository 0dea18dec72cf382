SPECIFICATION Spec
CONSTANTS
  MaxPoints = 2
  Sizes = {1, 3}
  Shards <- MCShards
  Resolution <- MCResolution
  ChunkSizes = {2, 3}
  Origins = {"interrupted", "orphaned", "chunkless", "finished"}
  MaxRuns = 2
INVARIANT
  OrphansRebuilt
CHECK_DEADLOCK FALSE
