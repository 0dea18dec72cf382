CONSTANTS
  Files <- MCFiles
  Size <- MCSize
  Budget = 6
  MaxWorkers = 2
  MaxVersion = 2
  Shards <- MCShards
SPECIFICATION Spec
CHECK_DEADLOCK FALSE
INVARIANTS
  HeldWhileNeeded
  CacheSound
