CONSTANTS
  LastTime = 3
  Fields = {1, 2}
  MaxWindows = 3
  StoredShards <- MCShards
  Queries <- MCQueries
  Half = 2
  Tables <- MCTables
  Ranges <- MCRanges
SPECIFICATION ExtractionSpec
INVARIANTS
  MergeExact
  OutputExact
  StaleCursorFails
CHECK_DEADLOCK FALSE
