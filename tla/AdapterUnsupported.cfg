SPECIFICATION AdapterSpec
CONSTANTS
  N = 1
  DatabaseSets <- NoDatabases
  Limits <- OneLimit
  PageSize = 2
  MaxEdits = 0
  Versions <- SomeVersions
  AskedLimits <- NoLimit
  MemosLimits <- NoLimit
  MaxResumes = 0
  MaxBlocks = 3
  MaxBlockEdits = 0
  MaxTries = 1
  None = None
INVARIANT UnsupportedBlocksAreVisible
CHECK_DEADLOCK FALSE
