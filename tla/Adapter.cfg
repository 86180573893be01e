SPECIFICATION AdapterSpec
CONSTANTS
  N = 3
  DatabaseSets <- SomeDatabaseSets
  Limits <- SmallLimits
  PageSize = 2
  MaxEdits = 2
  Versions <- SomeVersions
  AskedLimits <- SomeLimits
  MemosLimits <- SomeLimits
  MaxResumes = 2
  MaxBlocks = 3
  MaxBlockEdits = 2
  MaxTries = 2
  None = None
INVARIANT AdapterTypeOK
INVARIANT ListingIsComplete
INVARIANT ShownByHierarchy
INVARIANT ExpandedExactly
INVARIANT MemosChecksDecide
INVARIANT JobKeepsItsLimit
INVARIANT JobIsWhatWasSelected
INVARIANT DocumentIsNotOlderThanItsTime
INVARIANT ContentIsWrittenInOrder
PROPERTY DiscoveryEnds
PROPERTY RequestEnds
PROPERTY FetchEnds
CHECK_DEADLOCK FALSE
