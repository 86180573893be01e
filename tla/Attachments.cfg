SPECIFICATION FairSpec
CONSTANTS
  w1 = w1
  w2 = w2
  b1 = b1
  b2 = b2
  Workers <- TwoWorkers
  Blocks <- TwoBlocks
  Documents <- SomeDocuments
  Sizes <- SomeSizes
  SizeOptions <- SomeOptions
  DefaultLimit = 2
  MaxAttempts = 2
  MaxPreparations = 2
  MaxCrashes = 1
INVARIANT AttachmentsTypeOK
INVARIANT RecordedFilesExist
INVARIANT BodiesAreComplete
INVARIANT UploadsAreWhole
PROPERTY PreparationsEnd
CHECK_DEADLOCK FALSE
