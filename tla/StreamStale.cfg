SPECIFICATION AwakeSpec
CONSTANTS
  i1 = i1
  i2 = i2
  Items <- TwoItems
  End = End
  Capacity = 3
  WireRoom = 1
  MaxStreams = 1
PROPERTY FinishedJobsLookFinished
CHECK_DEADLOCK FALSE
