SPECIFICATION FairSpec
CONSTANTS
  i1 = i1
  i2 = i2
  Items <- TwoItems
  End = End
  Capacity = 1
  WireRoom = 1
  MaxStreams = 2
INVARIANT StreamTypeOK
INVARIANT OpenChannelsOnly
INVARIANT NothingAfterTheEnd
PROPERTY EveryChangeIsPublished
PROPERTY LeaversAreForgotten
PROPERTY FinalEventIsShown
CHECK_DEADLOCK FALSE
