SPECIFICATION ConsoleSpec
CONSTANTS
  j1 = j1
  j2 = j2
  d1 = d1
  d2 = d2
  w1 = w1
  w2 = w2
  c1 = c1
  c2 = c2
  None = None
  Jobs <- OneJob
  Docs <- OneDoc
  Workers <- OneWorker
  Contents <- OneContent
  MaxRequests = 2
  MaxLists = 1
  MaxEdits = 0
  MaxRuns = 2
  MaxCrashes = 0
  MaxAttempts = 1
  AllowCancel = FALSE
  StoreMayFail = FALSE
  RepliesMayBeLost = FALSE
  TimesMayBeUnreadable = FALSE
INVARIANT FailedItemsCanBeRetried
CHECK_DEADLOCK FALSE
