SPECIFICATION FairConsoleSpec
CONSTANTS
  j1 = j1
  j2 = j2
  d1 = d1
  d2 = d2
  w1 = w1
  w2 = w2
  c1 = c1
  c2 = c2
  None = None
  Jobs <- OneJob
  Docs <- TwoDocs
  Workers <- OneWorker
  Contents <- OneContent
  MaxRequests = 1
  MaxLists = 1
  MaxEdits = 0
  MaxRuns = 2
  MaxCrashes = 0
  MaxAttempts = 2
  AllowCancel = TRUE
  StoreMayFail = FALSE
  RepliesMayBeLost = FALSE
  TimesMayBeUnreadable = FALSE
PROPERTY CreatedJobsFinish
PROPERTY EveryRunEnds
CHECK_DEADLOCK FALSE
