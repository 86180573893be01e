SPECIFICATION Spec
CONSTANTS
  j1 = j1
  j2 = j2
  d1 = d1
  d2 = d2
  w1 = w1
  w2 = w2
  c1 = c1
  c2 = c2
  None = None
  Jobs <- OneJob
  Docs <- TwoDocs
  Workers <- TwoWorkers
  Contents <- OneContent
  MaxEdits = 0
  MaxRuns = 2
  MaxCrashes = 1
  MaxAttempts = 1
  AllowCancel = TRUE
  StoreMayFail = FALSE
  RepliesMayBeLost = FALSE
  TimesMayBeUnreadable = FALSE
INVARIANT TypeOK
INVARIANT OneWorkerPerItem
INVARIANT FailedRunNamesItsItems
PROPERTY EndedRunsCanBeContinued
PROPERTY DoneOnlyWhenSettled
PROPERTY CompletedItemsStayCompleted
PROPERTY RunnersTakeSlots
SYMMETRY Symmetry
CHECK_DEADLOCK FALSE
