SPECIFICATION Spec
CONSTANTS
  j1 = j1
  j2 = j2
  d1 = d1
  d2 = d2
  w1 = w1
  w2 = w2
  c1 = c1
  c2 = c2
  None = None
  Jobs <- OneJob
  Docs <- OneDoc
  Workers <- OneWorker
  Contents <- TwoContents
  MaxEdits = 2
  MaxRuns = 3
  MaxCrashes = 1
  MaxAttempts = 1
  AllowCancel = TRUE
  StoreMayFail = TRUE
  RepliesMayBeLost = TRUE
  TimesMayBeUnreadable = TRUE
INVARIANT RecordedMemosExist
INVARIANT UnchangedMemosAreCurrent
SYMMETRY Symmetry
CHECK_DEADLOCK FALSE
