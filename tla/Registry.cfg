SPECIFICATION FairSpec
CONSTANTS
  j1 = j1
  j2 = j2
  s1 = s1
  s2 = s2
  s3 = s3
  x1 = x1
  x2 = x2
  None = None
  Jobs <- TwoJobs
  Starts <- ThreeStarts
  Cancels <- TwoCancels
INVARIANTS
  RegistryInv
  OneRunPerJob
PROPERTIES
  ImplementsSlots
  EveryCallReturns
CHECK_DEADLOCK FALSE
