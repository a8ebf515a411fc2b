SPECIFICATION FairSpec
CONSTANTS
  None = None
  o1 = o1
  o2 = o2
  r1 = r1
  w1 = w1
  c1 = c1
  v1 = v1
  v2 = v2
  Op <- MCOp
  KindOf <- MCKind
  Worker <- MCWorker
  FdLimit = 1
  Chunks = 2
  MayFail = {w1}
  MayCancel = {o2}
  OneAtATime = TRUE
INVARIANTS
  JobsReachWorkers
  DescriptorsOwned
  FilesIntact
PROPERTIES
  Answered
