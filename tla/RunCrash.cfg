SPECIFICATION FairSpec
CONSTANTS
  w1 = w1
  w2 = w2
  Workers = {w1, w2}
  NoWorker = NoWorker
  NoState = NoState
  N = 2
  R = 2
  Gates = {}
  FailNodes = {}
  DeletedRuns = {}
  CancelReqs = {}
  ApprovalReqs = {}
  ReapReqs = {}
  MaxCrashes = 2
  MaxLapses = 0
  MaxFaults = 0
  MaxBoots = 0
INVARIANT LeaseExcludes
PROPERTY ImplementsDurableRun
CHECK_DEADLOCK FALSE
