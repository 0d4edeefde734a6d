SPECIFICATION Spec
CONSTANTS
  w1 = w1
  w2 = w2
  Workers = {w1, w2}
  NoWorker = NoWorker
  NoState = NoState
  N = 3
  R = 1
  Gates = {}
  FailNodes = {}
  DeletedRuns = {1}
  CancelReqs = {}
  ApprovalReqs = {}
  ReapReqs = {}
  MaxCrashes = 1
  MaxLapses = 2
  MaxFaults = 1
  MaxBoots = 1
INVARIANT StrayedBound
INVARIANT SuccessExecutedAll
PROPERTY CommittedProgressKept
SYMMETRY WorkerSymmetry
CHECK_DEADLOCK FALSE
