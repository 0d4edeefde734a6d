SPECIFICATION Spec
CONSTANTS
  w1 = w1
  w2 = w2
  Workers = {w1, w2}
  NoWorker = NoWorker
  NoState = NoState
  N = 2
  R = 1
  Gates = {1, 2}
  FailNodes = {}
  DeletedRuns = {}
  CancelReqs = {c1}
  ApprovalReqs = {a1, a2}
  ReapReqs = {}
  MaxCrashes = 0
  MaxLapses = 1
  MaxFaults = 0
  MaxBoots = 0
INVARIANT GateRespected
INVARIANT RunInvariant
PROPERTY CancelSticks
SYMMETRY WorkerSymmetry
CHECK_DEADLOCK FALSE
