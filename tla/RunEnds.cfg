SPECIFICATION FairSpec
CONSTANTS
  w1 = w1
  w2 = w2
  Workers = {w1, w2}
  NoWorker = NoWorker
  NoState = NoState
  N = 2
  R = 1
  Gates = {1}
  FailNodes = {2}
  DeletedRuns = {}
  CancelReqs = {}
  ApprovalReqs = {a1}
  ReapReqs = {p1}
  MaxCrashes = 1
  MaxLapses = 0
  MaxFaults = 1
  MaxBoots = 0
PROPERTY EveryRunEnds
PROPERTY DecisionConsumed
CHECK_DEADLOCK FALSE
