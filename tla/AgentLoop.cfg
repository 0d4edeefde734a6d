SPECIFICATION FairSpec
CONSTANTS
  a = a
  b = b
  c = c
  t = t
  u = u
  Final = Final
  None = None
  Agents = {a, b, c}
  Tools = {t, u}
  Plan <- MCPlan
  Guarded = {a, c}
  Structured = {b}
  Continues = {b}
  NodeGated = {u}
  Recoverable = {t}
  MaxIters = 2
  MaxCalls = 2
  MaxTurns = 2
  MaxCrashes = 1
  MaxFaults = 1
  MaxDecisions = 3
INVARIANT RanOnce
INVARIANT NothingSkipped
INVARIANT GateAskedOnce
PROPERTY RunsOnlyApproved
PROPERTY RunSettles
CHECK_DEADLOCK FALSE
