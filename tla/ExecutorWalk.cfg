SPECIFICATION FairSpec
CONSTANTS
  t = t
  a = a
  b = b
  f = f
  j = j
  x = x
  u = u
  NoNode = NoNode
  NoState = NoState
  Nodes = {t, a, b, f, j, x}
  Dangling = {u}
  Triggers = {t}
  ForEach = {f}
  Edges <- MCEdges
  Continues = {a}
  Breakpoints = {b, j}
  Gated = {j}
  Agents = {a}
  MaxCrashes = 1
  MaxFaults = 1
  MaxClicks = 2
  MaxYields = 1
INVARIANT FrontierInvariant
INVARIANT WalkComplete
INVARIANT ExecutedOncePerPass
PROPERTY CheckpointsGrow
PROPERTY WalkEnds
CHECK_DEADLOCK FALSE
