SPECIFICATION Spec
CONSTANTS
  Users = {a, b, c}
  Founder = a
  Joined = {b}
  Invites = {i1}
  Calls = {c1, c2}
  MaxTenancyFaults = 1
  Links <- OAuthLinks
  Requests = {r1, r2}
  MaxWorkspaces = 4
  MaxAccountFaults = 1
  NItems = 3
  Targets <- ItemTargets
  BodyEdges <- Body
  ContinueNodes = {"b"}
  BodyBreakpoints = {"h"}
  Asked = {0, 2}
  MaxParallelism = 32
  Workflows = {"A", "B", "C", "D"}
  Root = "A"
  NodesOf <- Nodes
  AgentNodes <- Agents
  TenantOf <- Tenants
  MaxDepth = 3
  MaxToolCalls = 1
  MaxPasses = 2
  NoFrontier = NoFrontier
  NNodes = 2
  Gated = {1, 2}
  InitialBreakpoints = {2}
  ApiCalls = {p1}
  Buffer = 1
  MaxClicks = 2
  Edits = {{}}
  WorkflowIds = {"x", "y"}
  WorkflowTenants = {t1, t2}
  DocNames = {"n"}
  Drafts <- SentDrafts
  Templates <- Bundled
  NoTarget = NoTarget
  Savers = {v1, v2}
  NCases = 3
  Concurrency = 2
  ClaimLoops = 2
  MaxDailyUSD = 1
  Processes = {"api", "worker"}
  ApiProcess = "api"
  Steps = {s1, s2}
  Editors = {e1, e2}
  MaxEdits = 2
  MaxClients = 2
  WatchedRuns = {w}
  Passes = {k1, k2}
  MaxLost = 2
  FanAgents <- AgentsThatFan
  FanNodes = {"nX", "nY"}
  FanGated = {"nX", "nY"}
  Schemaless = {"s"}
  FanRequests <- Fans
  AskedInFlight = {0, 2}
  NoTool = ""
  MaxFanClicks = 1
  MaxVerdicts = 1
  ChatRuns = {m1, m2}
  OldExchanges = 1
  MaxMessages = 2
  MaxChatFaults = 1
SYMMETRY Interchangeable
INVARIANT OwnerKept
INVARIANT AccountSound
INVARIANT LoopAccounted
INVARIANT NestingBounded
INVARIANT RejectionHolds
INVARIANT DocsSound
 
INVARIANT CacheSound
INVARIANT WatchersInformed
INVARIANT FanSound
INVARIANT MemorySound
CHECK_DEADLOCK FALSE
