SPECIFICATION FairSpec
CONSTANTS
  k1 = k1
  k2 = k2
  Keys = {k1, k2}
  DefaultKeys <- Languages
  Containers = {c1, c2}
  Requests = {r1}
  MaxWarm = 1
  MaxKeys = 1
  MaxReplenish = 1
  MaxSandboxFaults = 1
  Sessions = {s1}
  Ports = {d1, d2}
  EventBuffer = 1
  MaxRetries = 1
  MaxPauses = 2
  MaxDebugFaults = 1
INVARIANT PoolSound
PROPERTY RequestsLeave
PROPERTY SessionsEnd
CHECK_DEADLOCK FALSE
