SPECIFICATION FairSpec
CONSTANTS
  CronWorkers = {p1, p2}
  CronWorkflows = {w1}
  TickSlots = {t1, t2}
  MaxEdits = 1
  MaxCronFaults = 1
  MaxCronRuns = 2
  Workers = {i1, i2}
  Consumers = {c1, c2, c3}
  Messages = {m1}
  Nothing = Nothing
  TriggerKinds = {"rabbitmq", "redis", "websocket"}
  MaxStreamEdits = 1
  MaxStreamFaults = 1
  Processes = {q1, q2}
  MaxStarts = 3
INVARIANT StackingBounded
INVARIANT DispatchedAtMost
PROPERTY ScheduleConverges
PROPERTY MessageDispatched
PROPERTY CancelledLeave
PROPERTY RowFollowsTheLiving
CHECK_DEADLOCK FALSE
