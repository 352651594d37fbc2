INIT DoorInit
NEXT DoorNext
CONSTANTS
  a1 = a1
  q1 = q1
  q2 = q2
  Agents = {a1}
  Reqs = {q1, q2}
  Capacity = 1
  Refill = 1
  IdleTTL = 1
  MaxFailures = 1
  Forgiven = 1
  FailTTL = 1
  PruneEvery = 1
  MaxStreams = 1
  MaxStreamsPerAgent = 1
  Horizon = 0
INVARIANT SlotsEndWithSockets
CHECK_DEADLOCK FALSE
