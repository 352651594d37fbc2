SPECIFICATION ServicesSpec
CONSTANTS
  c1 = c1
  c2 = c2
  c3 = c3
  k1 = k1
  b1 = b1
  b2 = b2
  Nothing = Nothing
  Calls = {c1, c2, c3}
  IdemKeys = {k1}
  Proposals = {b1, b2}
  MaxLosses = 1
  MaxErrors = 1
  A = A
  B = B
  p1 = p1
  p2 = p2
  Replicas = {A, B}
  Puts = {p1, p2}
  TTL = 1
  QueryTicks = 1
  Cooldown = 2
  MaxTime = 4
  MaxVersions = 3
  a1 = a1
  a2 = a2
  q1 = q1
  q2 = q2
  q3 = q3
  Agents = {a1, a2}
  Reqs = {q1, q2, q3}
  Capacity = 1
  Refill = 1
  IdleTTL = 1
  MaxFailures = 1
  Forgiven = 1
  FailTTL = 1
  PruneEvery = 1
  MaxStreams = 2
  MaxStreamsPerAgent = 1
  Horizon = 2
  Servers = {A, B}
  Home = A
  MaxRows = 2
  MaxReconnects = 1
  MaxBreaks = 1
INVARIANTS
  ExecutionsExclusive
  ReplayIsTrue
  NoUpdateLost
  DriftBounded
  AdmissionBounded
  FramesInOrder
  PassedOverWasElsewhere
  ChainVerifies
PROPERTIES
  StreamEnds
CHECK_DEADLOCK FALSE
