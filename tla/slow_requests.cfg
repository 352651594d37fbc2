\* No hold lapses, no failed attempt, ids known through settle's reply only,
\* requests that may outlast the age thresholds of the sweep.
CONSTANTS
  t1 = t1
  s1 = s1
  Txs = {t1}
  Skus = {s1}
  MaxLineQty = 1
  Qty <- OneEach
  Backordered <- NoBackorder
  InitStock <- Stock2
  VelocityCeiling = 1
  Sweeper = Sweeper
  Nobody = Nobody
  EventKinds = {"captured", "order_paid"}
  ProviderKind = "mock"
  VelocityWired = FALSE
  HoldsLapse = FALSE
  SlowRequests = TRUE
  BuyerPolls = FALSE
  MaxFaults = 1
SPECIFICATION FairSpec
INVARIANTS
  CaptureRecorded
  OrderedWasReserved
  ClaimExclusive
PROPERTIES
  PaidCompletes
