\* A hold lapses around the capture.
CONSTANTS
  t1 = t1
  s1 = s1
  Txs = {t1}
  Skus = {s1}
  MaxLineQty = 1
  Qty <- OneEach
  Backordered <- NoBackorder
  InitStock <- Stock2
  VelocityCeiling = 1
  Sweeper = Sweeper
  Nobody = Nobody
  EventKinds = {"captured", "order_paid"}
  ProviderKind = "razorpay"
  VelocityWired = FALSE
  HoldsLapse = TRUE
  SlowRequests = FALSE
  BuyerPolls = TRUE
  MaxFaults = 0
SPECIFICATION Spec
INVARIANTS
  PaidKeepsHolds
