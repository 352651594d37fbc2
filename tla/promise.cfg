\* Two transactions compete for the last unit.
CONSTANTS
  t1 = t1
  t2 = t2
  s1 = s1
  Txs = {t1, t2}
  Skus = {s1}
  MaxLineQty = 1
  Qty <- OneEach
  Backordered <- NoBackorder
  InitStock <- Stock1
  VelocityCeiling = 1
  Sweeper = Sweeper
  Nobody = Nobody
  EventKinds = {"captured"}
  ProviderKind = "razorpay"
  VelocityWired = FALSE
  HoldsLapse = TRUE
  SlowRequests = FALSE
  BuyerPolls = TRUE
  MaxFaults = 1
SPECIFICATION Spec
PROPERTIES
  LedgerSpec
  PromiseKept
