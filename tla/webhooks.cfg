\* One transaction, every webhook kind, one fault, the velocity ledger wired.
CONSTANTS
  t1 = t1
  s1 = s1
  Txs = {t1}
  Skus = {s1}
  MaxLineQty = 1
  Qty <- OneEach
  Backordered <- NoBackorder
  InitStock <- Stock2
  VelocityCeiling = 1
  Sweeper = Sweeper
  Nobody = Nobody
  EventKinds = {"captured", "order_paid", "mismatch", "failed"}
  ProviderKind = "razorpay"
  VelocityWired = TRUE
  HoldsLapse = TRUE
  SlowRequests = FALSE
  BuyerPolls = TRUE
  MaxFaults = 1
SPECIFICATION Spec
INVARIANTS
  TypeOK
  PaidWasCaptured
  AmbiguousUnpayable
  SaleMatchesState
PROPERTIES
  LegalMoves
