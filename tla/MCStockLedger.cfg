\* Three carts over two skus; the carts together ask for more than the shelf has.
\* The carts end committed, released or expired and nothing is left to do.
CONSTANTS
  t1 = t1
  t2 = t2
  t3 = t3
  s1 = s1
  s2 = s2
  Txs = {t1, t2, t3}
  Skus = {s1, s2}
  MaxLineQty = 2
  Qty <- CartQty
  Backordered <- CartBackordered
  InitStock <- Stock3
  VelocityCeiling = 2
SPECIFICATION LedgerSpec
INVARIANTS
  StockWithinBounds
  HoldsAreBacked
  UnitsAccounted
  NoOversell
  VelocityCounted
CHECK_DEADLOCK FALSE
