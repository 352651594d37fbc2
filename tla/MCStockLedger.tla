---------------------------- MODULE MCStockLedger ----------------------------
EXTENDS StockLedger

CONSTANTS t1, t2, t3, s1, s2

\* t1 and t2 compete for both skus; t3 has a backordered line of s2.
CartQty ==
  [t \in Txs |-> [s \in Skus |->
     CASE t = t1 /\ s = s1 -> 2
       [] t = t3 /\ s = s2 -> 2
       [] OTHER -> 1]]
CartBackordered == [t \in Txs |-> [s \in Skus |-> t = t3 /\ s = s2]]
Stock3 == [s \in Skus |-> IF s = s1 THEN 3 ELSE 2]
=============================================================================
