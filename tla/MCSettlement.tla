---------------------------- MODULE MCSettlement ----------------------------
EXTENDS Settlement

\* One sku, one shelf unit per cart.
OneEach == [t \in Txs |-> [s \in Skus |-> 1]]
NoBackorder == [t \in Txs |-> [s \in Skus |-> FALSE]]
Stock1 == [s \in Skus |-> 1]
Stock2 == [s \in Skus |-> 2]
=============================================================================
