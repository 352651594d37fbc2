-------------------------- MODULE StockLedgerProofs --------------------------
(***************************************************************************)
(* Theorems about StockLedger, for every set of carts and skus, every cart *)
(* content and every initial stock.  The inductive invariant is the        *)
(* conjunction of the four bounds and the types: each needs the others.    *)
(***************************************************************************)
EXTENDS StockLedger, FiniteSetTheorems, TLAPS

----------------------------------------------------------------------------
(* Counting units.                                                         *)

Quantities == [Txs -> [Skus -> 0..MaxLineQty]]

\* What a cart takes from the shelf is what it asks for, or nothing.
LEMMA ShelfQtyType == ShelfQty \in Quantities
BY LedgerAssumption DEF ShelfQty, Quantities

\* The units of a set of carts are finitely many, so SUM(qty) is a number.
LEMMA UnitsFinite ==
  ASSUME NEW q \in Quantities, NEW T \in SUBSET Txs, NEW s \in Skus
  PROVE  IsFiniteSet(Units(q, T, s)) /\ Total(q, T, s) \in Nat
<1>1. IsFiniteSet(T)
  BY LedgerAssumption, FS_Subset
<1>2. IsFiniteSet(1..MaxLineQty)
  BY LedgerAssumption, FS_Interval
<1>3. IsFiniteSet(T \X (1..MaxLineQty))
  BY <1>1, <1>2, FS_Product
<1>4. Units(q, T, s) \in SUBSET (T \X (1..MaxLineQty))
  BY DEF Units
<1>5. IsFiniteSet(Units(q, T, s))
  BY <1>3, <1>4, FS_Subset
<1> QED BY <1>5, FS_CardinalityType DEF Total

\* No cart, no units.
LEMMA TotalEmpty ==
  ASSUME NEW q \in Quantities, NEW s \in Skus
  PROVE  Total(q, {}, s) = 0
<1>1. Units(q, {}, s) = {}
  BY DEF Units
<1> QED BY <1>1, FS_EmptySet DEF Total

\* SUM(qty) over one cart is the quantity of its line.
LEMMA TotalSingle ==
  ASSUME NEW q \in Quantities, NEW t \in Txs, NEW s \in Skus
  PROVE  Total(q, {t}, s) = q[t][s]
<1> DEFINE n == q[t][s]
<1>1. n \in 0..MaxLineQty
  BY DEF Quantities
<1>2. n \in Nat
  BY <1>1, LedgerAssumption
<1>3. Units(q, {t}, s) = {t} \X (1..n)
  <2>1. ASSUME NEW u PROVE u \in Units(q, {t}, s) <=> u \in {t} \X (1..n)
    BY <1>1, LedgerAssumption DEF Units
  <2> QED BY <2>1
<1> HIDE DEF n
<1>4. IsFiniteSet({t}) /\ Cardinality({t}) = 1
  BY FS_Singleton
<1>5. IsFiniteSet(1..n) /\ Cardinality(1..n) = n
  BY <1>2, FS_Interval
<1>6. Cardinality({t} \X (1..n)) = Cardinality({t}) * Cardinality(1..n)
  BY <1>4, <1>5, FS_Product, Zenon
<1>7. Cardinality({t}) * Cardinality(1..n) = n
  <2>1. 1 * n = n
    BY <1>2
  <2> QED BY <1>4, <1>5, <2>1, Zenon
<1>8. Total(q, {t}, s) = n
  BY <1>3, <1>6, <1>7, Zenon DEF Total
<1> QED BY <1>8 DEF n

\* SUM(qty) splits over disjoint sets of carts.
LEMMA TotalUnion ==
  ASSUME NEW q \in Quantities, NEW T \in SUBSET Txs, NEW D \in SUBSET Txs,
         T \intersect D = {}, NEW s \in Skus
  PROVE  Total(q, T \union D, s) = Total(q, T, s) + Total(q, D, s)
<1>1. Units(q, T \union D, s) = Units(q, T, s) \union Units(q, D, s)
  BY DEF Units
<1>2. Units(q, T, s) \intersect Units(q, D, s) = {}
  BY DEF Units
<1>3. IsFiniteSet(Units(q, T, s)) /\ IsFiniteSet(Units(q, D, s))
  BY UnitsFinite
<1>4. Cardinality(Units(q, T, s)) \in Nat /\ Cardinality(Units(q, D, s)) \in Nat
  BY <1>3, FS_CardinalityType
<1>5. Cardinality(Units(q, T, s) \union Units(q, D, s))
        = Cardinality(Units(q, T, s)) + Cardinality(Units(q, D, s))
  BY <1>2, <1>3, <1>4, FS_Union, FS_EmptySet
<1> QED BY <1>1, <1>5 DEF Total

\* One cart joins.
LEMMA TotalAdd ==
  ASSUME NEW q \in Quantities, NEW T \in SUBSET Txs, NEW t \in Txs \ T, NEW s \in Skus
  PROVE  Total(q, T \union {t}, s) = Total(q, T, s) + q[t][s]
<1>1. T \intersect {t} = {} /\ {t} \in SUBSET Txs /\ t \in Txs
  OBVIOUS
<1>2. Total(q, T \union {t}, s) = Total(q, T, s) + Total(q, {t}, s)
  BY <1>1, TotalUnion
<1>3. Total(q, {t}, s) = q[t][s]
  BY <1>1, TotalSingle
<1> QED BY <1>2, <1>3

\* A set of carts leaves.
LEMMA TotalMinus ==
  ASSUME NEW q \in Quantities, NEW T \in SUBSET Txs, NEW D \in SUBSET T, NEW s \in Skus
  PROVE  Total(q, T \ D, s) = Total(q, T, s) - Total(q, D, s)
<1>1. /\ T \ D \in SUBSET Txs /\ D \in SUBSET Txs
      /\ (T \ D) \intersect D = {} /\ (T \ D) \union D = T
  OBVIOUS
<1>2. Total(q, T, s) = Total(q, T \ D, s) + Total(q, D, s)
  BY <1>1, TotalUnion
<1>3. Total(q, T \ D, s) \in Nat /\ Total(q, D, s) \in Nat
  BY <1>1, UnitsFinite
<1> QED BY <1>2, <1>3

\* One cart leaves.
LEMMA TotalRemove ==
  ASSUME NEW q \in Quantities, NEW T \in SUBSET Txs, NEW t \in T, NEW s \in Skus
  PROVE  Total(q, T \ {t}, s) = Total(q, T, s) - q[t][s]
<1>1. {t} \in SUBSET T /\ t \in Txs
  OBVIOUS
<1>2. Total(q, T \ {t}, s) = Total(q, T, s) - Total(q, {t}, s)
  BY <1>1, TotalMinus
<1>3. Total(q, {t}, s) = q[t][s]
  BY <1>1, TotalSingle
<1> QED BY <1>2, <1>3

----------------------------------------------------------------------------
(* The inductive invariant.                                                *)

LedgerInv ==
  /\ LedgerTypeOK
  /\ StockWithinBounds
  /\ HoldsAreBacked
  /\ ShelfConserved
  /\ SalesCounted

\* What the quantities and the totals are, for the arithmetic of the steps.
LEMMA Numbers ==
  /\ ShelfQty \in Quantities
  /\ Qty \in Quantities
  /\ \A t \in Txs, s \in Skus : ShelfQty[t][s] \in Nat /\ Qty[t][s] \in Nat
  /\ \A T \in SUBSET Txs, s \in Skus :
       Total(ShelfQty, T, s) \in Nat /\ Total(Qty, T, s) \in Nat
<1>1. ShelfQty \in Quantities
  BY ShelfQtyType
<1>2. Qty \in Quantities
  BY LedgerAssumption DEF Quantities
<1>3. ASSUME NEW q \in Quantities, NEW t \in Txs, NEW s \in Skus
      PROVE  q[t][s] \in Nat
  BY LedgerAssumption DEF Quantities
<1> QED BY <1>1, <1>2, <1>3, UnitsFinite

LEMMA InitInv == LedgerInit => LedgerInv
<1> SUFFICES ASSUME LedgerInit PROVE LedgerInv
  OBVIOUS
<1> USE DEF LedgerInit
<1>1. HeldBy("ACTIVE") = {} /\ HeldBy("COMMITTED") = {}
  BY DEF HeldBy
<1>2. \A s \in Skus : Total(ShelfQty, {}, s) = 0 /\ Total(Qty, {}, s) = 0
  BY Numbers, TotalEmpty
<1>3. LedgerTypeOK
  BY LedgerAssumption DEF LedgerTypeOK, HoldStatus
<1>4. StockWithinBounds
  BY LedgerAssumption DEF StockWithinBounds
<1>5. HoldsAreBacked
  BY <1>1, <1>2 DEF HoldsAreBacked
<1>6. ShelfConserved
  <2> SUFFICES ASSUME NEW s \in Skus
               PROVE  InitStock[s] + Total(ShelfQty, {}, s) = InitStock[s]
    BY <1>1 DEF ShelfConserved
  <2>1. InitStock[s] \in Nat /\ Total(ShelfQty, {}, s) = 0
    BY <1>2, LedgerAssumption
  <2> QED BY <2>1
<1>7. SalesCounted
  BY <1>1, <1>2 DEF SalesCounted
<1> QED BY <1>3, <1>4, <1>5, <1>6, <1>7 DEF LedgerInv

\* Taking units for t and marking it ACTIVE: reserveCart for a cart without
\* rows, the grace re-reservation for one that is EXPIRED or still ACTIVE.
LEMMA TakeKeepsInv ==
  ASSUME LedgerInv, NEW t \in Txs, hold[t] \in {"NONE", "EXPIRED", "ACTIVE"},
         Sellable(t), TakeUnits(t), SetHold(t, "ACTIVE"),
         due' = [due EXCEPT ![t] = FALSE], UNCHANGED <<stock, sold>>, velocity' \in Nat
  PROVE  LedgerInv'
<1> USE DEF LedgerInv
<1>1. LedgerTypeOK'
  BY Numbers DEF LedgerTypeOK, TakeUnits, SetHold, HoldStatus
<1>2. StockWithinBounds'
  BY Numbers DEF LedgerTypeOK, StockWithinBounds, Sellable, TakeUnits
<1>3. HeldBy("COMMITTED")' = HeldBy("COMMITTED")
  BY DEF HeldBy, SetHold, LedgerTypeOK
<1>4. HeldBy("ACTIVE")' = HeldBy("ACTIVE") \union {t}
  BY DEF HeldBy, SetHold, LedgerTypeOK
<1>5. HoldsAreBacked'
  <2> SUFFICES ASSUME NEW s \in Skus
               PROVE  Total(ShelfQty, HeldBy("ACTIVE") \union {t}, s) <= reserved'[s]
    BY <1>4 DEF HoldsAreBacked
  <2>1. /\ reserved'[s] = reserved[s] + ShelfQty[t][s]
        /\ reserved[s] \in Int /\ ShelfQty[t][s] \in Nat
        /\ HeldBy("ACTIVE") \in SUBSET Txs
        /\ Total(ShelfQty, HeldBy("ACTIVE"), s) \in Nat
        /\ Total(ShelfQty, HeldBy("ACTIVE"), s) <= reserved[s]
    BY Numbers DEF TakeUnits, LedgerTypeOK, HeldBy, HoldsAreBacked
  <2>2. CASE t \in HeldBy("ACTIVE")
    <3>1. HeldBy("ACTIVE") \union {t} = HeldBy("ACTIVE")
      BY <2>2
    <3>2. Total(ShelfQty, HeldBy("ACTIVE") \union {t}, s) = Total(ShelfQty, HeldBy("ACTIVE"), s)
      BY <3>1, Zenon
    <3> QED BY <2>1, <3>2
  <2>3. CASE t \notin HeldBy("ACTIVE")
    <3>1. Total(ShelfQty, HeldBy("ACTIVE") \union {t}, s)
            = Total(ShelfQty, HeldBy("ACTIVE"), s) + ShelfQty[t][s]
      BY <2>1, <2>3, Numbers, TotalAdd
    <3> QED BY <2>1, <3>1
  <2> QED BY <2>2, <2>3
<1>6. ShelfConserved' /\ SalesCounted'
  BY <1>3 DEF ShelfConserved, SalesCounted
<1> QED BY <1>1, <1>2, <1>5, <1>6

\* Giving the units of t back and marking it RELEASED.
LEMMA ReleaseKeepsInv ==
  ASSUME LedgerInv, NEW t \in Txs, ReleaseHolds(t)
  PROVE  LedgerInv'
<1> USE DEF LedgerInv
<1>1. hold[t] = "ACTIVE" /\ Backed(t) /\ ReturnUnits(t) /\ SetHold(t, "RELEASED")
      /\ UNCHANGED <<stock, sold, due, velocity>>
  BY DEF ReleaseHolds, CanRelease
<1>2. LedgerTypeOK'
  BY <1>1, Numbers DEF LedgerTypeOK, ReturnUnits, SetHold, HoldStatus
<1>3. StockWithinBounds'
  BY <1>1, Numbers DEF LedgerTypeOK, StockWithinBounds, Backed, ReturnUnits
<1>4. HeldBy("COMMITTED")' = HeldBy("COMMITTED")
      /\ HeldBy("ACTIVE")' = HeldBy("ACTIVE") \ {t}
      /\ t \in HeldBy("ACTIVE") /\ HeldBy("ACTIVE") \in SUBSET Txs
  BY <1>1 DEF HeldBy, SetHold, LedgerTypeOK
<1>5. HoldsAreBacked'
  <2> SUFFICES ASSUME NEW s \in Skus
               PROVE  Total(ShelfQty, HeldBy("ACTIVE") \ {t}, s) <= reserved'[s]
    BY <1>4 DEF HoldsAreBacked
  <2>1. Total(ShelfQty, HeldBy("ACTIVE") \ {t}, s)
          = Total(ShelfQty, HeldBy("ACTIVE"), s) - ShelfQty[t][s]
    BY <1>4, Numbers, TotalRemove
  <2>2. /\ reserved'[s] = reserved[s] - ShelfQty[t][s]
        /\ reserved[s] \in Int /\ ShelfQty[t][s] \in Nat
        /\ Total(ShelfQty, HeldBy("ACTIVE"), s) \in Nat
        /\ Total(ShelfQty, HeldBy("ACTIVE"), s) <= reserved[s]
    BY <1>1, <1>4, Numbers DEF ReturnUnits, LedgerTypeOK, HoldsAreBacked
  <2> QED BY <2>1, <2>2
<1>6. ShelfConserved' /\ SalesCounted'
  BY <1>1, <1>4 DEF ShelfConserved, SalesCounted
<1> QED BY <1>2, <1>3, <1>5, <1>6

\* releaseExpiredHolds: by HoldsAreBacked its decrement guard never fails.
LEMMA ExpireKeepsInv ==
  ASSUME LedgerInv, ReleaseExpiredHolds
  PROVE  LedgerInv'
<1> USE DEF LedgerInv
<1>1. DueHolds \in SUBSET HeldBy("ACTIVE") /\ HeldBy("ACTIVE") \in SUBSET Txs
      /\ DueHolds \in SUBSET Txs
  BY DEF DueHolds, HeldBy
<1>2. /\ HeldBy("COMMITTED")' = HeldBy("COMMITTED")
      /\ HeldBy("ACTIVE")' = HeldBy("ACTIVE") \ DueHolds
      /\ UNCHANGED <<stock, sold, due, velocity>>
  BY <1>1 DEF HeldBy, ReleaseExpiredHolds, LedgerTypeOK
<1>3. ASSUME NEW s \in Skus
      PROVE  /\ Total(ShelfQty, HeldBy("ACTIVE") \ DueHolds, s)
                  = Total(ShelfQty, HeldBy("ACTIVE"), s) - Total(ShelfQty, DueHolds, s)
             /\ reserved'[s] = reserved[s] - Total(ShelfQty, DueHolds, s)
             /\ reserved[s] \in Int
             /\ Total(ShelfQty, DueHolds, s) \in Nat
             /\ Total(ShelfQty, HeldBy("ACTIVE"), s) \in Nat
             /\ Total(ShelfQty, HeldBy("ACTIVE") \ DueHolds, s) \in Nat
             /\ Total(ShelfQty, HeldBy("ACTIVE"), s) <= reserved[s]
  <2>1. Total(ShelfQty, HeldBy("ACTIVE") \ DueHolds, s)
          = Total(ShelfQty, HeldBy("ACTIVE"), s) - Total(ShelfQty, DueHolds, s)
    BY <1>1, Numbers, TotalMinus
  <2>2. HeldBy("ACTIVE") \ DueHolds \in SUBSET Txs
    BY <1>1
  <2>3. /\ Total(ShelfQty, DueHolds, s) \in Nat
        /\ Total(ShelfQty, HeldBy("ACTIVE"), s) \in Nat
        /\ Total(ShelfQty, HeldBy("ACTIVE") \ DueHolds, s) \in Nat
    BY <1>1, <2>2, Numbers
  <2>4. reserved[s] \in Int /\ Total(ShelfQty, HeldBy("ACTIVE"), s) <= reserved[s]
    BY DEF LedgerTypeOK, HoldsAreBacked
  <2>5. reserved[s] >= Total(ShelfQty, DueHolds, s)
    BY <2>1, <2>3, <2>4
  <2>6. reserved'[s] = reserved[s] - Total(ShelfQty, DueHolds, s)
    BY <2>5 DEF ReleaseExpiredHolds
  <2> QED BY <2>1, <2>3, <2>4, <2>6
<1>4. LedgerTypeOK'
  <2>1. reserved' \in [Skus -> Int]
    <3>1. DOMAIN reserved' = Skus /\ reserved' = [s \in Skus |-> reserved'[s]]
      BY DEF ReleaseExpiredHolds
    <3>2. \A s \in Skus : reserved'[s] \in Int
      BY <1>3
    <3> QED BY <3>1, <3>2
  <2>2. hold' \in [Txs -> HoldStatus]
    BY DEF ReleaseExpiredHolds, LedgerTypeOK, HoldStatus
  <2> QED BY <1>2, <2>1, <2>2 DEF LedgerTypeOK
<1>5. StockWithinBounds'
  <2> SUFFICES ASSUME NEW s \in Skus
               PROVE  0 <= reserved'[s] /\ reserved'[s] <= stock[s]
    BY <1>2 DEF StockWithinBounds
  <2>1. stock[s] \in Int /\ reserved[s] <= stock[s]
    BY DEF LedgerTypeOK, StockWithinBounds
  <2> QED BY <1>3, <2>1
<1>6. HoldsAreBacked'
  <2> SUFFICES ASSUME NEW s \in Skus
               PROVE  Total(ShelfQty, HeldBy("ACTIVE") \ DueHolds, s) <= reserved'[s]
    BY <1>2 DEF HoldsAreBacked
  <2>1. /\ Total(ShelfQty, HeldBy("ACTIVE") \ DueHolds, s)
             = Total(ShelfQty, HeldBy("ACTIVE"), s) - Total(ShelfQty, DueHolds, s)
        /\ reserved'[s] = reserved[s] - Total(ShelfQty, DueHolds, s)
    BY <1>3
  <2>2. /\ reserved[s] \in Int
        /\ Total(ShelfQty, DueHolds, s) \in Nat
        /\ Total(ShelfQty, HeldBy("ACTIVE"), s) \in Nat
        /\ Total(ShelfQty, HeldBy("ACTIVE"), s) <= reserved[s]
    BY <1>3
  <2> HIDE DEF LedgerInv
  <2> QED BY <2>1, <2>2
<1>7. ShelfConserved' /\ SalesCounted'
  BY <1>2 DEF ShelfConserved, SalesCounted
<1> QED BY <1>4, <1>5, <1>6, <1>7

\* The hold-to-sale move of completeTransaction.
LEMMA CommitKeepsInv ==
  ASSUME LedgerInv, NEW t \in Txs, CommitHolds(t)
  PROVE  LedgerInv'
<1> USE DEF LedgerInv
<1>1. /\ hold[t] = "ACTIVE" /\ Backed(t) /\ ReturnUnits(t) /\ SetHold(t, "COMMITTED")
      /\ stock' = [s \in Skus |-> stock[s] - ShelfQty[t][s]]
      /\ sold' = [s \in Skus |-> sold[s] + Qty[t][s]]
      /\ UNCHANGED <<due, velocity>>
  BY DEF CommitHolds, CanCommit
<1>2. LedgerTypeOK'
  BY <1>1, Numbers DEF LedgerTypeOK, ReturnUnits, SetHold, HoldStatus
<1>3. StockWithinBounds'
  BY <1>1, Numbers DEF LedgerTypeOK, StockWithinBounds, Backed, ReturnUnits
<1>4. /\ HeldBy("COMMITTED")' = HeldBy("COMMITTED") \union {t}
      /\ HeldBy("ACTIVE")' = HeldBy("ACTIVE") \ {t}
  BY <1>1 DEF HeldBy, SetHold, LedgerTypeOK
<1>5. t \in HeldBy("ACTIVE") /\ HeldBy("ACTIVE") \in SUBSET Txs
  BY <1>1 DEF HeldBy
<1>6. t \in Txs \ HeldBy("COMMITTED") /\ HeldBy("COMMITTED") \in SUBSET Txs
  BY <1>1 DEF HeldBy
<1>7. HoldsAreBacked'
  <2> SUFFICES ASSUME NEW s \in Skus
               PROVE  Total(ShelfQty, HeldBy("ACTIVE") \ {t}, s) <= reserved'[s]
    BY <1>4 DEF HoldsAreBacked
  <2>1. Total(ShelfQty, HeldBy("ACTIVE") \ {t}, s)
          = Total(ShelfQty, HeldBy("ACTIVE"), s) - ShelfQty[t][s]
    BY <1>5, Numbers, TotalRemove
  <2>2. /\ reserved'[s] = reserved[s] - ShelfQty[t][s]
        /\ reserved[s] \in Int /\ ShelfQty[t][s] \in Nat
        /\ Total(ShelfQty, HeldBy("ACTIVE"), s) \in Nat
        /\ Total(ShelfQty, HeldBy("ACTIVE"), s) <= reserved[s]
    BY <1>1, <1>5, Numbers DEF ReturnUnits, LedgerTypeOK, HoldsAreBacked
  <2> QED BY <2>1, <2>2
<1>8. ShelfConserved'
  <2> SUFFICES ASSUME NEW s \in Skus
               PROVE  stock'[s] + Total(ShelfQty, HeldBy("COMMITTED") \union {t}, s) = InitStock[s]
    BY <1>4 DEF ShelfConserved
  <2>1. Total(ShelfQty, HeldBy("COMMITTED") \union {t}, s)
          = Total(ShelfQty, HeldBy("COMMITTED"), s) + ShelfQty[t][s]
    BY <1>6, Numbers, TotalAdd
  <2>2. /\ stock'[s] = stock[s] - ShelfQty[t][s]
        /\ stock[s] \in Int /\ ShelfQty[t][s] \in Nat
        /\ Total(ShelfQty, HeldBy("COMMITTED"), s) \in Nat
        /\ stock[s] + Total(ShelfQty, HeldBy("COMMITTED"), s) = InitStock[s]
    BY <1>1, <1>6, Numbers DEF LedgerTypeOK, ShelfConserved
  <2> QED BY <2>1, <2>2
<1>9. SalesCounted'
  <2> SUFFICES ASSUME NEW s \in Skus
               PROVE  sold'[s] = Total(Qty, HeldBy("COMMITTED") \union {t}, s)
    BY <1>4 DEF SalesCounted
  <2>1. Total(Qty, HeldBy("COMMITTED") \union {t}, s)
          = Total(Qty, HeldBy("COMMITTED"), s) + Qty[t][s]
    BY <1>6, Numbers, TotalAdd
  <2>2. sold'[s] = sold[s] + Qty[t][s] /\ sold[s] = Total(Qty, HeldBy("COMMITTED"), s)
    BY <1>1 DEF SalesCounted
  <2> QED BY <2>1, <2>2
<1> QED BY <1>2, <1>3, <1>7, <1>8, <1>9

LEMMA LapseKeepsInv ==
  ASSUME LedgerInv, NEW t \in Txs, HoldLapses(t)
  PROVE  LedgerInv'
<1> USE DEF LedgerInv, HoldLapses
<1>1. LedgerTypeOK'
  BY DEF LedgerTypeOK
<1>2. HeldBy("ACTIVE")' = HeldBy("ACTIVE") /\ HeldBy("COMMITTED")' = HeldBy("COMMITTED")
  BY DEF HeldBy
<1> QED BY <1>1, <1>2 DEF StockWithinBounds, HoldsAreBacked, ShelfConserved, SalesCounted

----------------------------------------------------------------------------
(* The theorems.                                                           *)

\* Every step of the ledger, or none, preserves the inductive invariant.
THEOREM StepKeepsInv == LedgerInv /\ [LedgerNext]_ledgerVars => LedgerInv'
<1> SUFFICES ASSUME LedgerInv, [LedgerNext]_ledgerVars PROVE LedgerInv'
  OBVIOUS
<1>1. CASE ReleaseExpiredHolds
  BY <1>1, ExpireKeepsInv
<1>2. ASSUME NEW t \in Txs, ReserveCart(t) PROVE LedgerInv'
  <2>1. velocity' \in Nat
    BY <1>2 DEF ReserveCart, LedgerInv, LedgerTypeOK
  <2> QED BY <1>2, <2>1, TakeKeepsInv DEF ReserveCart, HoldCart, CanReserve
<1>3. ASSUME NEW t \in Txs, ReserveCartCounted(t) PROVE LedgerInv'
  <2>1. velocity' \in Nat
    BY <1>3 DEF ReserveCartCounted, LedgerInv, LedgerTypeOK
  <2> QED BY <1>3, <2>1, TakeKeepsInv DEF ReserveCartCounted, HoldCart, CanReserve
<1>4. ASSUME NEW t \in Txs, ReReserveExpiredHolds(t) PROVE LedgerInv'
  <2>1. velocity' \in Nat
    BY <1>4 DEF ReReserveExpiredHolds, LedgerInv, LedgerTypeOK
  <2> QED BY <1>4, <2>1, TakeKeepsInv DEF ReReserveExpiredHolds, CanReReserve
<1>5. ASSUME NEW t \in Txs, ReleaseHolds(t) PROVE LedgerInv'
  BY <1>5, ReleaseKeepsInv
<1>6. ASSUME NEW t \in Txs, CommitHolds(t) PROVE LedgerInv'
  BY <1>6, CommitKeepsInv
<1>7. ASSUME NEW t \in Txs, HoldLapses(t) PROVE LedgerInv'
  BY <1>7, LapseKeepsInv
<1>8. CASE UNCHANGED ledgerVars
  <2>1. HeldBy("ACTIVE")' = HeldBy("ACTIVE") /\ HeldBy("COMMITTED")' = HeldBy("COMMITTED")
    BY <1>8 DEF ledgerVars, HeldBy
  <2> QED BY <1>8, <2>1 DEF ledgerVars, LedgerInv, LedgerTypeOK, StockWithinBounds,
                        HoldsAreBacked, ShelfConserved, SalesCounted
<1> QED BY <1>1, <1>2, <1>3, <1>4, <1>5, <1>6, <1>7, <1>8 DEF LedgerNext

\* The inductive invariant holds in every reachable state of the ledger.
THEOREM LedgerSafe == LedgerSpec => []LedgerInv
<1>1. LedgerInit => LedgerInv
  BY InitInv
<1>2. LedgerInv /\ [LedgerNext]_ledgerVars => LedgerInv'
  BY StepKeepsInv
<1> QED BY <1>1, <1>2, PTL DEF LedgerSpec

\* The counters keep their types: in particular sold never goes negative.
THEOREM LedgerTypeCorrect == LedgerSpec => []LedgerTypeOK
<1>1. LedgerInv => LedgerTypeOK
  BY DEF LedgerInv
<1> QED BY <1>1, LedgerSafe, PTL

\* The five transactions never meet the CHECK constraints of inventory.
THEOREM BoundsHold == LedgerSpec => []StockWithinBounds
<1>1. LedgerInv => StockWithinBounds
  BY DEF LedgerInv
<1> QED BY <1>1, LedgerSafe, PTL

\* The decrement guards never fail: every tripwire alert stays silent.
THEOREM TripwiresSilent == LedgerSpec => []HoldsAreBacked
<1>1. LedgerInv => HoldsAreBacked
  BY DEF LedgerInv
<1> QED BY <1>1, LedgerSafe, PTL

\* Each committed cart removed exactly its units from the shelf, once.
THEOREM ShelfIsConserved == LedgerSpec => []ShelfConserved
<1>1. LedgerInv => ShelfConserved
  BY DEF LedgerInv
<1> QED BY <1>1, LedgerSafe, PTL

\* inventory.sold is the number of units of the committed carts.
THEOREM SalesAreCounted == LedgerSpec => []SalesCounted
<1>1. LedgerInv => SalesCounted
  BY DEF LedgerInv
<1> QED BY <1>1, LedgerSafe, PTL

\* Shelf and sales tell one story: both follow from the invariant.
THEOREM UnitsAreAccounted == LedgerSpec => []UnitsAccounted
<1>1. LedgerInv => UnitsAccounted
  BY DEF LedgerInv, UnitsAccounted
<1> QED BY <1>1, LedgerSafe, PTL

\* Oversell is impossible, by the four bounds together.
THEOREM NeverOversold == LedgerSpec => []NoOversell
<1>1. LedgerInv => NoOversell
  <2> SUFFICES ASSUME LedgerInv, NEW s \in Skus
               PROVE  Total(ShelfQty, HeldBy("COMMITTED") \union HeldBy("ACTIVE"), s)
                        <= InitStock[s]
    BY DEF NoOversell
  <2> USE DEF LedgerInv
  <2>1. /\ HeldBy("COMMITTED") \in SUBSET Txs /\ HeldBy("ACTIVE") \in SUBSET Txs
        /\ HeldBy("COMMITTED") \intersect HeldBy("ACTIVE") = {}
    BY DEF HeldBy
  <2>2. Total(ShelfQty, HeldBy("COMMITTED") \union HeldBy("ACTIVE"), s)
          = Total(ShelfQty, HeldBy("COMMITTED"), s) + Total(ShelfQty, HeldBy("ACTIVE"), s)
    BY <2>1, Numbers, TotalUnion
  <2>3. /\ Total(ShelfQty, HeldBy("COMMITTED"), s) \in Nat
        /\ Total(ShelfQty, HeldBy("ACTIVE"), s) \in Nat
        /\ reserved[s] \in Int /\ stock[s] \in Int
    BY <2>1, Numbers DEF LedgerTypeOK
  <2>4. /\ Total(ShelfQty, HeldBy("ACTIVE"), s) <= reserved[s]
        /\ reserved[s] <= stock[s]
        /\ stock[s] + Total(ShelfQty, HeldBy("COMMITTED"), s) = InitStock[s]
    BY DEF HoldsAreBacked, StockWithinBounds, ShelfConserved
  <2> QED BY <2>2, <2>3, <2>4
<1> QED BY <1>1, LedgerSafe, PTL

----------------------------------------------------------------------------
(* The velocity count.                                                     *)

\* The carts that were ever reserved.
Reserved == Txs \ HeldBy("NONE")

\* A cart whose rows exist keeps them: the set of reserved carts only grows.
LEMMA ReservedGrows ==
  ASSUME LedgerTypeOK, [LedgerNext]_ledgerVars
  PROVE  Reserved \subseteq Reserved'
<1> USE DEF Reserved, HeldBy, LedgerTypeOK, SetHold
<1>1. CASE ReleaseExpiredHolds
  BY <1>1 DEF ReleaseExpiredHolds, DueHolds
<1>2. ASSUME NEW t \in Txs, HoldCart(t) PROVE Reserved \subseteq Reserved'
  BY <1>2 DEF HoldCart
<1>3. ASSUME NEW t \in Txs,
             ReReserveExpiredHolds(t) \/ ReleaseHolds(t) \/ CommitHolds(t) \/ HoldLapses(t)
      PROVE  Reserved \subseteq Reserved'
  BY <1>3 DEF ReReserveExpiredHolds, ReleaseHolds, CommitHolds, HoldLapses
<1>4. CASE UNCHANGED ledgerVars
  BY <1>4 DEF ledgerVars
<1> QED BY <1>1, <1>2, <1>3, <1>4 DEF LedgerNext, ReserveCart, ReserveCartCounted

\* No identity has more carts counted than its ceiling or than it reserved,
\* however many reservations compete for the row.
THEOREM VelocityIsCounted == LedgerSpec => []VelocityCounted
<1>1. LedgerInit => VelocityCounted
  <2> SUFFICES ASSUME LedgerInit PROVE VelocityCounted
    OBVIOUS
  <2>1. IsFiniteSet(Reserved)
    BY LedgerAssumption, FS_Subset DEF Reserved
  <2>2. Cardinality(Reserved) \in Nat
    BY <2>1, FS_CardinalityType
  <2> QED BY <2>2, LedgerAssumption DEF LedgerInit, VelocityCounted, Reserved
<1>2. LedgerTypeOK /\ VelocityCounted /\ [LedgerNext]_ledgerVars => VelocityCounted'
  <2> SUFFICES ASSUME LedgerTypeOK, VelocityCounted, [LedgerNext]_ledgerVars
               PROVE  VelocityCounted'
    OBVIOUS
  <2>1. /\ velocity <= VelocityCeiling /\ velocity <= Cardinality(Reserved)
        /\ velocity \in Nat /\ VelocityCeiling \in Nat
    BY LedgerAssumption DEF VelocityCounted, Reserved, LedgerTypeOK
  <2>2. IsFiniteSet(Reserved) /\ IsFiniteSet(Reserved')
    BY LedgerAssumption, FS_Subset DEF Reserved
  <2>3. Cardinality(Reserved) \in Nat /\ Cardinality(Reserved') \in Nat
    BY <2>2, FS_CardinalityType
  <2>4. ASSUME NEW t \in Txs, ReserveCartCounted(t) PROVE VelocityCounted'
    <3>1. velocity' = velocity + 1 /\ velocity + 1 <= VelocityCeiling
      BY <2>4 DEF ReserveCartCounted, WithinVelocity
    <3>2. t \notin Reserved /\ Reserved' = Reserved \union {t}
      BY <2>4 DEF ReserveCartCounted, HoldCart, CanReserve, SetHold, Reserved, HeldBy,
                  LedgerTypeOK
    <3>3. Cardinality(Reserved') = Cardinality(Reserved) + 1
      BY <2>2, <3>2, FS_AddElement
    <3>4. velocity' <= VelocityCeiling /\ velocity' <= Cardinality(Reserved')
      BY <2>1, <2>3, <3>1, <3>3
    <3> QED BY <3>4 DEF VelocityCounted, Reserved
  <2>5. CASE UNCHANGED velocity
    <3>1. Cardinality(Reserved) <= Cardinality(Reserved')
      BY <2>2, ReservedGrows, FS_Subset
    <3>2. velocity' <= VelocityCeiling /\ velocity' <= Cardinality(Reserved')
      BY <2>1, <2>3, <2>5, <3>1
    <3> QED BY <3>2 DEF VelocityCounted, Reserved
  <2>6. ASSUME NEW t \in Txs,
               ReserveCart(t) \/ ReReserveExpiredHolds(t) \/ ReleaseHolds(t)
                 \/ CommitHolds(t) \/ HoldLapses(t)
        PROVE  UNCHANGED velocity
    BY <2>6 DEF ReserveCart, ReReserveExpiredHolds, ReleaseHolds, CommitHolds, HoldLapses
  <2>7. ReleaseExpiredHolds \/ UNCHANGED ledgerVars => UNCHANGED velocity
    BY DEF ReleaseExpiredHolds, ledgerVars
  <2> QED BY <2>4, <2>5, <2>6, <2>7 DEF LedgerNext
<1> QED BY <1>1, <1>2, LedgerTypeCorrect, PTL DEF LedgerSpec
=============================================================================
