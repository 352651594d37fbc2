---------------------------- MODULE StockLedger ----------------------------
(***************************************************************************)
(* The stock ledger of the settlement module: tables inventory,            *)
(* stock_reservations and identity_velocity, and the five database         *)
(* transactions that move units between them (settlement/reserve.ts,       *)
(* sweeper.ts releaseExpiredHolds, completion.ts).  Every action is one    *)
(* committed SQL transaction; a transaction that rolls back changes        *)
(* nothing and is no step of this module.                                  *)
(*                                                                         *)
(* All hold rows of one transaction are inserted, flipped and re-dated     *)
(* together, so the status column is kept once per transaction: hold[t].   *)
(* due[t] stands for expires_at < now().                                   *)
(***************************************************************************)
EXTENDS Integers, FiniteSets

CONSTANTS
  Txs,             \* transactions, one settled cart each
  Skus,            \* stock keeping units, rows of inventory
  MaxLineQty,      \* largest quantity of one line (shared/src/settlement.ts: 99)
  Qty,             \* Qty[t][s]: units of s in cart t, sub-lines already summed
  Backordered,     \* Backordered[t][s]: the line is made to order, no shelf stock
  InitStock,       \* InitStock[s]: units on hand at the start
  VelocityCeiling  \* max_tx_per_identity_per_day, one identity, one day

ASSUME LedgerAssumption ==
  /\ IsFiniteSet(Txs)
  /\ MaxLineQty \in Nat
  /\ Qty \in [Txs -> [Skus -> 0..MaxLineQty]]
  /\ Backordered \in [Txs -> [Skus -> BOOLEAN]]
  /\ InitStock \in [Skus -> Nat]
  /\ VelocityCeiling \in Nat

VARIABLES
  stock,     \* inventory.stock_qty
  reserved,  \* inventory.reserved
  sold,      \* inventory.sold
  hold,      \* stock_reservations.status of the rows of t, "NONE" before T2
  due,       \* TRUE once the rows of t are past expires_at
  velocity   \* identity_velocity.approved_count

ledgerVars == <<stock, reserved, sold, hold, due, velocity>>

HoldStatus == {"NONE", "ACTIVE", "COMMITTED", "RELEASED", "EXPIRED"}

----------------------------------------------------------------------------
(* Counting units.  A unit is a pair <<t, i>>: the i-th unit cart t asks   *)
(* of a sku, so that SUM(qty) over a set of carts is a cardinality.        *)

\* Units of s that cart t takes from the shelf.
ShelfQty == [t \in Txs |-> [s \in Skus |-> IF Backordered[t][s] THEN 0 ELSE Qty[t][s]]]

\* The units of s the carts in T ask for, counting lines by q.
Units(q, T, s) == {u \in T \X (1..MaxLineQty) : u[2] <= q[u[1]][s]}

\* SELECT sku, SUM(qty) ... GROUP BY sku over the rows of the carts in T.
Total(q, T, s) == Cardinality(Units(q, T, s))

HeldBy(status) == {t \in Txs : hold[t] = status}

----------------------------------------------------------------------------
LedgerInit ==
  /\ stock = InitStock
  /\ reserved = [s \in Skus |-> 0]
  /\ sold = [s \in Skus |-> 0]
  /\ hold = [t \in Txs |-> "NONE"]
  /\ due = [t \in Txs |-> FALSE]
  /\ velocity = 0

\* Mutant: the guard forgets the units other carts hold.
Sellable_IgnoresReserved(t) == \A s \in Skus : stock[s] >= ShelfQty[t][s]

\* stock_qty - reserved >= qty, for every shelf line of the cart.
Sellable(t) == \A s \in Skus : stock[s] - reserved[s] >= ShelfQty[t][s]

TakeUnits(t) == reserved' = [s \in Skus |-> reserved[s] + ShelfQty[t][s]]

\* reserved >= qty, the guard every decrement carries.
Backed(t) == \A s \in Skus : reserved[s] >= ShelfQty[t][s]

ReturnUnits(t) == reserved' = [s \in Skus |-> reserved[s] - ShelfQty[t][s]]

SetHold(t, status) == hold' = [hold EXCEPT ![t] = status]

\* The whole cart or nothing: no hold rows yet (UNIQUE tx_id, sku) and every
\* line sellable.
CanReserve(t) == hold[t] = "NONE" /\ Sellable(t)

HoldCart(t) ==
  /\ CanReserve(t)
  /\ TakeUnits(t)
  /\ SetHold(t, "ACTIVE")
  /\ due' = [due EXCEPT ![t] = FALSE]
  /\ UNCHANGED <<stock, sold>>

(* reserveCart without a velocity argument: the W1 sweep, and a settle     *)
(* whose deps carry no velocity.                                           *)
ReserveCart(t) == HoldCart(t) /\ UNCHANGED velocity

\* Mutant: the ceiling is compared with the count before this cart.
WithinVelocity_OffByOne == velocity <= VelocityCeiling

(* reserveCart with a velocity argument: the ceiling is re-verified and    *)
(* counted in the transaction that takes the holds.                        *)
WithinVelocity == velocity + 1 <= VelocityCeiling

ReserveCartCounted(t) ==
  /\ HoldCart(t)
  /\ WithinVelocity
  /\ velocity' = velocity + 1

\* Mutant: the grace re-reservation does not check sellability again.
CanReReserve_Unguarded(t) == hold[t] \in {"EXPIRED", "ACTIVE"}

(* reReserveExpiredHolds: flips the cart's rows back to ACTIVE and takes   *)
(* their units again.  Its status filter accepts rows that are ACTIVE.     *)
CanReReserve(t) == hold[t] \in {"EXPIRED", "ACTIVE"} /\ Sellable(t)

ReReserveExpiredHolds(t) ==
  /\ CanReReserve(t)
  /\ TakeUnits(t)
  /\ SetHold(t, "ACTIVE")
  /\ due' = [due EXCEPT ![t] = FALSE]
  /\ UNCHANGED <<stock, sold, velocity>>

\* Mutant: the release does not filter on status = 'ACTIVE'.
CanRelease_AnyStatus(t) == hold[t] # "NONE" /\ Backed(t)

(* releaseHolds: every ACTIVE row of the cart, one transaction; a failing  *)
(* decrement guard raises the tripwire and rolls everything back.          *)
CanRelease(t) == hold[t] = "ACTIVE" /\ Backed(t)

ReleaseHolds(t) ==
  /\ CanRelease(t)
  /\ ReturnUnits(t)
  /\ SetHold(t, "RELEASED")
  /\ UNCHANGED <<stock, sold, due, velocity>>

(* releaseExpiredHolds: one statement over every cart whose rows are past  *)
(* expires_at.  The transaction's state is not consulted.  A sku whose     *)
(* decrement guard fails keeps its counter; the rows expire regardless.    *)
DueHolds == {t \in HeldBy("ACTIVE") : due[t]}

ReleaseExpiredHolds ==
  /\ DueHolds # {}
  /\ hold' = [t \in Txs |-> IF t \in DueHolds THEN "EXPIRED" ELSE hold[t]]
  /\ reserved' = [s \in Skus |->
       IF reserved[s] >= Total(ShelfQty, DueHolds, s)
         THEN reserved[s] - Total(ShelfQty, DueHolds, s)
         ELSE reserved[s]]
  /\ UNCHANGED <<stock, sold, due, velocity>>

\* Mutant: rows already committed are committed again.
CanCommit_Again(t) == hold[t] \in {"ACTIVE", "COMMITTED"} /\ Backed(t)

(* The hold-to-sale move of completeTransaction: every ACTIVE row becomes  *)
(* COMMITTED; fewer units than the cart asked for is a commit_shortfall    *)
(* and rolls back, so all rows are ACTIVE.                                 *)
CanCommit(t) == hold[t] = "ACTIVE" /\ Backed(t)

\* Mutant: backordered units are left out of the sales counter.
CommitHolds_ShelfOnly(t) ==
  /\ CanCommit(t)
  /\ ReturnUnits(t)
  /\ stock' = [s \in Skus |-> stock[s] - ShelfQty[t][s]]
  /\ sold' = [s \in Skus |-> sold[s] + ShelfQty[t][s]]
  /\ SetHold(t, "COMMITTED")
  /\ UNCHANGED <<due, velocity>>

CommitHolds(t) ==
  /\ CanCommit(t)
  /\ ReturnUnits(t)
  /\ stock' = [s \in Skus |-> stock[s] - ShelfQty[t][s]]
  /\ sold' = [s \in Skus |-> sold[s] + Qty[t][s]]
  /\ SetHold(t, "COMMITTED")
  /\ UNCHANGED <<due, velocity>>

(* The clock passes expires_at of the cart's rows.                         *)
HoldLapses(t) ==
  /\ hold[t] = "ACTIVE" /\ ~due[t]
  /\ due' = [due EXCEPT ![t] = TRUE]
  /\ UNCHANGED <<stock, reserved, sold, hold, velocity>>

LedgerNext ==
  \/ ReleaseExpiredHolds
  \/ \E t \in Txs :
       \/ ReserveCart(t)
       \/ ReserveCartCounted(t)
       \/ ReReserveExpiredHolds(t)
       \/ ReleaseHolds(t)
       \/ CommitHolds(t)
       \/ HoldLapses(t)

LedgerSpec == LedgerInit /\ [][LedgerNext]_ledgerVars

----------------------------------------------------------------------------
LedgerTypeOK ==
  /\ stock \in [Skus -> Int]
  /\ reserved \in [Skus -> Int]
  /\ sold \in [Skus -> Nat]
  /\ hold \in [Txs -> HoldStatus]
  /\ due \in [Txs -> BOOLEAN]
  /\ velocity \in Nat

(* Invariant I of docs/design/settlement.md 7.3, the CHECK constraints of  *)
(* inventory: the guards of the five transactions are enough, so no        *)
(* transaction is ever aborted by the CHECK.                               *)
StockWithinBounds ==
  \A s \in Skus : 0 <= reserved[s] /\ reserved[s] <= stock[s]

(* Every unit an ACTIVE hold promises is counted in reserved, so the       *)
(* decrement guards of release, expiry and commit never fail and the       *)
(* invariant_violation_alert tripwires stay silent.                        *)
HoldsAreBacked ==
  \A s \in Skus : Total(ShelfQty, HeldBy("ACTIVE"), s) <= reserved[s]

(* Units leave the shelf only by a committed sale, and each committed cart *)
(* removes exactly its own units once: with StockWithinBounds, the units   *)
(* sold off the shelf never exceed what was there.                         *)
ShelfConserved ==
  \A s \in Skus :
    stock[s] + Total(ShelfQty, HeldBy("COMMITTED"), s) = InitStock[s]

(* inventory.sold counts every committed unit, backordered lines included. *)
SalesCounted ==
  \A s \in Skus : sold[s] = Total(Qty, HeldBy("COMMITTED"), s)

(* Every unit is accounted for on both sides of completion: what left the  *)
(* shelf and what the sales counter shows are the same committed carts,    *)
(* each once, though a cart may be completed by the queued call, by W7, or *)
(* after its hold lapsed and was taken again.                              *)
UnitsAccounted == ShelfConserved /\ SalesCounted

(* Oversell is impossible (settlement.md 7.3): the units sold off the shelf *)
(* and the units promised to waiting buyers fit together in what the shelf *)
(* held at the start.                                                      *)
NoOversell ==
  \A s \in Skus :
    Total(ShelfQty, HeldBy("COMMITTED") \union HeldBy("ACTIVE"), s) <= InitStock[s]

(* A cart is counted against its identity in the transaction that takes    *)
(* its holds: the count stays under the ceiling and never runs ahead of    *)
(* the carts that really were reserved (settlement.md 7, velocity).        *)
VelocityCounted ==
  /\ velocity <= VelocityCeiling
  /\ velocity <= Cardinality(Txs \ HeldBy("NONE"))
=============================================================================
