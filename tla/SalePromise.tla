---------------------------- MODULE SalePromise ----------------------------
(***************************************************************************)
(* What settlement promises a merchant, with no worker, webhook or sweep   *)
(* in sight: money is taken for a cart, a cart whose money was taken is    *)
(* sold once, and a sale takes its units off a shelf that has them.        *)
(* Settlement implements this specification (run promise).                 *)
(***************************************************************************)
EXTENDS Integers

CONSTANTS
  Carts,
  Goods,
  Wants,  \* Wants[c][g]: units of g cart c takes off the shelf
  Shelf0  \* units on the shelf at the start

VARIABLES
  shelf,  \* units still on the shelf
  taken,  \* carts whose money the provider took
  bought  \* carts sold

promiseVars == <<shelf, taken, bought>>

PromiseInit == shelf = Shelf0 /\ taken = {} /\ bought = {}

TakeMoney(c) ==
  /\ taken' = taken \union {c}
  /\ UNCHANGED <<shelf, bought>>

Sell(c) ==
  /\ c \in taken \ bought
  /\ \A g \in Goods : shelf[g] >= Wants[c][g]
  /\ shelf' = [g \in Goods |-> shelf[g] - Wants[c][g]]
  /\ bought' = bought \union {c}
  /\ UNCHANGED taken

PromiseNext == \E c \in Carts : TakeMoney(c) \/ Sell(c)

PromiseSpec == PromiseInit /\ [][PromiseNext]_promiseVars
=============================================================================
