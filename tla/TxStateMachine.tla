--------------------------- MODULE TxStateMachine ---------------------------
(***************************************************************************)
(* settlement/state-machine.ts: the transition authority table and the     *)
(* compare-and-set every writer of transactions.state goes through.        *)
(***************************************************************************)
VARIABLE txState  \* transactions.state, "ABSENT" before the T1 insert

TxStates ==
  {"PROPOSAL_APPROVED", "STOCK_RESERVED", "ORDER_CREATING", "RZP_ORDER_CREATED",
   "AWAITING_PAYMENT", "PAID", "COMPLETED", "EXPIRED", "FAILED", "RELEASED",
   "REJECTED_BY_MERCHANT", "MANUAL_REFUND_REQUIRED"}

\* TRANSITIONS: the states a row in state s may move to.
Successors(s) ==
  CASE s = "PROPOSAL_APPROVED" ->
         {"STOCK_RESERVED", "RELEASED", "FAILED", "REJECTED_BY_MERCHANT"}
    [] s = "STOCK_RESERVED" ->
         {"ORDER_CREATING", "RZP_ORDER_CREATED", "FAILED", "MANUAL_REFUND_REQUIRED"}
    [] s = "ORDER_CREATING" ->
         {"RZP_ORDER_CREATED", "FAILED", "MANUAL_REFUND_REQUIRED"}
    [] s = "RZP_ORDER_CREATED" ->
         {"AWAITING_PAYMENT", "FAILED", "MANUAL_REFUND_REQUIRED"}
    [] s = "AWAITING_PAYMENT" ->
         {"PAID", "FAILED", "EXPIRED", "MANUAL_REFUND_REQUIRED"}
    [] s = "PAID" -> {"COMPLETED", "MANUAL_REFUND_REQUIRED"}
    [] s = "EXPIRED" -> {"PAID", "MANUAL_REFUND_REQUIRED"}
    [] OTHER -> {}

IsLegalTransition(from, to) == to \in Successors(from)

\* Mutant: the UPDATE has no "AND state = from".
Advances_Unguarded(t, from, to) == IsLegalTransition(from, to)

(* casTransition: an illegal pair is refused; a legal one moves the row    *)
(* only if it still is in the state the caller saw.                        *)
Advances(t, from, to) == IsLegalTransition(from, to) /\ txState[t] = from

CasTransition(t, from, to) ==
  txState' = IF Advances(t, from, to)
               THEN [txState EXCEPT ![t] = to]
               ELSE txState
=============================================================================
