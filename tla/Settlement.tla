----------------------------- MODULE Settlement -----------------------------
(***************************************************************************)
(* The settlement module: settle() workers, order creation, the webhook    *)
(* handler, the completion worker and the reconciliation sweeper, running  *)
(* concurrently over one database and one payment provider.                *)
(*                                                                         *)
(* One action is one database statement or transaction, or one provider    *)
(* call; what a process read before it is kept in the process' own         *)
(* variables.  The model has no clock: a hold may lapse at any moment, and *)
(* the age thresholds of the sweeper (30 to 120 s) and the grace window    *)
(* are free choices, so every timing of the code is a behaviour here.      *)
(***************************************************************************)
EXTENDS Sequences, StockLedger, TxStateMachine

CONSTANTS
  Sweeper,        \* the sweep loop of server.ts, one process
  Nobody,         \* the sweep is working on no row
  EventKinds,     \* webhook kinds the provider may send, a subset of AllKinds
  ProviderKind,   \* "mock" or "razorpay"
  VelocityWired,  \* settleDeps.velocity is present
  HoldsLapse,     \* the payment window may run out
  SlowRequests,   \* a live request may outlast the age thresholds of the sweep
  BuyerPolls,     \* the buyer may pay an order it saw through GET /v1/tx
  MaxFaults       \* bound on crashes and database or provider errors

\* captured and order_paid report the same payment; mismatch is a capture
\* whose amount, currency, receipt or provider is not that of the frozen cart.
CaptureKinds == {"captured", "order_paid"}
AllKinds == CaptureKinds \union {"mismatch", "failed"}

ASSUME SettlementAssumption ==
  /\ EventKinds \subseteq AllKinds
  /\ ProviderKind \in {"mock", "razorpay"}
  /\ VelocityWired \in BOOLEAN
  /\ {HoldsLapse, SlowRequests, BuyerPolls} \subseteq BOOLEAN
  /\ MaxFaults \in Nat

Events == Txs \X EventKinds
Handlers == Events \union {Sweeper}   \* who may run dispatchParsed
Procs == Txs \union Handlers          \* t itself is its settle() worker

ASSUME ProcAssumption ==
  /\ Sweeper \notin Txs \union Events
  /\ Nobody \notin Txs \union Events
  /\ Txs \intersect Events = {}

VARIABLES
  order,      \* razorpay_orders.status of t, "NONE" before the insert
  handle,     \* razorpay_orders.rzp_order_id is not null
  provOrder,  \* the provider holds an order with the receipt of t
  told,       \* the buyer can know the order id (settle reply or GET /v1/tx)
  event,      \* processed_webhook_events.status; "absent", "sent" before
  pc,         \* where each process is
  seen,       \* transactions.state a webhook handler read before acting
  stage,      \* ladder stage of the sweep
  todo,       \* rows the SELECT of that stage returned, not yet handled
  cur,        \* the row the sweep is handling
  completing, \* completeTransaction calls queued in memory
  faults      \* faults so far

orderVars == <<order, handle, provOrder, told>>
dbVars == <<ledgerVars, txState, orderVars, event>>
sweepVars == <<stage, todo, cur>>
vars == <<dbVars, pc, seen, sweepVars, completing, faults>>

ReservePCs == {"reserve", "casReserved", "casReleased"}
OrderPCs == {"claim", "intent", "create", "record", "t4b", "t6", "ambiguous"}
T5PCs == {"t5release", "t5fail"}
HandlerPCs == {"read", "casMismatch", "casPaid", "late", "casGrace", "casRefund",
               "casFailed", "release", "mark"}
PCs == {"idle"} \union ReservePCs \union OrderPCs \union T5PCs \union HandlerPCs

Init ==
  /\ LedgerInit
  /\ txState = [t \in Txs |-> "ABSENT"]
  /\ order = [t \in Txs |-> "NONE"]
  /\ handle = [t \in Txs |-> FALSE]
  /\ provOrder = [t \in Txs |-> FALSE]
  /\ told = {}
  /\ event = [e \in Events |-> "absent"]
  /\ pc = [p \in Procs |-> "idle"]
  /\ seen = [p \in Handlers |-> "ABSENT"]
  /\ stage = "begin"
  /\ todo = {}
  /\ cur = Nobody
  /\ completing = {}
  /\ faults = 0

----------------------------------------------------------------------------
(* Processes.                                                              *)

At(p, label) == pc[p] = label

Goto(p, label) == pc' = [pc EXCEPT ![p] = label] /\ UNCHANGED sweepVars

\* The request is answered; the sweep goes on with its next row.
Return(p) ==
  /\ pc' = [pc EXCEPT ![p] = "idle"]
  /\ cur' = IF p = Sweeper THEN Nobody ELSE cur
  /\ UNCHANGED <<stage, todo>>

NewTick == stage' = "begin" /\ todo' = {} /\ cur' = Nobody

\* An exception nothing catches: the request is answered with an error, the
\* sweep abandons the rest of the tick.
Throw(p) ==
  /\ pc' = [pc EXCEPT ![p] = "idle"]
  /\ IF p = Sweeper THEN NewTick ELSE UNCHANGED sweepVars

\* The event a handler works on, and the transaction any process works on.
EventOf(p) == IF p = Sweeper THEN cur ELSE p
TxOf(p) == IF EventOf(p) \in Txs THEN EventOf(p) ELSE EventOf(p)[1]

FaultHappens == faults < MaxFaults /\ faults' = faults + 1

\* A compare-and-set on transactions.state and nothing else.
CasOnly(t, from, to) ==
  /\ CasTransition(t, from, to)
  /\ UNCHANGED <<ledgerVars, orderVars, event, seen, completing, faults>>

----------------------------------------------------------------------------
(* settle(): T1 insert, T2/T3 reserve.  The W1 sweep joins at the          *)
(* compare-and-set steps.                                                  *)

\* Mutant: the row starts in a state the authority table does not have.
SettleInsert_Pending(t) ==
  /\ At(t, "idle") /\ txState[t] = "ABSENT"
  /\ txState' = [txState EXCEPT ![t] = "PENDING"]
  /\ Goto(t, "reserve")
  /\ UNCHANGED <<ledgerVars, orderVars, event, seen, completing, faults>>

SettleInsert(t) ==
  /\ At(t, "idle") /\ txState[t] = "ABSENT"
  /\ txState' = [txState EXCEPT ![t] = "PROPOSAL_APPROVED"]
  /\ Goto(t, "reserve")
  /\ UNCHANGED <<ledgerVars, orderVars, event, seen, completing, faults>>

\* reserveCart for a settle worker: with the velocity ledger when it is wired.
SettleReserves(t) ==
  IF VelocityWired THEN ReserveCartCounted(t) ELSE ReserveCart(t)

SettleCanReserve(t) == CanReserve(t) /\ (VelocityWired => WithinVelocity)

SettleReserve(t) ==
  /\ At(t, "reserve")
  /\ \/ SettleCanReserve(t) /\ SettleReserves(t) /\ Goto(t, "casReserved")
     \* InsufficientStockError, VelocityLimitExceededError
     \/ /\ ~Sellable(t) \/ (hold[t] = "NONE" /\ ~SettleCanReserve(t))
        /\ Goto(t, "casReleased") /\ UNCHANGED ledgerVars
     \* UNIQUE (tx_id, sku): the W1 sweep reserved first
     \/ hold[t] # "NONE" /\ Throw(t) /\ UNCHANGED ledgerVars
  /\ UNCHANGED <<txState, orderVars, event, seen, completing, faults>>

\* T2.  A settle whose row moved meanwhile gives up (TX_STATE_RACE).
CasReserved(p) ==
  LET t == TxOf(p) IN
  /\ At(p, "casReserved")
  /\ CasOnly(t, "PROPOSAL_APPROVED", "STOCK_RESERVED")
  /\ IF p # Sweeper /\ Advances(t, "PROPOSAL_APPROVED", "STOCK_RESERVED")
       THEN Goto(p, "claim")
       ELSE Return(p)

\* T3.
CasReleased(p) ==
  /\ At(p, "casReleased")
  /\ CasOnly(TxOf(p), "PROPOSAL_APPROVED", "RELEASED")
  /\ Return(p)

----------------------------------------------------------------------------
(* ensureOrder, run by a settle worker and by the W2 and W3 sweeps.        *)

\* Where a failed ensureOrder leaves its caller: settle runs the T5 release,
\* W3 catches and goes on, W2 has no try/catch.
OrderFails(p) ==
  IF p \in Txs THEN Goto(p, "t5release")
  ELSE IF stage = "w3" THEN Return(p) ELSE Throw(p)

\* Mutant: the result of the claim is ignored.
Claim_ResultIgnored(p) ==
  /\ At(p, "claim")
  /\ CasOnly(TxOf(p), "STOCK_RESERVED", "ORDER_CREATING")
  /\ Goto(p, "intent")

\* T4a: sole creator elected; a loser returns without touching the network.
Claim(p) ==
  LET t == TxOf(p) IN
  /\ At(p, "claim")
  /\ CasOnly(t, "STOCK_RESERVED", "ORDER_CREATING")
  /\ IF Advances(t, "STOCK_RESERVED", "ORDER_CREATING")
       THEN Goto(p, "intent") ELSE Return(p)

\* Mutant: a handle recorded earlier is not reused.
WriteIntent_NoReuse(p) ==
  LET t == TxOf(p) IN
  /\ At(p, "intent")
  /\ order' = [order EXCEPT ![t] = IF @ = "NONE" THEN "INTENT" ELSE @]
  /\ IF order[t] = "AMBIGUOUS" THEN OrderFails(p) ELSE Goto(p, "create")
  /\ UNCHANGED <<ledgerVars, txState, handle, provOrder, told, event, seen,
                 completing, faults>>

\* INSERT ... ON CONFLICT DO NOTHING, then what the existing row says.
WriteIntent(p) ==
  LET t == TxOf(p) IN
  /\ At(p, "intent")
  /\ order' = [order EXCEPT ![t] = IF @ = "NONE" THEN "INTENT" ELSE @]
  /\ IF handle[t] THEN Goto(p, "t4b")
     ELSE IF order[t] = "AMBIGUOUS" THEN OrderFails(p)
     ELSE Goto(p, "create")
  /\ UNCHANGED <<ledgerVars, txState, handle, provOrder, told, event, seen,
                 completing, faults>>

\* provider.createOrder answers.  The mock is idempotent by receipt; Razorpay
\* refuses a receipt it already has (DuplicateReceiptError).
CreateOrder(p) ==
  LET t == TxOf(p) IN
  /\ At(p, "create")
  /\ Goto(p, IF provOrder[t] /\ ProviderKind = "razorpay" THEN "ambiguous" ELSE "record")
  /\ provOrder' = [provOrder EXCEPT ![t] = TRUE]
  /\ UNCHANGED <<ledgerVars, txState, order, handle, told, event, seen,
                 completing, faults>>

\* createOrder throws, and the order may exist at the provider all the same.
\* Unavailable (timeout, network, 5xx): settle answers 503 and keeps the holds.
\* Rejected (another 4xx, or a reply that fails its schema): T5.
CreateOrderFails(p) ==
  LET t == TxOf(p) IN
  /\ At(p, "create") /\ FaultHappens
  /\ provOrder' \in {provOrder, [provOrder EXCEPT ![t] = TRUE]}
  /\ OrderFails(p) \/ (p \in Txs /\ Throw(p))
  /\ UNCHANGED <<ledgerVars, txState, order, handle, told, event, seen, completing>>

\* UPDATE ... SET rzp_order_id, status = 'CREATED' WHERE status = 'INTENT'.
\* From here GET /v1/tx shows the id.
RecordOrder(p) ==
  LET t == TxOf(p) IN
  /\ At(p, "record")
  /\ IF order[t] = "INTENT"
       THEN /\ order' = [order EXCEPT ![t] = "CREATED"]
            /\ handle' = [handle EXCEPT ![t] = TRUE]
            /\ told' = IF BuyerPolls THEN told \union {t} ELSE told
       ELSE UNCHANGED <<order, handle, told>>
  /\ Goto(p, "t4b")
  /\ UNCHANGED <<ledgerVars, txState, provOrder, event, seen, completing, faults>>

\* T4b, its result ignored.
AdvanceCreated(p) ==
  /\ At(p, "t4b")
  /\ CasOnly(TxOf(p), "ORDER_CREATING", "RZP_ORDER_CREATED")
  /\ Goto(p, "t6")

\* T6, its result ignored; settle returns the order id to the buyer.
AdvanceAwaiting(p) ==
  LET t == TxOf(p) IN
  /\ At(p, "t6")
  /\ CasTransition(t, "RZP_ORDER_CREATED", "AWAITING_PAYMENT")
  /\ told' = IF p \in Txs THEN told \union {t} ELSE told
  /\ Return(p)
  /\ UNCHANGED <<ledgerVars, order, handle, provOrder, event, seen, completing, faults>>

\* The row is flagged whatever its status is by now.
MarkAmbiguous(p) ==
  /\ At(p, "ambiguous")
  /\ order' = [order EXCEPT ![TxOf(p)] = "AMBIGUOUS"]
  /\ OrderFails(p)
  /\ UNCHANGED <<ledgerVars, txState, handle, provOrder, told, event, seen,
                 completing, faults>>

\* releaseHolds, then label; the tripwire throws.
ReleaseThen(p, t, label) ==
  IF hold[t] = "ACTIVE" /\ ~Backed(t)
    THEN Throw(p) /\ UNCHANGED ledgerVars
    ELSE /\ Goto(p, label)
         /\ IF CanRelease(t) THEN ReleaseHolds(t) ELSE UNCHANGED ledgerVars

\* T5, settle only: the holds go first, then the compare-and-set.
T5Release(t) ==
  /\ At(t, "t5release")
  /\ ReleaseThen(t, t, "t5fail")
  /\ UNCHANGED <<txState, orderVars, event, seen, completing, faults>>

T5Fail(t) ==
  /\ At(t, "t5fail")
  /\ CasOnly(t, "ORDER_CREATING", "FAILED")
  /\ Return(t)

----------------------------------------------------------------------------
(* The provider and the buyer (external).  An order can be paid once its   *)
(* id is known; a failed attempt may be followed by a successful one.      *)

Sent(t, kinds) == \E k \in kinds \intersect EventKinds : event[<<t, k>>] # "absent"

Send(t, kinds) ==
  /\ kinds \intersect EventKinds # {}
  /\ t \in told /\ provOrder[t]
  /\ ~Sent(t, kinds \union CaptureKinds \union {"mismatch"})
  /\ event' = [e \in Events |-> IF e[1] = t /\ e[2] \in kinds THEN "sent" ELSE event[e]]
  /\ UNCHANGED <<ledgerVars, txState, orderVars, pc, seen, sweepVars, completing, faults>>

BuyerPays(t) == Send(t, CaptureKinds)
BuyerPaysMismatch(t) == Send(t, {"mismatch"})
PaymentFails(t) == Send(t, {"failed"})

----------------------------------------------------------------------------
(* webhookHandler and dispatchParsed.  The sweep redrives (W6) the same    *)
(* steps with p = Sweeper, possibly while the first handler still runs.    *)

\* Mutant: single-phase dedupe, the event is final once claimed.
Deliver_OnePhase(e) ==
  /\ event[e] = "sent"
  /\ event' = [event EXCEPT ![e] = "PROCESSED"]
  /\ Goto(e, "read")
  /\ UNCHANGED <<ledgerVars, txState, orderVars, seen, completing, faults>>

\* Insert-first dedupe: the first authenticated, fresh delivery claims the
\* event id; later deliveries find the row and change nothing.
Deliver(e) ==
  /\ event[e] = "sent"
  /\ event' = [event EXCEPT ![e] = "RECEIVED"]
  /\ Goto(e, "read")
  /\ UNCHANGED <<ledgerVars, txState, orderVars, seen, completing, faults>>

\* Mutant: the amount, receipt and provider are not compared.
Branch_NoTripleMatch(k, s) ==
  CASE k # "failed" /\ s = "AWAITING_PAYMENT" -> "casPaid"
    [] k # "failed" /\ s = "EXPIRED" -> "late"
    [] k = "failed" /\ s = "AWAITING_PAYMENT" -> "casFailed"
    [] OTHER -> "mark"

\* Which branch a handler takes for kind k and the state s it read.
Branch(k, s) ==
  CASE k \in CaptureKinds /\ s = "AWAITING_PAYMENT" -> "casPaid"
    [] k \in CaptureKinds /\ s = "EXPIRED" -> "late"
    [] k = "mismatch" /\ IsLegalTransition(s, "MANUAL_REFUND_REQUIRED") -> "casMismatch"
    [] k = "failed" /\ s = "AWAITING_PAYMENT" -> "casFailed"
    [] OTHER -> "mark"

\* The SELECT by order id; no row is webhook.unknown_order.
HandlerRead(p) ==
  LET t == TxOf(p)
      k == EventOf(p)[2]
  IN
  /\ At(p, "read")
  /\ Goto(p, IF handle[t] THEN Branch(k, txState[t]) ELSE "mark")
  /\ seen' = [seen EXCEPT ![p] = IF k = "mismatch" THEN txState[t] ELSE "ABSENT"]
  /\ UNCHANGED <<dbVars, completing, faults>>

\* lateCapturePolicy: within grace the holds are re-reserved, or the stock
\* race is lost; beyond grace nothing is tried.
LateCapture(p) ==
  LET t == TxOf(p) IN
  /\ At(p, "late")
  /\ \/ CanReReserve(t) /\ ReReserveExpiredHolds(t) /\ Goto(p, "casGrace")
     \/ Goto(p, "casRefund") /\ UNCHANGED ledgerVars
  /\ UNCHANGED <<txState, orderVars, event, seen, completing, faults>>

\* The compare-and-set of each branch, from the state the handler read.
CasPairs(p) ==
  [casMismatch |-> <<seen[p], "MANUAL_REFUND_REQUIRED">>,
   casPaid     |-> <<"AWAITING_PAYMENT", "PAID">>,
   casGrace    |-> <<"EXPIRED", "PAID">>,
   casRefund   |-> <<"EXPIRED", "MANUAL_REFUND_REQUIRED">>,
   casFailed   |-> <<"AWAITING_PAYMENT", "FAILED">>]

\* A lost race is ignored; a won one queues completion (T7, T10) or releases
\* the holds (T8).
HandlerCas(p) ==
  LET t == TxOf(p)
      pair == CasPairs(p)[pc[p]]
      won == Advances(t, pair[1], pair[2])
  IN
  /\ pc[p] \in DOMAIN CasPairs(p)
  /\ CasTransition(t, pair[1], pair[2])
  /\ completing' = IF won /\ pair[2] = "PAID" THEN completing \union {t} ELSE completing
  /\ Goto(p, IF won /\ pair[2] = "FAILED" THEN "release" ELSE "mark")
  /\ seen' = [seen EXCEPT ![p] = "ABSENT"]
  /\ UNCHANGED <<ledgerVars, orderVars, event, faults>>

HandlerRelease(p) ==
  /\ At(p, "release")
  /\ ReleaseThen(p, TxOf(p), "mark")
  /\ UNCHANGED <<txState, orderVars, event, seen, completing, faults>>

MarkProcessed(p) ==
  /\ At(p, "mark")
  /\ event' = [event EXCEPT ![EventOf(p)] = "PROCESSED"]
  /\ Return(p)
  /\ UNCHANGED <<ledgerVars, txState, orderVars, seen, completing, faults>>

----------------------------------------------------------------------------
(* completeTransaction: the state compare-and-set, the hold-to-sale move   *)
(* and the completed_sales row in one transaction; it rolls back as a      *)
(* whole when the row is not PAID or the holds fall short.                 *)

CanComplete(t) == txState[t] = "PAID" /\ CanCommit(t)

\* Mutant: no commit_shortfall, the sale is recorded without its units.
CompleteTransaction_NoShortfall(t) ==
  /\ txState' = IF txState[t] = "PAID" THEN [txState EXCEPT ![t] = "COMPLETED"] ELSE txState
  /\ IF CanComplete(t) THEN CommitHolds(t) ELSE UNCHANGED ledgerVars
  /\ UNCHANGED <<orderVars, event, pc, seen, faults>>

CompleteTransaction(t) ==
  /\ IF CanComplete(t)
       THEN CommitHolds(t) /\ txState' = [txState EXCEPT ![t] = "COMPLETED"]
       ELSE UNCHANGED <<ledgerVars, txState>>
  /\ UNCHANGED <<orderVars, event, pc, seen, faults>>

\* The call queueCompletion fired.
QueuedCompletion(t) ==
  /\ t \in completing
  /\ completing' = completing \ {t}
  /\ CompleteTransaction(t)
  /\ UNCHANGED sweepVars

----------------------------------------------------------------------------
(* The sweep loop: sweepExpiredReservations, then the ladder of runSweep.  *)

\* Pass 1: the rows that wait for payment on a lapsed hold.
LapsedTxs == {t \in DueHolds : txState[t] = "AWAITING_PAYMENT"}

SweepExpireTxs ==
  /\ stage = "begin"
  /\ txState' = [t \in Txs |-> IF t \in LapsedTxs THEN "EXPIRED" ELSE txState[t]]
  /\ stage' = "pass2"
  /\ UNCHANGED <<ledgerVars, orderVars, event, pc, seen, todo, cur, completing, faults>>

\* Mutant: the flip commits, the counters are left to a later statement.
SweepReleaseExpired_FlipOnly ==
  /\ stage = "pass2" \/ (stage = "swept" /\ DueHolds # {})
  /\ hold' = [t \in Txs |-> IF t \in DueHolds THEN "EXPIRED" ELSE hold[t]]
  /\ stage' = "swept"
  /\ UNCHANGED <<stock, reserved, sold, due, velocity>>
  /\ UNCHANGED <<txState, orderVars, event, pc, seen, todo, cur, completing, faults>>

\* Mutant: pass 2 keys off the transaction's state, not the rows alone.
SweepReleaseExpired_ByState ==
  /\ stage = "pass2" \/ (stage = "swept" /\ DueHolds # {})
  /\ IF DueHolds \intersect {t \in Txs : txState[t] = "EXPIRED"} = {}
       THEN UNCHANGED ledgerVars ELSE ReleaseExpiredHolds
  /\ stage' = "swept"
  /\ UNCHANGED <<txState, orderVars, event, pc, seen, todo, cur, completing, faults>>

\* Pass 2; the same statement runs again at the head of runSweep (W8).
SweepReleaseExpired ==
  /\ stage = "pass2" \/ (stage = "swept" /\ DueHolds # {})
  /\ IF DueHolds = {} THEN UNCHANGED ledgerVars ELSE ReleaseExpiredHolds
  /\ stage' = "swept"
  /\ UNCHANGED <<txState, orderVars, event, pc, seen, todo, cur, completing, faults>>

\* What the SELECT of each rung may return.
Rungs == <<"w1", "w2", "w3", "w6", "w7">>
RungSet == {Rungs[i] : i \in DOMAIN Rungs}
InState(states) == {t \in Txs : txState[t] \in states}
\* Mutant: the ladder lacks the W1 and W2 rungs.
Rows_NoResume(rung) ==
  CASE rung \in {"w1", "w2"} -> {}
    [] rung = "w3" -> {t \in InState({"ORDER_CREATING", "RZP_ORDER_CREATED"}) :
                         order[t] \in {"INTENT", "CREATED"}}
    [] rung = "w6" -> {e \in Events : event[e] = "RECEIVED"}
    [] rung = "w7" -> InState({"PAID"})

\* Mutant: the ladder lacks the W6 and W7 rungs.
Rows_NoRedrive(rung) ==
  CASE rung = "w1" -> InState({"PROPOSAL_APPROVED"})
    [] rung = "w2" -> InState({"STOCK_RESERVED"})
    [] rung = "w3" -> {t \in InState({"ORDER_CREATING", "RZP_ORDER_CREATED"}) :
                         order[t] \in {"INTENT", "CREATED"}}
    [] rung \in {"w6", "w7"} -> {}

Rows(rung) ==
  CASE rung = "w1" -> InState({"PROPOSAL_APPROVED"})
    [] rung = "w2" -> InState({"STOCK_RESERVED"})
    [] rung = "w3" -> {t \in InState({"ORDER_CREATING", "RZP_ORDER_CREATED"}) :
                         order[t] \in {"INTENT", "CREATED"}}
    [] rung = "w6" -> {e \in Events : event[e] = "RECEIVED"}
    [] rung = "w7" -> InState({"PAID"})

Later(rung) ==
  IF stage = "swept" THEN TRUE
  ELSE \E i, j \in DOMAIN Rungs : i < j /\ Rungs[i] = stage /\ Rungs[j] = rung

\* The updated_at, created_at and received_at thresholds.  Whether they have
\* passed is a free choice, but a row still in the hands of a request is that
\* old only if requests can be so slow.
MayBeOld(row) == SlowRequests \/ (At(row, "idle") /\ row \notin completing)

\* A later rung returns rows that are old enough; the rungs between had none.
SweepSelect(rung) ==
  /\ At(Sweeper, "idle") /\ todo = {}
  /\ stage \in {"swept"} \union RungSet /\ Later(rung)
  /\ stage' = rung
  /\ todo' \in (SUBSET {row \in Rows(rung) : MayBeOld(row)}) \ {{}}
  /\ UNCHANGED <<dbVars, pc, seen, cur, completing, faults>>

SweepEnd ==
  /\ At(Sweeper, "idle") /\ todo = {} /\ stage \notin {"begin", "pass2"}
  /\ stage' = "begin"
  /\ UNCHANGED <<dbVars, pc, seen, todo, cur, completing, faults>>

\* The sweep takes the next row of the rung and goes to label.
Take(rung, row, label) ==
  /\ stage = rung /\ At(Sweeper, "idle") /\ row \in todo
  /\ pc' = [pc EXCEPT ![Sweeper] = label]
  /\ cur' = row /\ todo' = todo \ {row}
  /\ UNCHANGED stage

\* Mutant: W1 goes on to T2 whatever reserveCart answered.
SweepReserve_ErrorSwallowed(t) ==
  /\ \/ /\ CanReserve(t) /\ ReserveCart(t) /\ Take("w1", t, "casReserved")
        /\ UNCHANGED faults
     \/ /\ Take("w1", t, "casReserved") /\ UNCHANGED ledgerVars
        /\ IF CanReserve(t) THEN FaultHappens ELSE UNCHANGED faults
  /\ UNCHANGED <<txState, orderVars, event, seen, completing>>

\* W1: reserveCart without velocity; any refusal or error goes to T3.
SweepReserve(t) ==
  /\ \/ /\ CanReserve(t) /\ ReserveCart(t) /\ Take("w1", t, "casReserved")
        /\ UNCHANGED faults
     \/ /\ Take("w1", t, "casReleased") /\ UNCHANGED ledgerVars
        /\ IF CanReserve(t) THEN FaultHappens ELSE UNCHANGED faults
  /\ UNCHANGED <<txState, orderVars, event, seen, completing>>

\* W2 contends for the claim; W3 retries without it.
SweepOrder(t) ==
  /\ Take("w2", t, "claim") \/ Take("w3", t, "intent")
  /\ UNCHANGED <<dbVars, seen, completing, faults>>

\* W6.
SweepRedrive(e) ==
  /\ Take("w6", e, "read")
  /\ UNCHANGED <<dbVars, seen, completing, faults>>

\* W7.
SweepComplete(t) ==
  /\ stage = "w7" /\ t \in todo
  /\ todo' = todo \ {t}
  /\ CompleteTransaction(t)
  /\ UNCHANGED <<stage, cur, completing>>

----------------------------------------------------------------------------
(* Faults.                                                                 *)

\* A database statement of process p throws.  ensureOrder's errors reach T5 in
\* settle; the try block of W1 covers its T2 compare-and-set; a webhook handler
\* leaves the event RECEIVED, and the sweep's redrive likewise.
StatementFails(p) ==
  /\ FaultHappens
  /\ \/ pc[p] \in OrderPCs \ {"create"} /\ OrderFails(p)
     \/ p = Sweeper /\ At(p, "casReserved") /\ Goto(p, "casReleased")
     \/ p = Sweeper /\ At(p, "casReleased") /\ Throw(p)
     \/ p \in Txs /\ pc[p] \in ReservePCs \union T5PCs /\ Throw(p)
     \/ pc[p] \in HandlerPCs /\ Return(p)
  /\ seen' = IF p \in Handlers THEN [seen EXCEPT ![p] = "ABSENT"] ELSE seen
  /\ UNCHANGED <<dbVars, completing>>

\* The process dies and restarts: everything in memory is lost.
Crash ==
  /\ FaultHappens
  /\ pc' = [p \in Procs |-> "idle"]
  /\ seen' = [p \in Handlers |-> "ABSENT"]
  /\ NewTick
  /\ completing' = {}
  /\ UNCHANGED dbVars

\* The request that took the hold is still running: the payment window, 15
\* minutes, outlasts it unless requests can be so slow.
JustHeld(t) ==
  \/ ~At(t, "idle")
  \/ \E p \in Handlers : pc[p] \in {"casReserved", "casGrace"} /\ TxOf(p) = t

HoldLapse(t) ==
  /\ HoldsLapse /\ (SlowRequests \/ ~JustHeld(t))
  /\ HoldLapses(t)
  /\ UNCHANGED <<txState, orderVars, event, pc, seen, sweepVars, completing, faults>>

----------------------------------------------------------------------------
SettleStep(t) ==
  \/ SettleInsert(t) \/ SettleReserve(t) \/ T5Release(t) \/ T5Fail(t)

ReserveStep(p) == CasReserved(p) \/ CasReleased(p)

OrderStep(p) ==
  \/ Claim(p) \/ WriteIntent(p) \/ CreateOrder(p) \/ RecordOrder(p)
  \/ AdvanceCreated(p) \/ AdvanceAwaiting(p) \/ MarkAmbiguous(p)

HandlerStep(p) ==
  \/ HandlerRead(p) \/ LateCapture(p) \/ HandlerCas(p)
  \/ HandlerRelease(p) \/ MarkProcessed(p)

SweepStep ==
  \/ SweepExpireTxs \/ SweepReleaseExpired \/ SweepEnd
  \/ \E rung \in RungSet : SweepSelect(rung)
  \/ \E t \in Txs : SweepReserve(t) \/ SweepOrder(t) \/ SweepComplete(t)
  \/ \E e \in Events : SweepRedrive(e)
  \/ ReserveStep(Sweeper) \/ OrderStep(Sweeper) \/ HandlerStep(Sweeper)

EnvStep ==
  \/ Crash
  \/ \E t \in Txs : BuyerPays(t) \/ BuyerPaysMismatch(t) \/ PaymentFails(t) \/ HoldLapse(t)
  \/ \E e \in Events : Deliver(e)
  \/ \E p \in Procs : CreateOrderFails(p) \/ StatementFails(p)

Next ==
  \/ \E t \in Txs : SettleStep(t) \/ ReserveStep(t) \/ OrderStep(t) \/ QueuedCompletion(t)
  \/ \E e \in Events : HandlerStep(e)
  \/ SweepStep
  \/ EnvStep

Spec == Init /\ [][Next]_vars

\* Requests in memory run on until they end or crash; the sweep loop ticks for
\* ever and a row's age passes every threshold, so a row that is a candidate
\* in tick after tick is selected.  Nothing makes a buyer settle or pay, a
\* provider deliver, or a fault happen.
Fairness ==
  /\ \A t \in Txs :
       /\ WF_vars(SettleStep(t) /\ ~At(t, "idle"))
       /\ WF_vars(ReserveStep(t))
       /\ WF_vars(OrderStep(t))
       /\ WF_vars(QueuedCompletion(t))
       /\ WF_vars(HoldLapse(t))
       /\ \A rung \in RungSet \ {"w6"} : SF_vars(SweepSelect(rung) /\ t \in todo')
  /\ \A e \in Events :
       /\ WF_vars(HandlerStep(e))
       /\ SF_vars(SweepSelect("w6") /\ e \in todo')
  /\ WF_vars(SweepStep)

FairSpec == Spec /\ Fairness

----------------------------------------------------------------------------
(* Money moves a transaction only if it was really taken: PAID and         *)
(* COMPLETED have a matching capture behind them, whichever handler, redrive *)
(* or resurrection wrote the state.                                        *)
PaidWasCaptured ==
  \A t \in InState({"PAID", "COMPLETED"}) : Sent(t, CaptureKinds)

(* The sale is recorded exactly when the stock leaves: no COMPLETED row    *)
(* without its units committed, no committed units under another state.    *)
SaleMatchesState ==
  \A t \in Txs : hold[t] = "COMMITTED" <=> txState[t] = "COMPLETED"

(* From STOCK_RESERVED on, the cart has had its whole reservation; no      *)
(* buyer is asked to pay for a cart that was never held.                   *)
OrderedWasReserved ==
  \A t \in Txs : txState[t] \in TxStates \ {"PROPOSAL_APPROVED", "RELEASED"}
                   => hold[t] # "NONE"

(* T4a elects one creator: a settle worker and the W2 sweep are never both *)
(* past the claim of one transaction.  W3 skips the claim and is not       *)
(* bounded by it.                                                          *)
ClaimExclusive ==
  \A t \in Txs : ~ /\ pc[t] \in OrderPCs \ {"claim"}
                   /\ stage = "w2" /\ cur = t
                   /\ pc[Sweeper] \in OrderPCs \ {"claim"}

(* An order flagged AMBIGUOUS was never shown to a buyer                   *)
(* (ensure-order.ts:112), so nobody can pay an order the webhook handler   *)
(* would not recognise.                                                    *)
AmbiguousUnpayable ==
  \A t \in Txs : order[t] = "AMBIGUOUS" => t \notin told

(* Every write of transactions.state, casTransition or raw SQL, follows    *)
(* the authority table.                                                    *)
LegalMoves ==
  [][\A t \in Txs : \/ txState'[t] = txState[t]
                    \/ IsLegalTransition(txState[t], txState'[t])
                    \/ txState[t] = "ABSENT" /\ txState'[t] = "PROPOSAL_APPROVED"]_vars

\* Every report of the payment of t has been handled.
CaptureHandled(t) ==
  /\ CaptureKinds \intersect EventKinds # {}
  /\ \A k \in CaptureKinds \intersect EventKinds : event[<<t, k>>] = "PROCESSED"

(* A capture that was handled left its mark: the transaction is paid, sold *)
(* or queued for refund (settlement.md:844, captured money is never        *)
(* silently dropped).                                                      *)
CaptureRecorded ==
  \A t \in Txs : CaptureHandled(t) =>
    txState[t] \in {"PAID", "COMPLETED", "MANUAL_REFUND_REQUIRED"}

(* A capture that finds its transaction expired goes down the grace        *)
(* ladder; a lost compare-and-set means another handler recorded it        *)
(* (webhook-handler.ts:245).                                               *)
LateCaptureHandled == \A t \in InState({"EXPIRED"}) : ~CaptureHandled(t)

(* After a failed attempt the transaction remains recoverable by a later   *)
(* capture (settlement.md:845).                                            *)
FailedStaysRecoverable == \A t \in InState({"FAILED"}) : ~CaptureHandled(t)

(* reserved counts the ACTIVE holds and nothing else.                      *)
ReservedIsExact ==
  \A s \in Skus : reserved[s] = Total(ShelfQty, HeldBy("ACTIVE"), s)

(* A transaction given up for lack of stock holds none.                    *)
ReleasedHoldsNothing ==
  \A t \in InState({"RELEASED"}) : hold[t] # "ACTIVE"

(* A failed completion leaves the holds ACTIVE (completion.ts:4).          *)
PaidKeepsHolds ==
  \A t \in InState({"PAID"}) : hold[t] = "ACTIVE"

----------------------------------------------------------------------------
(* Settlement keeps the promise of SalePromise: the money is a capture at  *)
(* the provider, the sale is COMPLETED.                                    *)
Promise == INSTANCE SalePromise WITH
  Carts <- Txs, Goods <- Skus, Wants <- ShelfQty, Shelf0 <- InitStock,
  shelf <- stock,
  taken <- {t \in Txs : Sent(t, CaptureKinds)},
  bought <- InState({"COMPLETED"})

PromiseKept == Promise!PromiseSpec

----------------------------------------------------------------------------
(* Every event claimed by the dedupe insert is processed, by its handler   *)
(* or by the W6 redrive.                                                   *)
EventsProcessed ==
  \A e \in Events : event[e] = "RECEIVED" ~> event[e] = "PROCESSED"

(* No hold outlives its window for ever, whatever became of the            *)
(* transaction (W8).                                                       *)
HoldsEnd == \A t \in Txs : hold[t] = "ACTIVE" ~> hold[t] # "ACTIVE"

(* A paid transaction whose holds stand is sold: by the call the webhook   *)
(* queued, or by W7 when that call died (completion.ts:4).                 *)
PaidCompletes ==
  \A t \in Txs : txState[t] = "PAID" /\ hold[t] = "ACTIVE" ~> txState[t] = "COMPLETED"

(* An approved transaction reserves or is given up, and a reserved one     *)
(* reaches order creation, whoever crashed on the way (W1, W2).            *)
ReserveResolved ==
  \A t \in Txs : txState[t] \in {"PROPOSAL_APPROVED", "STOCK_RESERVED"}
                   ~> txState[t] \in TxStates \ {"PROPOSAL_APPROVED", "STOCK_RESERVED"}

(* An unpaid transaction expires once its hold has lapsed (sweeper.ts:46,  *)
(* a crash between passes self-heals next round).                          *)
AwaitingEnds ==
  \A t \in Txs : txState[t] = "AWAITING_PAYMENT" ~> txState[t] # "AWAITING_PAYMENT"

(* A claim whose winner crashed is resumed (sweeper.ts:157).               *)
CreatingEnds ==
  \A t \in Txs : txState[t] = "ORDER_CREATING" ~> txState[t] # "ORDER_CREATING"

----------------------------------------------------------------------------
ProtocolTypeOK ==
  /\ txState \in [Txs -> TxStates \union {"ABSENT"}]
  /\ order \in [Txs -> {"NONE", "INTENT", "CREATED", "AMBIGUOUS"}]
  /\ handle \in [Txs -> BOOLEAN]
  /\ provOrder \in [Txs -> BOOLEAN]
  /\ told \subseteq Txs
  /\ event \in [Events -> {"absent", "sent", "RECEIVED", "PROCESSED"}]
  /\ pc \in [Procs -> PCs]
  /\ seen \in [Handlers -> TxStates \union {"ABSENT"}]
  /\ stage \in {"begin", "pass2", "swept"} \union RungSet
  /\ todo \subseteq Txs \union Events
  /\ cur \in Txs \union Events \union {Nobody}
  /\ completing \subseteq Txs
  /\ faults \in 0..MaxFaults

\* The rows of every table, the places of every process.
TypeOK == LedgerTypeOK /\ ProtocolTypeOK
=============================================================================
