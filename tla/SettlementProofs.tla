-------------------------- MODULE SettlementProofs --------------------------
(***************************************************************************)
(* Settlement implements the stock ledger: whatever its workers, handlers  *)
(* and sweep do, in any order and with any faults, every step is one       *)
(* ledger transaction or leaves the ledger alone.  The theorems about the  *)
(* ledger hence hold of the settlement module.                             *)
(*                                                                         *)
(* The refinement needs one invariant: a busy sweep works on some row, so  *)
(* the transaction it releases or re-reserves is one of Txs.               *)
(*                                                                         *)
(* The second part is safety beyond the ledger, the third the promise of a *)
(* sale that settlement keeps.                                             *)
(***************************************************************************)
EXTENDS Settlement, StockLedgerProofs

BusyHasRow ==
  /\ DOMAIN pc = Procs
  /\ At(Sweeper, "idle") \/ cur \in Txs \union Events

LedgerStep == [LedgerNext]_ledgerVars

StepOK == BusyHasRow' /\ LedgerStep

----------------------------------------------------------------------------
\* One ledger transaction is one ledger step.
LEMMA LedgerMoves ==
  ASSUME NEW t \in Txs,
         \/ ReserveCart(t) \/ ReserveCartCounted(t) \/ ReReserveExpiredHolds(t)
         \/ ReleaseHolds(t) \/ CommitHolds(t) \/ HoldLapses(t)
  PROVE  LedgerStep
BY DEF LedgerStep, LedgerNext

LEMMA ExpiryMoves == ReleaseExpiredHolds => LedgerStep
BY DEF LedgerStep, LedgerNext

LEMMA LedgerStutters == UNCHANGED ledgerVars => LedgerStep
BY DEF LedgerStep

LEMMA ProcTypes ==
  /\ Txs \subseteq Procs /\ Events \subseteq Procs /\ Sweeper \in Procs
  /\ \A p \in Txs \union Events : p # Sweeper
BY ProcAssumption DEF Procs, Handlers

\* The transaction a busy process works on.
LEMMA TxOfBusy ==
  ASSUME BusyHasRow, NEW p \in Procs, ~At(p, "idle")
  PROVE  TxOf(p) \in Txs
<1>1. EventOf(p) \in Txs \union Events
  BY DEF BusyHasRow, EventOf, Procs, Handlers
<1>2. \A e \in Events : e[1] \in Txs
  BY DEF Events
<1> QED BY <1>1, <1>2 DEF TxOf

\* A process that is busy, or is not the sweep, may go on, return or throw.
LEMMA GoOn ==
  ASSUME BusyHasRow, NEW p \in Procs, p # Sweeper \/ ~At(Sweeper, "idle"),
         (\E label : Goto(p, label)) \/ Return(p) \/ Throw(p)
  PROVE  BusyHasRow'
<1>1. CASE \E label : Goto(p, label)
  BY <1>1 DEF BusyHasRow, Goto, At, sweepVars
<1>2. CASE Return(p)
  BY <1>2, ProcTypes DEF BusyHasRow, Return, At
<1>3. CASE Throw(p)
  BY <1>3, ProcTypes DEF BusyHasRow, Throw, NewTick, At, sweepVars
<1> QED BY <1>1, <1>2, <1>3

\* The sweep takes a row.
LEMMA TakeRow ==
  ASSUME BusyHasRow, NEW row \in Txs \union Events, NEW rung, NEW label,
         Take(rung, row, label)
  PROVE  BusyHasRow'
BY DEF BusyHasRow, Take, At

\* The sweep moves on without leaving a busy row.
LEMMA RowKept ==
  ASSUME BusyHasRow, UNCHANGED <<pc, cur>>
  PROVE  BusyHasRow'
BY DEF BusyHasRow, At

----------------------------------------------------------------------------
(* One lemma per group of actions.                                         *)

LEMMA SettleSteps ==
  ASSUME BusyHasRow, NEW t \in Txs, SettleStep(t)
  PROVE  StepOK
<1>1. t \in Procs /\ t # Sweeper
  BY ProcTypes
<1>2. CASE SettleInsert(t)
  BY <1>1, <1>2, GoOn, LedgerStutters DEF SettleInsert, StepOK
<1>3. CASE SettleReserve(t)
  <2>1. (\E label : Goto(t, label)) \/ Return(t) \/ Throw(t)
    BY <1>3 DEF SettleReserve
  <2>2. ReserveCart(t) \/ ReserveCartCounted(t) \/ UNCHANGED ledgerVars
    BY <1>3 DEF SettleReserve, SettleReserves
  <2> QED BY <1>1, <2>1, <2>2, GoOn, LedgerMoves, LedgerStutters DEF StepOK
<1>4. CASE T5Release(t)
  <2>1. (\E label : Goto(t, label)) \/ Return(t) \/ Throw(t)
    BY <1>4 DEF T5Release, ReleaseThen
  <2>2. ReleaseHolds(t) \/ UNCHANGED ledgerVars
    BY <1>4 DEF T5Release, ReleaseThen
  <2> QED BY <1>1, <2>1, <2>2, GoOn, LedgerMoves, LedgerStutters DEF StepOK
<1>5. CASE T5Fail(t)
  BY <1>1, <1>5, GoOn, LedgerStutters DEF T5Fail, CasOnly, StepOK
<1> QED BY <1>2, <1>3, <1>4, <1>5 DEF SettleStep

LEMMA ReserveSteps ==
  ASSUME BusyHasRow, NEW p \in Procs, ReserveStep(p)
  PROVE  StepOK
<1>1. ~At(p, "idle")
  BY DEF ReserveStep, CasReserved, CasReleased, At
<1>2. (\E label : Goto(p, label)) \/ Return(p) \/ Throw(p)
  BY DEF ReserveStep, CasReserved, CasReleased
<1>3. UNCHANGED ledgerVars
  BY DEF ReserveStep, CasReserved, CasReleased, CasOnly
<1> QED BY <1>1, <1>2, <1>3, GoOn, LedgerStutters DEF StepOK

LEMMA OrderSteps ==
  ASSUME BusyHasRow, NEW p \in Procs, OrderStep(p)
  PROVE  StepOK
<1>1. ~At(p, "idle")
  BY DEF OrderStep, Claim, WriteIntent, CreateOrder, RecordOrder, AdvanceCreated,
         AdvanceAwaiting, MarkAmbiguous, At
<1>2. OrderFails(p) => (\E label : Goto(p, label)) \/ Return(p) \/ Throw(p)
  BY DEF OrderFails
<1>3. ((\E label : Goto(p, label)) \/ Return(p) \/ Throw(p)) /\ UNCHANGED ledgerVars
  <2>1. CASE Claim(p)
    BY <2>1 DEF Claim, CasOnly
  <2>2. CASE WriteIntent(p)
    BY <1>2, <2>2 DEF WriteIntent
  <2>3. CASE CreateOrder(p)
    BY <2>3 DEF CreateOrder
  <2>4. CASE RecordOrder(p)
    BY <2>4 DEF RecordOrder
  <2>5. CASE AdvanceCreated(p)
    BY <2>5 DEF AdvanceCreated, CasOnly
  <2>6. CASE AdvanceAwaiting(p)
    BY <2>6 DEF AdvanceAwaiting
  <2>7. CASE MarkAmbiguous(p)
    BY <1>2, <2>7 DEF MarkAmbiguous
  <2> QED BY <2>1, <2>2, <2>3, <2>4, <2>5, <2>6, <2>7 DEF OrderStep
<1> QED BY <1>1, <1>3, GoOn, LedgerStutters DEF StepOK

LEMMA HandlerSteps ==
  ASSUME BusyHasRow, NEW p \in Procs, HandlerStep(p)
  PROVE  StepOK
<1>1. ~At(p, "idle")
  BY DEF HandlerStep, HandlerRead, LateCapture, HandlerCas, CasPairs, HandlerRelease,
         MarkProcessed, At
<1>2. TxOf(p) \in Txs
  BY <1>1, TxOfBusy
<1>3. CASE HandlerRead(p)
  BY <1>1, <1>3, GoOn, LedgerStutters DEF HandlerRead, dbVars, StepOK
<1>4. CASE LateCapture(p)
  <2>1. \E label : Goto(p, label)
    BY <1>4 DEF LateCapture
  <2>2. ReReserveExpiredHolds(TxOf(p)) \/ UNCHANGED ledgerVars
    BY <1>4 DEF LateCapture
  <2> QED BY <1>1, <1>2, <2>1, <2>2, GoOn, LedgerMoves, LedgerStutters DEF StepOK
<1>5. CASE HandlerCas(p)
  BY <1>1, <1>5, GoOn, LedgerStutters DEF HandlerCas, StepOK
<1>6. CASE HandlerRelease(p)
  <2>1. (\E label : Goto(p, label)) \/ Throw(p)
    BY <1>6 DEF HandlerRelease, ReleaseThen
  <2>2. ReleaseHolds(TxOf(p)) \/ UNCHANGED ledgerVars
    BY <1>6 DEF HandlerRelease, ReleaseThen
  <2> QED BY <1>1, <1>2, <2>1, <2>2, GoOn, LedgerMoves, LedgerStutters DEF StepOK
<1>7. CASE MarkProcessed(p)
  BY <1>1, <1>7, GoOn, LedgerStutters DEF MarkProcessed, StepOK
<1> QED BY <1>3, <1>4, <1>5, <1>6, <1>7 DEF HandlerStep

LEMMA Completions ==
  ASSUME BusyHasRow, NEW t \in Txs, CompleteTransaction(t), UNCHANGED cur
  PROVE  StepOK
<1>1. CommitHolds(t) \/ UNCHANGED ledgerVars
  BY DEF CompleteTransaction
<1>2. UNCHANGED <<pc, cur>>
  BY DEF CompleteTransaction
<1> QED BY <1>1, <1>2, RowKept, LedgerMoves, LedgerStutters DEF StepOK

LEMMA SweepSteps ==
  ASSUME BusyHasRow, SweepStep
  PROVE  StepOK
<1>1. CASE SweepExpireTxs
  BY <1>1, RowKept, LedgerStutters DEF SweepExpireTxs, StepOK
<1>2. CASE SweepReleaseExpired
  BY <1>2, RowKept, LedgerStutters, ExpiryMoves DEF SweepReleaseExpired, StepOK
<1>3. CASE SweepEnd
  BY <1>3, RowKept, LedgerStutters DEF SweepEnd, dbVars, StepOK
<1>4. ASSUME NEW rung \in RungSet, SweepSelect(rung) PROVE StepOK
  BY <1>4, RowKept, LedgerStutters DEF SweepSelect, dbVars, StepOK
<1>5. ASSUME NEW t \in Txs, SweepReserve(t) PROVE StepOK
  <2>1. \E rung, label : Take(rung, t, label)
    BY <1>5 DEF SweepReserve
  <2>2. ReserveCart(t) \/ UNCHANGED ledgerVars
    BY <1>5 DEF SweepReserve
  <2> QED BY <2>1, <2>2, TakeRow, LedgerMoves, LedgerStutters DEF StepOK
<1>6. ASSUME NEW t \in Txs, SweepOrder(t) PROVE StepOK
  BY <1>6, TakeRow, LedgerStutters DEF SweepOrder, dbVars, StepOK
<1>7. ASSUME NEW t \in Txs, SweepComplete(t) PROVE StepOK
  BY <1>7, Completions DEF SweepComplete
<1>8. ASSUME NEW e \in Events, SweepRedrive(e) PROVE StepOK
  BY <1>8, TakeRow, LedgerStutters DEF SweepRedrive, dbVars, StepOK
<1>9. CASE ReserveStep(Sweeper) \/ OrderStep(Sweeper) \/ HandlerStep(Sweeper)
  BY <1>9, ProcTypes, ReserveSteps, OrderSteps, HandlerSteps
<1> QED BY <1>1, <1>2, <1>3, <1>4, <1>5, <1>6, <1>7, <1>8, <1>9 DEF SweepStep

LEMMA EnvSteps ==
  ASSUME BusyHasRow, EnvStep
  PROVE  StepOK
<1>1. CASE Crash
  <2>1. BusyHasRow'
    BY <1>1, ProcTypes DEF Crash, BusyHasRow, At
  <2> QED BY <1>1, <2>1, LedgerStutters DEF Crash, dbVars, StepOK
<1>2. ASSUME NEW t \in Txs, BuyerPays(t) \/ BuyerPaysMismatch(t) \/ PaymentFails(t)
      PROVE  StepOK
  BY <1>2, RowKept, LedgerStutters
     DEF BuyerPays, BuyerPaysMismatch, PaymentFails, Send, sweepVars, StepOK
<1>3. ASSUME NEW t \in Txs, HoldLapse(t) PROVE StepOK
  BY <1>3, RowKept, LedgerMoves DEF HoldLapse, sweepVars, StepOK
<1>4. ASSUME NEW e \in Events, Deliver(e) PROVE StepOK
  BY <1>4, ProcTypes, GoOn, LedgerStutters DEF Deliver, StepOK
<1>5. ASSUME NEW p \in Procs, CreateOrderFails(p) PROVE StepOK
  <2>1. ~At(p, "idle") /\ UNCHANGED ledgerVars
    BY <1>5 DEF CreateOrderFails, At
  <2>2. (\E label : Goto(p, label)) \/ Return(p) \/ Throw(p)
    BY <1>5 DEF CreateOrderFails, OrderFails
  <2> QED BY <2>1, <2>2, GoOn, LedgerStutters DEF StepOK
<1>6. ASSUME NEW p \in Procs, StatementFails(p) PROVE StepOK
  <2>1. ~At(p, "idle")
    BY <1>6 DEF StatementFails, At, OrderPCs, ReservePCs, T5PCs, HandlerPCs
  <2>2. (\E label : Goto(p, label)) \/ Return(p) \/ Throw(p)
    BY <1>6 DEF StatementFails, OrderFails
  <2>3. UNCHANGED ledgerVars
    BY <1>6 DEF StatementFails, dbVars
  <2> QED BY <2>1, <2>2, <2>3, GoOn, LedgerStutters DEF StepOK
<1> QED BY <1>1, <1>2, <1>3, <1>4, <1>5, <1>6 DEF EnvStep

----------------------------------------------------------------------------
(* The theorems.                                                           *)

\* Every step of settlement keeps a busy sweep on a row and is a ledger step.
THEOREM StepRefines == BusyHasRow /\ [Next]_vars => StepOK
<1> SUFFICES ASSUME BusyHasRow, [Next]_vars PROVE StepOK
  OBVIOUS
<1>1. ASSUME NEW t \in Txs,
             SettleStep(t) \/ ReserveStep(t) \/ OrderStep(t) \/ QueuedCompletion(t)
      PROVE  StepOK
  <2>1. CASE QueuedCompletion(t)
    BY <2>1, Completions DEF QueuedCompletion, sweepVars
  <2> QED BY <1>1, <2>1, ProcTypes, SettleSteps, ReserveSteps, OrderSteps
<1>2. ASSUME NEW e \in Events, HandlerStep(e) PROVE StepOK
  BY <1>2, ProcTypes, HandlerSteps
<1>3. CASE SweepStep
  BY <1>3, SweepSteps
<1>4. CASE EnvStep
  BY <1>4, EnvSteps
<1>5. CASE UNCHANGED vars
  BY <1>5, RowKept, LedgerStutters DEF vars, dbVars, sweepVars, StepOK
<1> QED BY <1>1, <1>2, <1>3, <1>4, <1>5 DEF Next

\* The settlement module implements the stock ledger.
THEOREM ImplementsLedger == Spec => LedgerSpec
<1>1. Init => BusyHasRow /\ LedgerInit
  BY ProcTypes DEF Init, BusyHasRow, At
<1>2. BusyHasRow /\ [Next]_vars => BusyHasRow' /\ [LedgerNext]_ledgerVars
  BY StepRefines DEF StepOK, LedgerStep
<1> QED BY <1>1, <1>2, PTL DEF Spec, LedgerSpec

\* So no interleaving of workers, handlers and sweep, and no crash, makes a
\* CHECK of inventory fail, a tripwire ring or a unit be sold twice.
THEOREM SettlementNeverOversells ==
  Spec => [](StockWithinBounds /\ HoldsAreBacked /\ NoOversell)
BY ImplementsLedger, BoundsHold, TripwiresSilent, NeverOversold, PTL

----------------------------------------------------------------------------
(* Safety beyond the ledger: the types, the authority table, and no paid   *)
(* transaction without a capture.  The inductive invariant SettlementInv   *)
(* adds to those what ties a handler to its event: a busy handler works on *)
(* an event the provider sent, and only a capture takes it to the steps    *)
(* that write PAID.                                                        *)

\* Control: where processes are, and what the sweep holds.
ControlOK ==
  /\ pc \in [Procs -> PCs]
  /\ stage \in {"begin", "pass2", "swept"} \union RungSet
  /\ todo \subseteq Txs \union Events
  /\ cur \in Txs \union Events \union {Nobody}

\* Data: the tables and what is in memory besides control.
DataOK ==
  /\ txState \in [Txs -> TxStates \union {"ABSENT"}]
  /\ order \in [Txs -> {"NONE", "INTENT", "CREATED", "AMBIGUOUS"}]
  /\ handle \in [Txs -> BOOLEAN]
  /\ provOrder \in [Txs -> BOOLEAN]
  /\ told \subseteq Txs
  /\ event \in [Events -> {"absent", "sent", "RECEIVED", "PROCESSED"}]
  /\ seen \in [Handlers -> TxStates \union {"ABSENT"}]
  /\ completing \subseteq Txs
  /\ faults \in 0..MaxFaults

LEMMA TypeSplits == ProtocolTypeOK <=> ControlOK /\ DataOK
BY DEF ProtocolTypeOK, ControlOK, DataOK

----------------------------------------------------------------------------
(* Moves of transactions.state.                                            *)

TxMoves ==
  \A t \in Txs : \/ txState'[t] = txState[t]
                 \/ IsLegalTransition(txState[t], txState'[t])
                 \/ txState[t] = "ABSENT" /\ txState'[t] = "PROPOSAL_APPROVED"

Money == {"PAID", "COMPLETED"}

\* The transactions in T, and no others, may have become paid.
PaidOnly(T) ==
  \A t \in Txs : txState'[t] \in Money => txState[t] \in Money \/ t \in T

StatesTyped == txState \in [Txs -> TxStates \union {"ABSENT"}]

LEMMA SuccessorsAreStates ==
  ASSUME NEW from
  PROVE  Successors(from) \subseteq TxStates
BY DEF Successors, TxStates

\* A compare-and-set follows the table, and pays t only if it says so.
LEMMA CasMoves ==
  ASSUME StatesTyped, NEW t \in Txs, NEW from, NEW to, CasTransition(t, from, to)
  PROVE  TxMoves /\ StatesTyped' /\ (to \notin Money => PaidOnly({})) /\ PaidOnly({t})
<1>1. CASE Advances(t, from, to)
  <2>1. txState' = [txState EXCEPT ![t] = to]
    BY <1>1 DEF CasTransition
  <2>2. to \in TxStates /\ txState[t] = from /\ IsLegalTransition(from, to)
    BY <1>1, SuccessorsAreStates DEF Advances, IsLegalTransition
  <2> QED BY <2>1, <2>2 DEF TxMoves, StatesTyped, PaidOnly
<1>2. CASE ~Advances(t, from, to)
  <2>1. txState' = txState
    BY <1>2 DEF CasTransition
  <2> QED BY <2>1 DEF TxMoves, StatesTyped, PaidOnly
<1> QED BY <1>1, <1>2

LEMMA NoMove ==
  ASSUME StatesTyped, UNCHANGED txState
  PROVE  TxMoves /\ StatesTyped' /\ PaidOnly({})
BY DEF TxMoves, StatesTyped, PaidOnly

\* T7 completed: PAID to COMPLETED.
LEMMA CompletionMoves ==
  ASSUME StatesTyped, NEW t \in Txs, CompleteTransaction(t)
  PROVE  TxMoves /\ StatesTyped' /\ PaidOnly({})
<1>1. CASE CanComplete(t)
  <2>1. txState' = [txState EXCEPT ![t] = "COMPLETED"] /\ txState[t] = "PAID"
    BY <1>1 DEF CompleteTransaction, CanComplete
  <2> QED BY <2>1 DEF TxMoves, StatesTyped, PaidOnly, Money, IsLegalTransition, Successors,
                      TxStates
<1>2. CASE ~CanComplete(t)
  BY <1>2, NoMove DEF CompleteTransaction
<1> QED BY <1>1, <1>2

\* Pass 1 of the sweep: AWAITING_PAYMENT to EXPIRED.
LEMMA ExpiryPassMoves ==
  ASSUME StatesTyped, SweepExpireTxs
  PROVE  TxMoves /\ StatesTyped' /\ PaidOnly({})
<1>1. txState' = [t \in Txs |-> IF t \in LapsedTxs THEN "EXPIRED" ELSE txState[t]]
  BY DEF SweepExpireTxs
<1>2. \A t \in LapsedTxs : txState[t] = "AWAITING_PAYMENT"
  BY DEF LapsedTxs
<1> QED BY <1>1, <1>2 DEF TxMoves, StatesTyped, PaidOnly, Money, IsLegalTransition,
                         Successors, TxStates

----------------------------------------------------------------------------
(* Control.                                                                *)

\* A process goes on to a label, returns or throws.
LEMMA ControlKept ==
  ASSUME ControlOK, NEW p \in Procs,
         (\E label \in PCs : Goto(p, label)) \/ Return(p) \/ Throw(p)
  PROVE  ControlOK'
<1> USE DEF ControlOK
<1>1. CASE \E label \in PCs : Goto(p, label)
  BY <1>1 DEF Goto, sweepVars
<1>2. CASE Return(p)
  BY <1>2 DEF Return, PCs
<1>3. CASE Throw(p)
  BY <1>3 DEF Throw, NewTick, sweepVars, PCs
<1> QED BY <1>1, <1>2, <1>3

LEMMA ControlStays ==
  ASSUME ControlOK, UNCHANGED <<pc, sweepVars>>
  PROVE  ControlOK'
BY DEF ControlOK, sweepVars

LEMMA RowTaken ==
  ASSUME ControlOK, NEW rung, NEW row \in Txs \union Events, NEW label \in PCs,
         Take(rung, row, label)
  PROVE  ControlOK'
BY ProcTypes DEF ControlOK, Take

----------------------------------------------------------------------------
(* Handlers and their events.                                              *)

\* Labels on the way to a write of PAID.
PayingPCs == {"casPaid", "late", "casGrace"}

WorksOn(p, label) ==
  /\ EventOf(p) \in Events
  /\ event[EventOf(p)] # "absent"
  /\ label \in PayingPCs => EventOf(p)[2] \in CaptureKinds

\* A busy handler works on an event that was sent; it pays for captures only.
HandlersOK == \A p \in Handlers : pc[p] \in HandlerPCs => WorksOn(p, pc[p])

\* The sweep redrives events that were sent.
TodoOK == \A e \in todo \intersect Events : event[e] # "absent"

EventsKept == \A e \in Events : event[e] # "absent" => event'[e] # "absent"

LEMMA HandlersKept ==
  ASSUME ControlOK, HandlersOK, TodoOK, EventsKept, NEW p \in Procs,
         \/ \E label \in PCs \ HandlerPCs : Goto(p, label)
         \/ \E label \in PCs : Goto(p, label) /\ WorksOn(p, label)
         \/ Return(p)
         \/ Throw(p)
  PROVE  HandlersOK' /\ TodoOK'
<1>1. TodoOK'
  BY DEF TodoOK, EventsKept, Goto, Return, Throw, NewTick, sweepVars
<1>2. ASSUME NEW q \in Handlers, pc'[q] \in HandlerPCs PROVE WorksOn(q, pc[q])'
  <2>1. EventOf(q)' = EventOf(q)
    BY <1>2, ProcTypes
       DEF EventOf, Goto, Return, Throw, NewTick, sweepVars, ControlOK, HandlerPCs, Handlers
  <2>2. WorksOn(q, pc'[q])
    <3>1. q \in Procs
      BY DEF Procs
    <3>2. CASE q # p
      <4>1. pc'[q] = pc[q]
        BY <3>1, <3>2 DEF Goto, Return, Throw, ControlOK
      <4> QED BY <1>2, <4>1 DEF HandlersOK
    <3>3. CASE q = p
      BY <1>2, <3>1, <3>3 DEF Goto, Return, Throw, ControlOK, HandlerPCs
    <3> QED BY <3>2, <3>3
  <2> QED BY <2>1, <2>2 DEF WorksOn, EventsKept
<1> QED BY <1>1, <1>2 DEF HandlersOK

LEMMA HandlersStay ==
  ASSUME HandlersOK, TodoOK, EventsKept, UNCHANGED <<pc, todo, cur>>
  PROVE  HandlersOK' /\ TodoOK'
BY DEF HandlersOK, TodoOK, EventsKept, WorksOn, EventOf

\* Where nobody new is paid and no event is forgotten, captures stay behind
\* the paid transactions.
LEMMA PaidKept ==
  ASSUME PaidWasCaptured, EventsKept, PaidOnly({})
  PROVE  PaidWasCaptured'
<1> SUFFICES ASSUME NEW t \in Txs, txState'[t] \in Money
             PROVE  Sent(t, CaptureKinds)'
  BY DEF PaidWasCaptured, InState, Money
<1>1. Sent(t, CaptureKinds)
  BY DEF PaidOnly, PaidWasCaptured, InState, Money
<1>2. PICK k \in CaptureKinds \intersect EventKinds : event[<<t, k>>] # "absent"
  BY <1>1 DEF Sent
<1>3. <<t, k>> \in Events
  BY DEF Events
<1> QED BY <1>2, <1>3 DEF EventsKept, Sent

----------------------------------------------------------------------------
(* The inductive invariant and what each step keeps of it.                 *)

SettlementInv ==
  ControlOK /\ DataOK /\ BusyHasRow /\ HandlersOK /\ TodoOK /\ PaidWasCaptured

Kept == ControlOK' /\ DataOK' /\ HandlersOK' /\ TodoOK' /\ PaidWasCaptured' /\ TxMoves

\* A step of a process that pays nobody and stays out of the handler's code.
LEMMA PlainStep ==
  ASSUME SettlementInv, NEW p \in Procs, DataOK', TxMoves, PaidOnly({}), EventsKept,
         (\E label \in PCs \ HandlerPCs : Goto(p, label)) \/ Return(p) \/ Throw(p)
  PROVE  Kept
<1>1. ControlOK'
  BY ControlKept DEF SettlementInv
<1>2. HandlersOK' /\ TodoOK'
  BY HandlersKept DEF SettlementInv
<1>3. PaidWasCaptured'
  BY PaidKept DEF SettlementInv
<1> QED BY <1>1, <1>2, <1>3 DEF Kept

\* A compare-and-set and nothing else.
LEMMA PlainCas ==
  ASSUME SettlementInv, NEW p \in Procs, NEW t \in Txs, NEW from, NEW to, to \notin Money,
         CasOnly(t, from, to),
         (\E label \in PCs \ HandlerPCs : Goto(p, label)) \/ Return(p) \/ Throw(p)
  PROVE  Kept
<1>1. TxMoves /\ StatesTyped' /\ PaidOnly({})
  BY CasMoves DEF CasOnly, SettlementInv, DataOK, StatesTyped
<1>2. DataOK' /\ EventsKept
  BY <1>1 DEF CasOnly, SettlementInv, DataOK, StatesTyped, EventsKept, orderVars
<1> QED BY <1>1, <1>2, PlainStep

LEMMA SettleKeeps ==
  ASSUME SettlementInv, NEW t \in Txs, SettleStep(t)
  PROVE  Kept
<1> USE DEF SettlementInv
<1>1. t \in Procs
  BY ProcTypes
<1>2. CASE SettleInsert(t)
  <2>1. TxMoves /\ PaidOnly({})
    BY <1>2 DEF SettleInsert, TxMoves, PaidOnly, DataOK, Money
  <2>2. DataOK' /\ EventsKept
    BY <1>2 DEF SettleInsert, DataOK, TxStates, EventsKept, orderVars
  <2>3. \E label \in PCs \ HandlerPCs : Goto(t, label)
    BY <1>2 DEF SettleInsert, PCs, ReservePCs, HandlerPCs
  <2> QED BY <1>1, <2>1, <2>2, <2>3, PlainStep
<1>3. CASE SettleReserve(t)
  <2>1. TxMoves /\ PaidOnly({})
    BY <1>3, NoMove DEF SettleReserve, DataOK, StatesTyped
  <2>2. DataOK' /\ EventsKept
    BY <1>3 DEF SettleReserve, DataOK, EventsKept, orderVars
  <2>3. (\E label \in PCs \ HandlerPCs : Goto(t, label)) \/ Throw(t)
    BY <1>3 DEF SettleReserve, PCs, ReservePCs, HandlerPCs
  <2> QED BY <1>1, <2>1, <2>2, <2>3, PlainStep
<1>4. CASE T5Release(t)
  <2>1. TxMoves /\ PaidOnly({})
    BY <1>4, NoMove DEF T5Release, DataOK, StatesTyped
  <2>2. DataOK' /\ EventsKept
    BY <1>4 DEF T5Release, DataOK, EventsKept, orderVars
  <2>3. (\E label \in PCs \ HandlerPCs : Goto(t, label)) \/ Throw(t)
    BY <1>4 DEF T5Release, ReleaseThen, PCs, T5PCs, HandlerPCs
  <2> QED BY <1>1, <2>1, <2>2, <2>3, PlainStep
<1>5. CASE T5Fail(t)
  BY <1>1, <1>5, PlainCas DEF T5Fail, Money
<1> QED BY <1>2, <1>3, <1>4, <1>5 DEF SettleStep

LEMMA ReserveKeeps ==
  ASSUME SettlementInv, NEW p \in Procs, ReserveStep(p)
  PROVE  Kept
<1>1. TxOf(p) \in Txs
  BY TxOfBusy DEF SettlementInv, ReserveStep, CasReserved, CasReleased, At
<1>2. CASE CasReserved(p)
  <2>1. (\E label \in PCs \ HandlerPCs : Goto(p, label)) \/ Return(p)
    BY <1>2 DEF CasReserved, PCs, OrderPCs, HandlerPCs
  <2>2. CasOnly(TxOf(p), "PROPOSAL_APPROVED", "STOCK_RESERVED")
    BY <1>2 DEF CasReserved
  <2> QED BY <1>1, <2>1, <2>2, PlainCas DEF Money
<1>3. CASE CasReleased(p)
  BY <1>1, <1>3, PlainCas DEF CasReleased, Money
<1> QED BY <1>2, <1>3 DEF ReserveStep

\* Where a failed ensureOrder leads.
LEMMA OrderFailsLeads ==
  ASSUME NEW p, OrderFails(p)
  PROVE  (\E label \in PCs \ HandlerPCs : Goto(p, label)) \/ Return(p) \/ Throw(p)
BY DEF OrderFails, PCs, T5PCs, HandlerPCs

LEMMA OrderKeeps ==
  ASSUME SettlementInv, NEW p \in Procs, OrderStep(p)
  PROVE  Kept
<1> USE DEF SettlementInv
<1>1. TxOf(p) \in Txs
  BY TxOfBusy DEF OrderStep, Claim, WriteIntent, CreateOrder, RecordOrder, AdvanceCreated,
                  AdvanceAwaiting, MarkAmbiguous, At
<1>2. CASE Claim(p)
  <2>1. (\E label \in PCs \ HandlerPCs : Goto(p, label)) \/ Return(p)
    BY <1>2 DEF Claim, PCs, OrderPCs, HandlerPCs
  <2>2. CasOnly(TxOf(p), "STOCK_RESERVED", "ORDER_CREATING")
    BY <1>2 DEF Claim
  <2> QED BY <1>1, <2>1, <2>2, PlainCas DEF Money
<1>3. CASE WriteIntent(p)
  <2>1. TxMoves /\ PaidOnly({})
    BY <1>3, NoMove DEF WriteIntent, DataOK, StatesTyped
  <2>2. DataOK' /\ EventsKept
    BY <1>1, <1>3 DEF WriteIntent, DataOK, EventsKept
  <2>3. (\E label \in PCs \ HandlerPCs : Goto(p, label)) \/ OrderFails(p)
    BY <1>3 DEF WriteIntent, PCs, OrderPCs, HandlerPCs
  <2> QED BY <2>1, <2>2, <2>3, OrderFailsLeads, PlainStep
<1>4. CASE CreateOrder(p)
  <2>1. TxMoves /\ PaidOnly({})
    BY <1>4, NoMove DEF CreateOrder, DataOK, StatesTyped
  <2>2. DataOK' /\ EventsKept
    BY <1>1, <1>4 DEF CreateOrder, DataOK, EventsKept
  <2>3. \E label \in PCs \ HandlerPCs : Goto(p, label)
    BY <1>4 DEF CreateOrder, PCs, OrderPCs, HandlerPCs
  <2> QED BY <2>1, <2>2, <2>3, PlainStep
<1>5. CASE RecordOrder(p)
  <2>1. TxMoves /\ PaidOnly({})
    BY <1>5, NoMove DEF RecordOrder, DataOK, StatesTyped
  <2>2. DataOK' /\ EventsKept
    <3>1. told' \subseteq Txs
      <4>1. told' = told \/ told' = told \union {TxOf(p)}
        BY <1>5, Zenon DEF RecordOrder
      <4> QED BY <1>1, <4>1 DEF DataOK
    <3>2. /\ order' = order \/ order' = [order EXCEPT ![TxOf(p)] = "CREATED"]
          /\ handle' = handle \/ handle' = [handle EXCEPT ![TxOf(p)] = TRUE]
          /\ UNCHANGED <<txState, provOrder, event, seen, completing, faults>>
      BY <1>5, Zenon DEF RecordOrder
    <3> QED BY <3>1, <3>2 DEF DataOK, EventsKept
  <2>3. \E label \in PCs \ HandlerPCs : Goto(p, label)
    BY <1>5 DEF RecordOrder, PCs, OrderPCs, HandlerPCs
  <2> QED BY <2>1, <2>2, <2>3, PlainStep
<1>6. CASE AdvanceCreated(p)
  <2>1. \E label \in PCs \ HandlerPCs : Goto(p, label)
    BY <1>6 DEF AdvanceCreated, PCs, OrderPCs, HandlerPCs
  <2>2. CasOnly(TxOf(p), "ORDER_CREATING", "RZP_ORDER_CREATED")
    BY <1>6 DEF AdvanceCreated
  <2> QED BY <1>1, <2>1, <2>2, PlainCas DEF Money
<1>7. CASE AdvanceAwaiting(p)
  <2>1. TxMoves /\ StatesTyped' /\ PaidOnly({})
    <3>1. CasTransition(TxOf(p), "RZP_ORDER_CREATED", "AWAITING_PAYMENT")
      BY <1>7 DEF AdvanceAwaiting
    <3>2. StatesTyped /\ "AWAITING_PAYMENT" \notin Money
      BY DEF DataOK, StatesTyped, Money
    <3> QED BY <1>1, <3>1, <3>2, CasMoves
  <2>2. DataOK' /\ EventsKept
    BY <1>1, <1>7, <2>1 DEF AdvanceAwaiting, DataOK, StatesTyped, EventsKept
  <2> QED BY <1>7, <2>1, <2>2, PlainStep DEF AdvanceAwaiting
<1>8. CASE MarkAmbiguous(p)
  <2>1. TxMoves /\ PaidOnly({})
    BY <1>8, NoMove DEF MarkAmbiguous, DataOK, StatesTyped
  <2>2. DataOK' /\ EventsKept
    BY <1>1, <1>8 DEF MarkAmbiguous, DataOK, EventsKept
  <2> QED BY <1>8, <2>1, <2>2, OrderFailsLeads, PlainStep DEF MarkAmbiguous
<1> QED BY <1>2, <1>3, <1>4, <1>5, <1>6, <1>7, <1>8 DEF OrderStep

----------------------------------------------------------------------------
(* Webhook handlers: the only steps that write PAID.                       *)

\* A step inside the handler's code that pays nobody.
LEMMA HandlerGoesOn ==
  ASSUME SettlementInv, NEW p \in Procs, DataOK', TxMoves, PaidOnly({}), EventsKept,
         NEW label \in PCs, Goto(p, label), WorksOn(p, label)
  PROVE  Kept
<1>1. ControlOK'
  BY ControlKept DEF SettlementInv
<1>2. HandlersOK' /\ TodoOK'
  BY HandlersKept DEF SettlementInv
<1>3. PaidWasCaptured'
  BY PaidKept DEF SettlementInv
<1> QED BY <1>1, <1>2, <1>3 DEF Kept

\* A busy handler has its event and its transaction.
LEMMA HandlerBusy ==
  ASSUME SettlementInv, NEW p \in Handlers, HandlerStep(p)
  PROVE  p \in Procs /\ pc[p] \in HandlerPCs /\ WorksOn(p, pc[p]) /\ TxOf(p) \in Txs
<1>1. pc[p] \in HandlerPCs /\ ~At(p, "idle")
  BY DEF HandlerStep, HandlerRead, LateCapture, HandlerCas, CasPairs, HandlerRelease,
         MarkProcessed, At, HandlerPCs
<1>2. p \in Procs
  BY DEF Procs
<1>3. TxOf(p) \in Txs
  BY <1>1, <1>2, TxOfBusy DEF SettlementInv
<1> QED BY <1>1, <1>2, <1>3 DEF SettlementInv, HandlersOK

\* A handler on its way to PAID works on a capture of its transaction.
LEMMA CaptureSent ==
  ASSUME NEW p, NEW label \in PayingPCs, WorksOn(p, label)
  PROVE  Sent(TxOf(p), CaptureKinds)
<1> DEFINE e == EventOf(p)
<1>1. e \in Events /\ event[e] # "absent" /\ e[2] \in CaptureKinds
  BY DEF WorksOn
<1>2. e = <<e[1], e[2]>> /\ e[2] \in EventKinds
  BY <1>1 DEF Events
<1>3. TxOf(p) = e[1]
  BY <1>1, ProcAssumption DEF TxOf
<1> QED BY <1>1, <1>2, <1>3 DEF Sent

LEMMA HandlerReadKeeps ==
  ASSUME SettlementInv, NEW p \in Handlers, HandlerRead(p)
  PROVE  Kept
<1> USE DEF SettlementInv
<1>1. p \in Procs /\ WorksOn(p, pc[p]) /\ TxOf(p) \in Txs
  BY HandlerBusy DEF HandlerStep
<1> DEFINE k == EventOf(p)[2]
           label == IF handle[TxOf(p)] THEN Branch(k, txState[TxOf(p)]) ELSE "mark"
<1>2. Goto(p, label)
  BY DEF HandlerRead
<1>3. label \in PCs /\ (label \in PayingPCs => k \in CaptureKinds)
  BY DEF Branch, PCs, HandlerPCs, PayingPCs
<1> HIDE DEF label
<1>4. WorksOn(p, label)
  BY <1>1, <1>3 DEF WorksOn
<1>5. UNCHANGED <<dbVars, completing, faults>>
  BY DEF HandlerRead
<1>6. TxMoves /\ PaidOnly({})
  BY <1>5, NoMove DEF dbVars, DataOK, StatesTyped
<1>7. seen' \in [Handlers -> TxStates \union {"ABSENT"}]
  BY <1>1 DEF HandlerRead, DataOK
<1>8. DataOK' /\ EventsKept
  BY <1>5, <1>7 DEF DataOK, EventsKept, dbVars, orderVars
<1> QED BY <1>1, <1>2, <1>3, <1>4, <1>6, <1>8, HandlerGoesOn

LEMMA LateCaptureKeeps ==
  ASSUME SettlementInv, NEW p \in Handlers, LateCapture(p)
  PROVE  Kept
<1> USE DEF SettlementInv
<1>1. p \in Procs /\ WorksOn(p, "late")
  BY HandlerBusy DEF HandlerStep, LateCapture, At
<1>2. PICK label \in {"casGrace", "casRefund"} : Goto(p, label)
  BY DEF LateCapture
<1>3. label \in PCs /\ WorksOn(p, label)
  BY <1>1 DEF WorksOn, PayingPCs, PCs, HandlerPCs
<1>4. TxMoves /\ PaidOnly({})
  BY NoMove DEF LateCapture, DataOK, StatesTyped
<1>5. DataOK' /\ EventsKept
  BY DEF LateCapture, DataOK, EventsKept, orderVars
<1> QED BY <1>1, <1>2, <1>3, <1>4, <1>5, HandlerGoesOn

\* The pair of a compare-and-set label; only a label on the way to PAID pays.
LEMMA PairOf ==
  ASSUME NEW p, pc[p] \in DOMAIN CasPairs(p)
  PROVE  CasPairs(p)[pc[p]][2] \in Money => pc[p] \in PayingPCs
BY DEF CasPairs, Money, PayingPCs

LEMMA HandlerCasKeeps ==
  ASSUME SettlementInv, NEW p \in Handlers, HandlerCas(p)
  PROVE  Kept
<1> USE DEF SettlementInv
<1> DEFINE t == TxOf(p)
           from == CasPairs(p)[pc[p]][1]
           to == CasPairs(p)[pc[p]][2]
<1>1. p \in Procs /\ WorksOn(p, pc[p]) /\ t \in Txs
  BY HandlerBusy DEF HandlerStep
<1>2. CasTransition(t, from, to)
  BY DEF HandlerCas
<1>3. StatesTyped
  BY DEF DataOK, StatesTyped
<1>4. to \in Money => pc[p] \in PayingPCs
  BY PairOf DEF HandlerCas
<1>5. PICK label \in {"release", "mark"} : Goto(p, label)
  BY DEF HandlerCas
<1>6. label \in PCs /\ WorksOn(p, label)
  BY <1>1 DEF WorksOn, PayingPCs, PCs, HandlerPCs
<1>7. /\ seen' = [seen EXCEPT ![p] = "ABSENT"]
      /\ completing' = completing \/ completing' = completing \union {t}
      /\ UNCHANGED <<orderVars, event, faults>>
  BY DEF HandlerCas
<1> HIDE DEF t, from, to
<1>8. TxMoves /\ StatesTyped' /\ (to \notin Money => PaidOnly({})) /\ PaidOnly({t})
  BY <1>1, <1>2, <1>3, CasMoves
<1>9. EventsKept
  BY <1>7 DEF EventsKept
<1>10. DataOK'
  <2>1. completing' \subseteq Txs
    BY <1>1, <1>7 DEF DataOK
  <2>2. seen' \in [Handlers -> TxStates \union {"ABSENT"}]
    BY <1>7 DEF DataOK
  <2> QED BY <1>7, <1>8, <2>1, <2>2 DEF DataOK, StatesTyped, orderVars
<1>11. CASE to \notin Money
  BY <1>1, <1>5, <1>6, <1>8, <1>9, <1>10, <1>11, HandlerGoesOn
<1>12. CASE to \in Money
  <2>1. Sent(t, CaptureKinds)
    BY <1>1, <1>4, <1>12, CaptureSent DEF t
  <2>2. PaidWasCaptured'
    <3> SUFFICES ASSUME NEW u \in Txs, txState'[u] \in Money
                 PROVE  Sent(u, CaptureKinds)'
      BY DEF PaidWasCaptured, InState, Money
    <3>1. Sent(u, CaptureKinds)
      BY <1>8, <2>1 DEF PaidOnly, PaidWasCaptured, InState, Money
    <3> QED BY <3>1, <1>7 DEF Sent
  <2>3. ControlOK'
    BY <1>1, <1>5, <1>6, ControlKept
  <2>4. HandlersOK' /\ TodoOK'
    BY <1>1, <1>5, <1>6, <1>9, HandlersKept
  <2> QED BY <1>8, <1>10, <2>2, <2>3, <2>4 DEF Kept
<1> QED BY <1>11, <1>12

LEMMA HandlerReleaseKeeps ==
  ASSUME SettlementInv, NEW p \in Handlers, HandlerRelease(p)
  PROVE  Kept
<1> USE DEF SettlementInv
<1>1. p \in Procs /\ WorksOn(p, "release")
  BY HandlerBusy DEF HandlerStep, HandlerRelease, At
<1>2. "mark" \in PCs /\ WorksOn(p, "mark")
  BY <1>1 DEF WorksOn, PayingPCs, PCs, HandlerPCs
<1>3. TxMoves /\ PaidOnly({})
  BY NoMove DEF HandlerRelease, DataOK, StatesTyped
<1>4. DataOK' /\ EventsKept
  BY DEF HandlerRelease, DataOK, EventsKept, orderVars
<1>5. Goto(p, "mark") \/ Throw(p)
  BY DEF HandlerRelease, ReleaseThen
<1>6. CASE Goto(p, "mark")
  BY <1>1, <1>2, <1>3, <1>4, <1>6, HandlerGoesOn
<1>7. CASE Throw(p)
  BY <1>1, <1>3, <1>4, <1>7, PlainStep
<1> QED BY <1>5, <1>6, <1>7

LEMMA MarkProcessedKeeps ==
  ASSUME SettlementInv, NEW p \in Handlers, MarkProcessed(p)
  PROVE  Kept
<1> USE DEF SettlementInv
<1>1. p \in Procs /\ WorksOn(p, "mark")
  BY HandlerBusy DEF HandlerStep, MarkProcessed, At
<1>2. TxMoves /\ PaidOnly({})
  BY NoMove DEF MarkProcessed, DataOK, StatesTyped
<1>3. DataOK' /\ EventsKept
  BY <1>1 DEF MarkProcessed, DataOK, EventsKept, WorksOn, orderVars
<1>4. Return(p)
  BY DEF MarkProcessed
<1> QED BY <1>1, <1>2, <1>3, <1>4, PlainStep

LEMMA HandlerKeeps ==
  ASSUME SettlementInv, NEW p \in Handlers, HandlerStep(p)
  PROVE  Kept
BY HandlerReadKeeps, LateCaptureKeeps, HandlerCasKeeps, HandlerReleaseKeeps,
   MarkProcessedKeeps DEF HandlerStep

----------------------------------------------------------------------------
(* The sweep and the completions.                                          *)

\* A step that moves no process: control of the sweep may move on, as long
\* as the rows it selected are rows to work on.
LEMMA QuietStep ==
  ASSUME SettlementInv, ControlOK', TodoOK', DataOK', TxMoves, PaidOnly({}),
         UNCHANGED <<pc, cur>>, EventsKept
  PROVE  Kept
<1>1. HandlersOK'
  BY DEF SettlementInv, HandlersOK, WorksOn, EventOf, EventsKept
<1>2. PaidWasCaptured'
  BY PaidKept DEF SettlementInv
<1> QED BY <1>1, <1>2 DEF Kept

LEMMA CompletionKeeps ==
  ASSUME SettlementInv, NEW t \in Txs, CompleteTransaction(t),
         todo' \subseteq todo, completing' \subseteq completing, UNCHANGED <<stage, cur>>
  PROVE  Kept
<1> USE DEF SettlementInv
<1>1. TxMoves /\ StatesTyped' /\ PaidOnly({})
  BY CompletionMoves DEF DataOK, StatesTyped
<1>2. UNCHANGED <<orderVars, event, pc, seen, faults>>
  BY DEF CompleteTransaction
<1>3. DataOK' /\ EventsKept
  BY <1>1, <1>2 DEF DataOK, StatesTyped, EventsKept, orderVars
<1>4. ControlOK' /\ TodoOK'
  BY <1>2 DEF ControlOK, TodoOK
<1> QED BY <1>1, <1>2, <1>3, <1>4, QuietStep

\* The rows a rung selects are transactions, or events the provider sent.
LEMMA RowsAreWork ==
  ASSUME DataOK, NEW rung \in RungSet
  PROVE  /\ Rows(rung) \subseteq Txs \union Events
         /\ \A e \in Rows(rung) \intersect Events : event[e] # "absent"
<1>1. rung \in {"w1", "w2", "w3", "w6", "w7"}
  BY DEF RungSet, Rungs
<1>2. CASE rung = "w6"
  BY <1>2 DEF Rows
<1>3. CASE rung # "w6"
  BY <1>1, <1>3, ProcAssumption DEF Rows, InState
<1> QED BY <1>2, <1>3

LEMMA SweepSelectKeeps ==
  ASSUME SettlementInv, NEW rung \in RungSet, SweepSelect(rung)
  PROVE  Kept
<1> USE DEF SettlementInv
<1>1. /\ stage' = rung /\ todo' \subseteq Rows(rung)
      /\ UNCHANGED <<dbVars, pc, seen, cur, completing, faults>>
  BY DEF SweepSelect
<1>2. TxMoves /\ PaidOnly({})
  BY <1>1, NoMove DEF dbVars, DataOK, StatesTyped
<1>3. DataOK' /\ EventsKept
  BY <1>1 DEF DataOK, EventsKept, dbVars, orderVars
<1>4. ControlOK' /\ TodoOK'
  BY <1>1, RowsAreWork DEF ControlOK, TodoOK, dbVars
<1> QED BY <1>1, <1>2, <1>3, <1>4, QuietStep

LEMMA PassesKeep ==
  ASSUME SettlementInv, SweepExpireTxs \/ SweepReleaseExpired \/ SweepEnd
  PROVE  Kept
<1> USE DEF SettlementInv
<1>1. CASE SweepExpireTxs
  <2>1. TxMoves /\ StatesTyped' /\ PaidOnly({})
    BY <1>1, ExpiryPassMoves DEF DataOK, StatesTyped
  <2>2. DataOK' /\ EventsKept
    BY <1>1, <2>1 DEF SweepExpireTxs, DataOK, StatesTyped, EventsKept, orderVars
  <2>3. ControlOK' /\ TodoOK' /\ UNCHANGED <<pc, cur>>
    BY <1>1 DEF SweepExpireTxs, ControlOK, TodoOK
  <2> QED BY <2>1, <2>2, <2>3, QuietStep
<1>2. CASE SweepReleaseExpired
  <2>1. TxMoves /\ PaidOnly({})
    BY <1>2, NoMove DEF SweepReleaseExpired, DataOK, StatesTyped
  <2>2. DataOK' /\ EventsKept
    BY <1>2 DEF SweepReleaseExpired, DataOK, EventsKept, orderVars
  <2>3. ControlOK' /\ TodoOK' /\ UNCHANGED <<pc, cur>>
    BY <1>2 DEF SweepReleaseExpired, ControlOK, TodoOK
  <2> QED BY <2>1, <2>2, <2>3, QuietStep
<1>3. CASE SweepEnd
  <2>1. TxMoves /\ PaidOnly({})
    BY <1>3, NoMove DEF SweepEnd, dbVars, DataOK, StatesTyped
  <2>2. DataOK' /\ EventsKept
    BY <1>3 DEF SweepEnd, DataOK, EventsKept, dbVars, orderVars
  <2>3. ControlOK' /\ TodoOK' /\ UNCHANGED <<pc, cur>>
    BY <1>3 DEF SweepEnd, ControlOK, TodoOK, dbVars
  <2> QED BY <2>1, <2>2, <2>3, QuietStep
<1> QED BY <1>1, <1>2, <1>3

\* The sweep takes a row to a label of the handler's code only if it is an
\* event, and then to its first step.
LEMMA TakeKeeps ==
  ASSUME SettlementInv, NEW rung, NEW row \in Txs \union Events, NEW label \in PCs,
         Take(rung, row, label), label \notin HandlerPCs \/ (label = "read" /\ row \in Events),
         DataOK', TxMoves, PaidOnly({}), EventsKept
  PROVE  Kept
<1> USE DEF SettlementInv
<1>1. ControlOK'
  BY RowTaken
<1>2. TodoOK'
  BY DEF Take, TodoOK, EventsKept
<1>3. ASSUME NEW q \in Handlers, pc'[q] \in HandlerPCs PROVE WorksOn(q, pc[q])'
  <2>1. CASE q = Sweeper
    <3>1. pc'[q] = label /\ EventOf(q)' = row
      BY <2>1, ProcTypes DEF Take, ControlOK, EventOf
    <3>2. label = "read" /\ row \in Events /\ event[row] # "absent"
      BY <1>3, <3>1 DEF Take, TodoOK
    <3> QED BY <3>1, <3>2 DEF WorksOn, EventsKept, PayingPCs
  <2>2. CASE q # Sweeper
    <3>1. pc'[q] = pc[q] /\ EventOf(q)' = EventOf(q)
      BY <2>2 DEF Take, ControlOK, EventOf, Procs
    <3> QED BY <1>3, <3>1 DEF HandlersOK, WorksOn, EventsKept
  <2> QED BY <2>1, <2>2
<1>4. HandlersOK'
  BY <1>3 DEF HandlersOK
<1>5. PaidWasCaptured'
  BY PaidKept
<1> QED BY <1>1, <1>2, <1>4, <1>5 DEF Kept

LEMMA SweepTakes ==
  ASSUME SettlementInv, NEW row \in Txs \union Events,
         \/ row \in Txs /\ (SweepReserve(row) \/ SweepOrder(row))
         \/ row \in Events /\ SweepRedrive(row)
  PROVE  Kept
<1> USE DEF SettlementInv
<1>1. CASE row \in Txs /\ SweepReserve(row)
  <2>1. TxMoves /\ PaidOnly({})
    BY <1>1, NoMove DEF SweepReserve, DataOK, StatesTyped
  <2>2. DataOK' /\ EventsKept
    <3>1. faults' \in 0..MaxFaults
      BY <1>1, SettlementAssumption DEF SweepReserve, FaultHappens, DataOK
    <3> QED BY <1>1, <3>1 DEF SweepReserve, DataOK, EventsKept, orderVars
  <2>3. PICK label \in {"casReserved", "casReleased"} : Take("w1", row, label)
    BY <1>1 DEF SweepReserve
  <2>4. label \in PCs /\ label \notin HandlerPCs
    BY DEF PCs, ReservePCs, HandlerPCs
  <2> QED BY <2>1, <2>2, <2>3, <2>4, TakeKeeps
<1>2. CASE row \in Txs /\ SweepOrder(row)
  <2>1. TxMoves /\ PaidOnly({})
    BY <1>2, NoMove DEF SweepOrder, dbVars, DataOK, StatesTyped
  <2>2. DataOK' /\ EventsKept
    BY <1>2 DEF SweepOrder, DataOK, EventsKept, dbVars, orderVars
  <2>3. PICK rung \in {"w2", "w3"}, label \in {"claim", "intent"} : Take(rung, row, label)
    BY <1>2 DEF SweepOrder
  <2>4. label \in PCs /\ label \notin HandlerPCs
    BY DEF PCs, OrderPCs, HandlerPCs
  <2> QED BY <2>1, <2>2, <2>3, <2>4, TakeKeeps
<1>3. CASE row \in Events /\ SweepRedrive(row)
  <2>1. TxMoves /\ PaidOnly({})
    BY <1>3, NoMove DEF SweepRedrive, dbVars, DataOK, StatesTyped
  <2>2. DataOK' /\ EventsKept
    BY <1>3 DEF SweepRedrive, DataOK, EventsKept, dbVars, orderVars
  <2>3. "read" \in PCs /\ Take("w6", row, "read")
    BY <1>3 DEF SweepRedrive, PCs, HandlerPCs
  <2> QED BY <1>3, <2>1, <2>2, <2>3, TakeKeeps
<1> QED BY <1>1, <1>2, <1>3

LEMMA SweepKeeps ==
  ASSUME SettlementInv, SweepStep
  PROVE  Kept
<1>1. Sweeper \in Procs /\ Sweeper \in Handlers
  BY ProcTypes DEF Handlers
<1>2. ASSUME NEW t \in Txs, SweepComplete(t) PROVE Kept
  BY <1>2, CompletionKeeps DEF SweepComplete
<1> QED BY <1>1, <1>2, PassesKeep, SweepSelectKeeps, SweepTakes, ReserveKeeps, OrderKeeps,
           HandlerKeeps DEF SweepStep

----------------------------------------------------------------------------
(* The provider, the buyer, the clock and the faults.                      *)

LEMMA FaultCounted ==
  ASSUME DataOK, FaultHappens
  PROVE  faults' \in 0..MaxFaults
BY SettlementAssumption DEF DataOK, FaultHappens

LEMMA SendKeeps ==
  ASSUME SettlementInv, NEW t \in Txs, NEW kinds, Send(t, kinds)
  PROVE  Kept
<1> USE DEF SettlementInv
<1>1. TxMoves /\ PaidOnly({})
  BY NoMove DEF Send, DataOK, StatesTyped
<1>2. DataOK' /\ EventsKept
  BY DEF Send, DataOK, EventsKept, orderVars
<1>3. ControlOK' /\ UNCHANGED <<pc, cur>>
  BY ControlStays DEF Send, sweepVars
<1>4. TodoOK'
  BY <1>2 DEF Send, TodoOK, EventsKept, sweepVars
<1> QED BY <1>1, <1>2, <1>3, <1>4, QuietStep

LEMMA LapseKeeps ==
  ASSUME SettlementInv, NEW t \in Txs, HoldLapse(t)
  PROVE  Kept
<1> USE DEF SettlementInv
<1>1. TxMoves /\ PaidOnly({})
  BY NoMove DEF HoldLapse, DataOK, StatesTyped
<1>2. DataOK' /\ EventsKept
  BY DEF HoldLapse, DataOK, EventsKept, orderVars
<1>3. ControlOK' /\ UNCHANGED <<pc, cur>>
  BY ControlStays DEF HoldLapse, sweepVars
<1>4. TodoOK'
  BY DEF HoldLapse, TodoOK, sweepVars
<1> QED BY <1>1, <1>2, <1>3, <1>4, QuietStep

LEMMA DeliverKeeps ==
  ASSUME SettlementInv, NEW e \in Events, Deliver(e)
  PROVE  Kept
<1> USE DEF SettlementInv
<1>1. e \in Procs /\ EventOf(e) = e
  BY ProcTypes DEF EventOf
<1>2. "read" \in PCs /\ WorksOn(e, "read")
  BY <1>1 DEF Deliver, WorksOn, PayingPCs, PCs, HandlerPCs
<1>3. TxMoves /\ PaidOnly({})
  BY NoMove DEF Deliver, DataOK, StatesTyped
<1>4. DataOK' /\ EventsKept
  BY DEF Deliver, DataOK, EventsKept, orderVars
<1>5. Goto(e, "read")
  BY DEF Deliver
<1> QED BY <1>1, <1>2, <1>3, <1>4, <1>5, HandlerGoesOn

LEMMA CreateOrderFailsKeeps ==
  ASSUME SettlementInv, NEW p \in Procs, CreateOrderFails(p)
  PROVE  Kept
<1> USE DEF SettlementInv
<1>1. TxOf(p) \in Txs
  BY TxOfBusy DEF CreateOrderFails, At
<1>2. TxMoves /\ PaidOnly({})
  BY NoMove DEF CreateOrderFails, DataOK, StatesTyped
<1>3. faults' \in 0..MaxFaults
  BY FaultCounted DEF CreateOrderFails
<1>4. DataOK' /\ EventsKept
  BY <1>1, <1>3 DEF CreateOrderFails, DataOK, EventsKept
<1>5. OrderFails(p) \/ Throw(p)
  BY DEF CreateOrderFails
<1> QED BY <1>2, <1>4, <1>5, OrderFailsLeads, PlainStep

LEMMA StatementFailsKeeps ==
  ASSUME SettlementInv, NEW p \in Procs, StatementFails(p)
  PROVE  Kept
<1> USE DEF SettlementInv
<1>1. UNCHANGED <<dbVars, completing>>
  BY DEF StatementFails
<1>2. TxMoves /\ PaidOnly({})
  BY <1>1, NoMove DEF dbVars, DataOK, StatesTyped
<1>3. faults' \in 0..MaxFaults
  BY FaultCounted DEF StatementFails
<1>4. seen' \in [Handlers -> TxStates \union {"ABSENT"}]
  BY DEF StatementFails, DataOK
<1>5. DataOK' /\ EventsKept
  BY <1>1, <1>3, <1>4 DEF DataOK, EventsKept, dbVars, orderVars
<1>6. OrderFails(p) \/ Goto(p, "casReleased") \/ Return(p) \/ Throw(p)
  BY DEF StatementFails
<1>7. "casReleased" \in PCs \ HandlerPCs
  BY DEF PCs, ReservePCs, HandlerPCs
<1> QED BY <1>2, <1>5, <1>6, <1>7, OrderFailsLeads, PlainStep

LEMMA CrashKeeps ==
  ASSUME SettlementInv, Crash
  PROVE  Kept
<1> USE DEF SettlementInv
<1>1. UNCHANGED dbVars
  BY DEF Crash
<1>2. TxMoves /\ PaidOnly({})
  BY <1>1, NoMove DEF dbVars, DataOK, StatesTyped
<1>3. faults' \in 0..MaxFaults
  BY FaultCounted DEF Crash
<1>4. DataOK' /\ EventsKept
  BY <1>1, <1>3 DEF Crash, DataOK, EventsKept, dbVars, orderVars
<1>5. ControlOK' /\ TodoOK'
  BY DEF Crash, NewTick, ControlOK, TodoOK, PCs
<1>6. HandlersOK'
  BY DEF Crash, HandlersOK, HandlerPCs, Procs
<1>7. PaidWasCaptured'
  BY <1>2, <1>4, PaidKept
<1> QED BY <1>2, <1>4, <1>5, <1>6, <1>7 DEF Kept

LEMMA EnvKeeps ==
  ASSUME SettlementInv, EnvStep
  PROVE  Kept
BY SendKeeps, LapseKeeps, DeliverKeeps, CreateOrderFailsKeeps, StatementFailsKeeps, CrashKeeps
   DEF EnvStep, BuyerPays, BuyerPaysMismatch, PaymentFails

----------------------------------------------------------------------------
(* The theorems.                                                           *)

LEMMA SettlementInit == Init => SettlementInv
<1> SUFFICES ASSUME Init PROVE SettlementInv
  OBVIOUS
<1> USE DEF Init
<1>1. ControlOK
  BY DEF ControlOK, PCs
<1>2. DataOK
  BY SettlementAssumption DEF DataOK
<1>3. BusyHasRow
  BY ProcTypes DEF BusyHasRow, At
<1>4. HandlersOK /\ TodoOK
  BY DEF HandlersOK, TodoOK, HandlerPCs, Procs
<1>5. PaidWasCaptured
  BY DEF PaidWasCaptured, InState
<1> QED BY <1>1, <1>2, <1>3, <1>4, <1>5 DEF SettlementInv

\* Every step keeps the invariant and moves transactions by the table.
THEOREM StepKeepsSettlement == SettlementInv /\ [Next]_vars => SettlementInv' /\ TxMoves
<1> SUFFICES ASSUME SettlementInv, [Next]_vars PROVE SettlementInv' /\ TxMoves
  OBVIOUS
<1>1. BusyHasRow'
  BY StepRefines DEF SettlementInv, StepOK
<1>2. ASSUME NEW t \in Txs,
             SettleStep(t) \/ ReserveStep(t) \/ OrderStep(t) \/ QueuedCompletion(t)
      PROVE  Kept
  <2>1. t \in Procs
    BY ProcTypes
  <2>2. CASE QueuedCompletion(t)
    BY <2>2, CompletionKeeps DEF QueuedCompletion, sweepVars
  <2> QED BY <1>2, <2>1, <2>2, SettleKeeps, ReserveKeeps, OrderKeeps
<1>3. ASSUME NEW e \in Events, HandlerStep(e) PROVE Kept
  BY <1>3, HandlerKeeps DEF Handlers
<1>4. ASSUME SweepStep PROVE Kept
  BY <1>4, SweepKeeps
<1>5. ASSUME EnvStep PROVE Kept
  BY <1>5, EnvKeeps
<1>6. ASSUME UNCHANGED vars PROVE Kept
  <2>1. TxMoves
    BY <1>6 DEF vars, dbVars, TxMoves
  <2>2. /\ ControlOK' /\ DataOK' /\ HandlersOK' /\ TodoOK'
    BY <1>6 DEF SettlementInv, ControlOK, DataOK, HandlersOK, TodoOK, WorksOn, EventOf, vars,
                dbVars, orderVars, sweepVars
  <2>3. PaidWasCaptured'
    BY <1>6 DEF SettlementInv, PaidWasCaptured, InState, Sent, vars, dbVars
  <2> QED BY <2>1, <2>2, <2>3 DEF Kept
<1>7. Kept
  BY <1>2, <1>3, <1>4, <1>5, <1>6 DEF Next
<1> QED BY <1>1, <1>7 DEF Kept, SettlementInv

\* SettlementInv is an invariant of every run of the settlement module.
THEOREM SettlementSafe == Spec => []SettlementInv
<1>1. SettlementInv /\ [Next]_vars => SettlementInv'
  BY StepKeepsSettlement
<1> QED BY <1>1, SettlementInit, PTL DEF Spec

\* Every table, counter and process keeps its type.
THEOREM SettlementTypeCorrect == Spec => []TypeOK
<1>1. SettlementInv => ProtocolTypeOK
  BY TypeSplits DEF SettlementInv
<1>2. LedgerTypeOK /\ ProtocolTypeOK => TypeOK
  BY DEF TypeOK
<1> QED BY <1>1, <1>2, SettlementSafe, ImplementsLedger, LedgerTypeCorrect, PTL

\* A transaction is PAID or COMPLETED only behind a matching capture at the
\* provider, whichever handler, redrive or resurrection wrote the state.
THEOREM PaidBehindCapture == Spec => []PaidWasCaptured
<1>1. SettlementInv => PaidWasCaptured
  BY DEF SettlementInv
<1> QED BY <1>1, SettlementSafe, PTL

\* Every write of transactions.state, whoever makes it and whatever it read
\* before, follows the authority table.
THEOREM MovesAreLegal == Spec => LegalMoves
<1>1. SettlementInv /\ [Next]_vars =>
        [\A t \in Txs : \/ txState'[t] = txState[t]
                        \/ IsLegalTransition(txState[t], txState'[t])
                        \/ txState[t] = "ABSENT" /\ txState'[t] = "PROPOSAL_APPROVED"]_vars
  BY StepKeepsSettlement DEF TxMoves
<1> QED BY <1>1, SettlementSafe, PTL DEF Spec, LegalMoves

----------------------------------------------------------------------------
(* The promise of SalePromise is kept: a capture is TakeMoney, a           *)
(* completion is Sell, and every other step of a worker, a handler, the    *)
(* sweep or a fault is a stutter.  A completion is a sale because the      *)
(* transaction was paid behind a capture (PaidWasCaptured) and because its *)
(* holds are backed by units on the shelf (the ledger's bounds).  The same *)
(* three kinds of step show that a sale and its stock never part.          *)

\* No unit leaves the shelf, no hold is committed, no transaction becomes
\* COMPLETED.
ShelfUntouched ==
  /\ stock' = stock
  /\ \A t \in Txs : hold'[t] = "COMMITTED" <=> hold[t] = "COMMITTED"

NoSale ==
  /\ ShelfUntouched
  /\ \A t \in Txs : txState'[t] = "COMPLETED" => txState[t] = "COMPLETED"

\* The provider takes no money, and what it took is not forgotten.
NoMoneyTaken == \A e \in Events : event'[e] = "absent" <=> event[e] = "absent"

Quiet == NoSale /\ NoMoneyTaken

\* The ledger transactions other than the commit leave the shelf alone.
ShelfKept ==
  \/ \E t \in Txs : \/ ReserveCart(t) \/ ReserveCartCounted(t) \/ ReleaseHolds(t)
                    \/ ReReserveExpiredHolds(t) \/ HoldLapses(t)
  \/ ReleaseExpiredHolds
  \/ UNCHANGED ledgerVars

LEMMA ShelfStays ==
  ASSUME LedgerTypeOK, ShelfKept
  PROVE  ShelfUntouched
<1> USE DEF LedgerTypeOK, ShelfUntouched, SetHold
<1>1. CASE ReleaseExpiredHolds
  BY <1>1 DEF ReleaseExpiredHolds, DueHolds, HeldBy
<1>2. CASE UNCHANGED ledgerVars
  BY <1>2 DEF ledgerVars
<1>3. ASSUME NEW t \in Txs, ReserveCart(t) \/ ReserveCartCounted(t)
      PROVE  ShelfUntouched
  BY <1>3 DEF ReserveCart, ReserveCartCounted, HoldCart, CanReserve
<1>4. ASSUME NEW t \in Txs, ReleaseHolds(t) \/ ReReserveExpiredHolds(t) \/ HoldLapses(t)
      PROVE  ShelfUntouched
  BY <1>4 DEF ReleaseHolds, CanRelease, ReReserveExpiredHolds, CanReReserve, HoldLapses
<1> QED BY <1>1, <1>2, <1>3, <1>4 DEF ShelfKept

\* A step that only keeps or compares-and-sets the state, to another state
\* than COMPLETED, is quiet.
LEMMA QuietMove ==
  ASSUME SettlementInv, LedgerTypeOK, ShelfKept, NoMoneyTaken,
         \/ UNCHANGED txState
         \/ \E t \in Txs : \E from, to : CasTransition(t, from, to) /\ to # "COMPLETED"
  PROVE  Quiet
<1>1. ShelfUntouched
  BY ShelfStays
<1>2. CASE UNCHANGED txState
  BY <1>1, <1>2 DEF Quiet, NoSale
<1>3. ASSUME NEW t \in Txs, NEW from, NEW to, CasTransition(t, from, to), to # "COMPLETED"
      PROVE  Quiet
  <2>1. txState' = txState \/ txState' = [txState EXCEPT ![t] = to]
    BY <1>3 DEF CasTransition
  <2> QED BY <1>1, <1>3, <2>1 DEF Quiet, NoSale, SettlementInv, DataOK
<1> QED BY <1>2, <1>3

LEMMA QuietCas ==
  ASSUME SettlementInv, LedgerTypeOK, NEW t \in Txs, NEW from, NEW to, CasOnly(t, from, to),
         to # "COMPLETED"
  PROVE  Quiet
<1>1. ShelfKept /\ NoMoneyTaken /\ CasTransition(t, from, to)
  BY DEF CasOnly, ShelfKept, NoMoneyTaken
<1> QED BY <1>1, QuietMove

----------------------------------------------------------------------------
(* The steps that sell nothing and take no money.                          *)

LEMMA SettleQuiet ==
  ASSUME SettlementInv, LedgerTypeOK, NEW t \in Txs, SettleStep(t)
  PROVE  Quiet
<1>1. CASE SettleInsert(t)
  BY <1>1 DEF SettleInsert, Quiet, NoSale, ShelfUntouched, NoMoneyTaken, ledgerVars,
              SettlementInv, DataOK
<1>2. CASE SettleReserve(t)
  <2>1. ShelfKept /\ NoMoneyTaken /\ UNCHANGED txState
    BY <1>2 DEF SettleReserve, SettleReserves, ShelfKept, NoMoneyTaken
  <2> QED BY <2>1, QuietMove
<1>3. CASE T5Release(t)
  <2>1. ShelfKept /\ NoMoneyTaken /\ UNCHANGED txState
    BY <1>3 DEF T5Release, ReleaseThen, ShelfKept, NoMoneyTaken
  <2> QED BY <2>1, QuietMove
<1>4. CASE T5Fail(t)
  BY <1>4, QuietCas DEF T5Fail
<1> QED BY <1>1, <1>2, <1>3, <1>4 DEF SettleStep

LEMMA ReserveQuiet ==
  ASSUME SettlementInv, LedgerTypeOK, NEW p \in Procs, ReserveStep(p)
  PROVE  Quiet
<1>1. TxOf(p) \in Txs
  BY TxOfBusy DEF SettlementInv, ReserveStep, CasReserved, CasReleased, At
<1> QED BY <1>1, QuietCas DEF ReserveStep, CasReserved, CasReleased

LEMMA OrderQuiet ==
  ASSUME SettlementInv, LedgerTypeOK, NEW p \in Procs, OrderStep(p)
  PROVE  Quiet
<1>1. TxOf(p) \in Txs
  BY TxOfBusy DEF SettlementInv, OrderStep, Claim, WriteIntent, CreateOrder, RecordOrder,
                  AdvanceCreated, AdvanceAwaiting, MarkAmbiguous, At
<1>2. CASE Claim(p) \/ AdvanceCreated(p)
  BY <1>1, <1>2, QuietCas DEF Claim, AdvanceCreated
<1>3. CASE AdvanceAwaiting(p)
  <2>1. /\ ShelfKept /\ NoMoneyTaken
        /\ CasTransition(TxOf(p), "RZP_ORDER_CREATED", "AWAITING_PAYMENT")
    BY <1>3 DEF AdvanceAwaiting, ShelfKept, NoMoneyTaken
  <2> QED BY <1>1, <2>1, QuietMove
<1>4. CASE WriteIntent(p) \/ CreateOrder(p) \/ RecordOrder(p) \/ MarkAmbiguous(p)
  <2>1. ShelfKept /\ NoMoneyTaken /\ UNCHANGED txState
    BY <1>4 DEF WriteIntent, CreateOrder, RecordOrder, MarkAmbiguous, ShelfKept, NoMoneyTaken
  <2> QED BY <2>1, QuietMove
<1> QED BY <1>2, <1>3, <1>4 DEF OrderStep

LEMMA HandlerQuiet ==
  ASSUME SettlementInv, LedgerTypeOK, NEW p \in Handlers, HandlerStep(p)
  PROVE  Quiet
<1>1. p \in Procs /\ WorksOn(p, pc[p]) /\ TxOf(p) \in Txs
  BY HandlerBusy
<1>2. CASE HandlerRead(p)
  <2>1. ShelfKept /\ NoMoneyTaken /\ UNCHANGED txState
    BY <1>2 DEF HandlerRead, dbVars, ShelfKept, NoMoneyTaken
  <2> QED BY <2>1, QuietMove
<1>3. CASE LateCapture(p) \/ HandlerRelease(p)
  <2>1. ShelfKept /\ NoMoneyTaken /\ UNCHANGED txState
    BY <1>1, <1>3 DEF LateCapture, HandlerRelease, ReleaseThen, ShelfKept, NoMoneyTaken
  <2> QED BY <2>1, QuietMove
<1>4. CASE HandlerCas(p)
  <2> DEFINE from == CasPairs(p)[pc[p]][1]
             to == CasPairs(p)[pc[p]][2]
  <2>1. CasTransition(TxOf(p), from, to) /\ ShelfKept /\ NoMoneyTaken
    BY <1>4 DEF HandlerCas, ShelfKept, NoMoneyTaken
  <2>2. to # "COMPLETED"
    BY <1>4 DEF HandlerCas, CasPairs
  <2> HIDE DEF from, to
  <2> QED BY <1>1, <2>1, <2>2, QuietMove
<1>5. CASE MarkProcessed(p)
  <2>1. ShelfKept /\ UNCHANGED txState
    BY <1>5 DEF MarkProcessed, ShelfKept
  <2>2. NoMoneyTaken
    BY <1>1, <1>5 DEF MarkProcessed, NoMoneyTaken, WorksOn, SettlementInv, DataOK
  <2> QED BY <2>1, <2>2, QuietMove
<1> QED BY <1>2, <1>3, <1>4, <1>5 DEF HandlerStep

LEMMA SweepQuiet ==
  ASSUME SettlementInv, LedgerTypeOK, SweepStep, \A t \in Txs : ~SweepComplete(t)
  PROVE  Quiet
<1>1. CASE SweepExpireTxs
  BY <1>1 DEF SweepExpireTxs, Quiet, NoSale, ShelfUntouched, NoMoneyTaken, ledgerVars
<1>2. CASE \/ SweepReleaseExpired \/ SweepEnd
           \/ \E rung \in RungSet : SweepSelect(rung)
           \/ \E t \in Txs : SweepReserve(t) \/ SweepOrder(t)
           \/ \E e \in Events : SweepRedrive(e)
  <2>1. ShelfKept /\ NoMoneyTaken /\ UNCHANGED txState
    BY <1>2 DEF SweepReleaseExpired, SweepEnd, SweepSelect, SweepReserve, SweepOrder,
                SweepRedrive, dbVars, ShelfKept, NoMoneyTaken
  <2> QED BY <2>1, QuietMove
<1>3. Sweeper \in Procs /\ Sweeper \in Handlers
  BY ProcTypes DEF Handlers
<1> QED BY <1>1, <1>2, <1>3, ReserveQuiet, OrderQuiet, HandlerQuiet DEF SweepStep

LEMMA EnvQuiet ==
  ASSUME SettlementInv, LedgerTypeOK, EnvStep, \A t \in Txs : ~BuyerPays(t)
  PROVE  \/ Quiet
         \/ \E t \in Txs : BuyerPaysMismatch(t) \/ PaymentFails(t)
<1>1. CASE \/ Crash
           \/ \E t \in Txs : HoldLapse(t)
           \/ \E e \in Events : Deliver(e)
           \/ \E p \in Procs : CreateOrderFails(p) \/ StatementFails(p)
  <2>1. ShelfKept /\ UNCHANGED txState
    BY <1>1 DEF Crash, HoldLapse, Deliver, CreateOrderFails, StatementFails, dbVars, ShelfKept
  <2>2. NoMoneyTaken
    BY <1>1 DEF Crash, HoldLapse, Deliver, CreateOrderFails, StatementFails, dbVars,
                NoMoneyTaken, SettlementInv, DataOK
  <2> QED BY <2>1, <2>2, QuietMove
<1> QED BY <1>1 DEF EnvStep

Report(t) == BuyerPays(t) \/ BuyerPaysMismatch(t) \/ PaymentFails(t)

\* A step is quiet, a report of the provider or a completion.
LEMMA StepKinds ==
  ASSUME SettlementInv, LedgerTypeOK, [Next]_vars
  PROVE  Quiet \/ \E t \in Txs : Report(t) \/ CompleteTransaction(t)
<1>1. ASSUME NEW t \in Txs, SettleStep(t) \/ ReserveStep(t) \/ OrderStep(t)
      PROVE  Quiet
  <2>1. t \in Procs
    BY ProcTypes
  <2> QED BY <1>1, <2>1, SettleQuiet, ReserveQuiet, OrderQuiet
<1>2. ASSUME NEW e \in Events, HandlerStep(e) PROVE Quiet
  BY <1>2, HandlerQuiet DEF Handlers
<1>3. CASE SweepStep
  BY <1>3, SweepQuiet DEF SweepComplete
<1>4. CASE EnvStep
  BY <1>4, EnvQuiet DEF Report
<1>5. CASE UNCHANGED vars
  BY <1>5 DEF vars, dbVars, ledgerVars, Quiet, NoSale, ShelfUntouched, NoMoneyTaken
<1>6. CASE \E t \in Txs : QueuedCompletion(t)
  BY <1>6 DEF QueuedCompletion
<1> QED BY <1>1, <1>2, <1>3, <1>4, <1>5, <1>6 DEF Next

----------------------------------------------------------------------------
(* The mapping.                                                            *)

Taken == {t \in Txs : Sent(t, CaptureKinds)}
Bought == InState({"COMPLETED"})
PromiseStep == [Promise!PromiseNext]_(Promise!promiseVars)

LEMMA BoughtStays ==
  ASSUME TxMoves, NoSale
  PROVE  Bought' = Bought
<1>1. \A t \in Txs : txState[t] = "COMPLETED" => txState'[t] = "COMPLETED"
  BY DEF TxMoves, IsLegalTransition, Successors
<1> QED BY <1>1 DEF NoSale, Bought, InState

\* A report of kinds about t: only a capture takes money, and only of t.
LEMMA TakenMoves ==
  ASSUME NEW t \in Txs, NEW kinds, Send(t, kinds)
  PROVE  /\ Taken' = IF kinds \intersect CaptureKinds \intersect EventKinds = {}
                       THEN Taken ELSE Taken \union {t}
         /\ UNCHANGED <<stock, txState>>
<1>1. event' = [e \in Events |-> IF e[1] = t /\ e[2] \in kinds THEN "sent" ELSE event[e]]
  BY DEF Send
<1>2. \A u \in Txs, k \in EventKinds :
        /\ <<u, k>> \in Events
        /\ event'[<<u, k>>] = IF u = t /\ k \in kinds THEN "sent" ELSE event[<<u, k>>]
  BY <1>1 DEF Events
<1>3. \A u \in Txs : Sent(u, CaptureKinds)' <=>
        \/ Sent(u, CaptureKinds)
        \/ u = t /\ kinds \intersect CaptureKinds \intersect EventKinds # {}
  <2>1. ~Sent(t, CaptureKinds)
    BY DEF Send, Sent
  <2> QED BY <1>2, <2>1 DEF Sent
<1> QED BY <1>3 DEF Taken, Send, ledgerVars

\* A quiet step is a stutter of the promise.
LEMMA QuietStutters ==
  ASSUME TxMoves, Quiet
  PROVE  PromiseStep
<1>1. Bought' = Bought /\ stock' = stock
  BY BoughtStays DEF Quiet, NoSale, ShelfUntouched
<1>2. Taken' = Taken
  <2>1. \A t \in Txs : Sent(t, CaptureKinds)' <=> Sent(t, CaptureKinds)
    BY DEF Quiet, NoMoneyTaken, Sent, Events
  <2> QED BY <2>1 DEF Taken
<1> QED BY <1>1, <1>2 DEF PromiseStep, Promise!promiseVars, Taken, Bought

\* A report from the provider takes money, or is a stutter.
LEMMA ReportIsPromised ==
  ASSUME NEW t \in Txs, BuyerPays(t) \/ BuyerPaysMismatch(t) \/ PaymentFails(t)
  PROVE  PromiseStep
<1>1. PICK kinds : Send(t, kinds)
  BY DEF BuyerPays, BuyerPaysMismatch, PaymentFails
<1>2. /\ Taken' = Taken \/ Taken' = Taken \union {t}
      /\ UNCHANGED <<stock, txState>>
  BY <1>1, TakenMoves
<1>3. Bought' = Bought
  BY <1>2 DEF Bought, InState
<1> QED BY <1>2, <1>3 DEF PromiseStep, Promise!promiseVars, Promise!PromiseNext,
                         Promise!TakeMoney, Taken, Bought

\* A completion is a sale, or rolled back.
LEMMA CompletionIsPromised ==
  ASSUME SettlementInv, LedgerTypeOK, StockWithinBounds, NEW t \in Txs, CompleteTransaction(t)
  PROVE  PromiseStep
<1>1. Taken' = Taken
  <2>1. event' = event
    BY DEF CompleteTransaction
  <2> QED BY <2>1 DEF Taken, Sent
<1>2. CASE ~CanComplete(t)
  <2>1. UNCHANGED <<stock, txState>>
    BY <1>2 DEF CompleteTransaction, ledgerVars
  <2>2. Bought' = Bought
    BY <2>1 DEF Bought, InState
  <2> QED BY <1>1, <2>1, <2>2 DEF PromiseStep, Promise!promiseVars, Taken, Bought
<1>3. CASE CanComplete(t)
  <2>1. t \in Taken \ Bought
    BY <1>3 DEF CanComplete, SettlementInv, PaidWasCaptured, Taken, Bought, InState
  <2>2. Bought' = Bought \union {t}
    BY <1>3 DEF CompleteTransaction, SettlementInv, DataOK, Bought, InState
  <2>3. stock' = [s \in Skus |-> stock[s] - ShelfQty[t][s]]
    BY <1>3 DEF CompleteTransaction, CommitHolds
  <2>4. \A s \in Skus : stock[s] >= ShelfQty[t][s]
    <3>1. \A s \in Skus : reserved[s] >= ShelfQty[t][s]
      BY <1>3 DEF CanComplete, CanCommit, Backed
    <3>2. \A s \in Skus : ShelfQty[t][s] \in Nat /\ stock[s] \in Int /\ reserved[s] \in Int
      BY Numbers DEF LedgerTypeOK
    <3> QED BY <3>1, <3>2 DEF StockWithinBounds
  <2>5. Promise!Sell(t)
    BY <1>1, <2>1, <2>2, <2>3, <2>4 DEF Promise!Sell, Taken, Bought
  <2> QED BY <2>5 DEF PromiseStep, Promise!PromiseNext
<1> QED BY <1>2, <1>3

THEOREM StepIsPromised ==
  SettlementInv /\ LedgerTypeOK /\ StockWithinBounds /\ [Next]_vars => PromiseStep
<1> SUFFICES ASSUME SettlementInv, LedgerTypeOK, StockWithinBounds, [Next]_vars
             PROVE  PromiseStep
  OBVIOUS
<1>1. TxMoves
  BY StepKeepsSettlement
<1> QED BY <1>1, StepKinds, QuietStutters, ReportIsPromised, CompletionIsPromised DEF Report

LEMMA PromiseStarts == Init => Promise!PromiseInit
<1> SUFFICES ASSUME Init PROVE Promise!PromiseInit
  OBVIOUS
<1>1. Taken = {}
  BY DEF Init, Taken, Sent, Events
<1>2. Bought = {}
  BY DEF Init, Bought, InState
<1> QED BY <1>1, <1>2 DEF Init, LedgerInit, Promise!PromiseInit, Taken, Bought

\* Settlement implements the sale promise: each unit that leaves the shelf is
\* sold once, to a cart whose money the provider took.
THEOREM PromiseIsKept == Spec => PromiseKept
<1>1. SettlementInv /\ LedgerTypeOK /\ StockWithinBounds /\ [Next]_vars
        => [Promise!PromiseNext]_(Promise!promiseVars)
  BY StepIsPromised DEF PromiseStep
<1> QED BY <1>1, PromiseStarts, SettlementSafe, ImplementsLedger, LedgerTypeCorrect,
           BoundsHold, PTL DEF Spec, PromiseKept, Promise!PromiseSpec

----------------------------------------------------------------------------
(* The sale and the stock.                                                 *)

LEMMA SaleStep ==
  ASSUME SettlementInv, LedgerTypeOK, SaleMatchesState, [Next]_vars
  PROVE  SaleMatchesState'
<1>1. TxMoves
  BY StepKeepsSettlement
<1>2. CASE Quiet
  <2>1. \A t \in Txs : txState[t] = "COMPLETED" => txState'[t] = "COMPLETED"
    BY <1>1 DEF TxMoves, IsLegalTransition, Successors
  <2> QED BY <1>2, <2>1 DEF Quiet, NoSale, ShelfUntouched, SaleMatchesState
<1>3. ASSUME NEW t \in Txs, Report(t) PROVE SaleMatchesState'
  BY <1>3 DEF Report, BuyerPays, BuyerPaysMismatch, PaymentFails, Send, ledgerVars,
              SaleMatchesState
<1>4. ASSUME NEW t \in Txs, CompleteTransaction(t) PROVE SaleMatchesState'
  <2>1. CASE ~CanComplete(t)
    BY <1>4, <2>1 DEF CompleteTransaction, ledgerVars, SaleMatchesState
  <2>2. CASE CanComplete(t)
    <3>1. /\ hold' = [hold EXCEPT ![t] = "COMMITTED"]
          /\ txState' = [txState EXCEPT ![t] = "COMPLETED"]
      BY <1>4, <2>2 DEF CompleteTransaction, CommitHolds, SetHold
    <3> QED BY <3>1 DEF SettlementInv, DataOK, LedgerTypeOK, SaleMatchesState
  <2> QED BY <2>1, <2>2
<1> QED BY <1>2, <1>3, <1>4, StepKinds

\* The sale is recorded exactly when the stock leaves: COMPLETED and COMMITTED
\* are one and the same, whatever raced, failed or crashed around them.
THEOREM SalesMatchStates == Spec => []SaleMatchesState
<1>1. Init => SaleMatchesState
  BY DEF Init, LedgerInit, SaleMatchesState
<1>2. SettlementInv /\ LedgerTypeOK /\ SaleMatchesState /\ [Next]_vars => SaleMatchesState'
  BY SaleStep
<1> QED BY <1>1, <1>2, SettlementSafe, ImplementsLedger, LedgerTypeCorrect, PTL DEF Spec
==============================================================================
