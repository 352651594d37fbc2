------------------------ MODULE SettlementOrderProofs ------------------------
(***************************************************************************)
(* From a claimed cart to a recorded capture: nobody is asked to pay for a *)
(* cart that was never held, one process creates the order, an order that  *)
(* was flagged AMBIGUOUS cannot be paid, and a capture that was handled is *)
(* on record unless the hold lapsed or an attempt failed before it.        *)
(*                                                                         *)
(* The inductive invariant OrderInv says, for every process, what the step *)
(* it is about to take relies on (Needs), and for every row what its       *)
(* tables agree on.  Two parts hold only under a condition on the          *)
(* constants, which they name: OneCreator and AnswersFirst.                *)
(***************************************************************************)
EXTENDS SettlementProofs

\* States before the claim of T4a, states after the buyer may have been asked
\* to pay, and states in which a capture is on record.
Early == {"ABSENT", "PROPOSAL_APPROVED", "STOCK_RESERVED"}
Recorded == {"PAID", "COMPLETED", "MANUAL_REFUND_REQUIRED"}
Asked == Recorded \union {"AWAITING_PAYMENT"}
Ordering == Asked \union {"ORDER_CREATING", "RZP_ORDER_CREATED"}

\* Past the claim.
Creating == OrderPCs \ {"claim"}

\* No second creator meets the first with another answer of the provider: the
\* mock repeats its answer, and a fast request is over when the sweep comes.
OneCreator == ProviderKind = "mock" \/ ~SlowRequests

\* And the buyer learns the order id from the reply of settle, after T6.
AnswersFirst == OneCreator /\ ~BuyerPolls

\* The row of a payment: the payment is on record, or the hold lapsed before it
\* was recorded, or an attempt of the buyer had failed before it.
Accounted(t) ==
  \/ txState[t] \in Recorded \union {"EXPIRED"}
  \/ txState[t] = "FAILED" /\ Sent(t, {"failed"})

\* The row of a buyer who was asked to pay.
Answered(t) == txState[t] = "AWAITING_PAYMENT" \/ Accounted(t)

----------------------------------------------------------------------------
(* What process p relies on at a label.                                    *)

RoleNeeds(p, label) ==
  /\ label \in ReservePCs \union OrderPCs \union T5PCs => EventOf(p) \in Txs
  /\ label \in T5PCs => p \in Txs
  /\ label \in HandlerPCs => p \in Handlers /\ EventOf(p) \in Events

ReserveNeeds(p, label) ==
  /\ label = "casReserved" => hold[TxOf(p)] # "NONE"
  /\ label \in Creating => txState[TxOf(p)] \notin Early

OrderNeeds(p, label) ==
  /\ label \in {"create", "record"} => order[TxOf(p)] \in {"INTENT", "CREATED"}
  /\ label = "create" /\ ~SlowRequests => order[TxOf(p)] = "INTENT"
  /\ label = "ambiguous" => ~SlowRequests /\ order[TxOf(p)] = "INTENT"
  /\ label \in {"t4b", "t6"} => handle[TxOf(p)]

CaptureNeeds(p, label) ==
  /\ label \in Creating /\ p \in Txs =>
       txState[TxOf(p)] \in Ordering \/ Accounted(TxOf(p))
  /\ label = "t6" /\ p \in Txs => txState[TxOf(p)] # "ORDER_CREATING"
  /\ label \in {"late", "casGrace", "casRefund", "mark"} /\ EventOf(p)[2] \in CaptureKinds
       => Accounted(TxOf(p))
  /\ label = "casFailed" => EventOf(p)[2] = "failed"
  /\ label \in {"casMismatch", "release"} => EventOf(p)[2] \notin CaptureKinds

Needs(p, label) ==
  /\ RoleNeeds(p, label)
  /\ ReserveNeeds(p, label)
  /\ OneCreator => OrderNeeds(p, label)
  /\ AnswersFirst => CaptureNeeds(p, label)

PlacesOK == \A p \in Procs : Needs(p, pc[p])

----------------------------------------------------------------------------
(* What the rows agree on.                                                 *)

\* W3 selects rows past the claim.
W3Rows == stage = "w3" => \A t \in todo \intersect Txs : txState[t] \notin Early

\* A row the sweep selected or works on is in no request's hands.
RowsAtRest ==
  ~SlowRequests =>
    \A t \in Txs : t \in todo \/ t = cur => pc[t] = "idle" /\ txState[t] # "ABSENT"

\* A handle was recorded, and shown, only with the status CREATED.
OrdersOK ==
  \A t \in Txs :
    /\ handle[t] <=> order[t] = "CREATED"
    /\ t \in told => handle[t]
    /\ order[t] = "AMBIGUOUS" => ~SlowRequests

\* Whoever was asked to pay has a row that still waits, or accounts for the payment.
CapturesOK ==
  \A t \in Txs :
    /\ t \in told => Answered(t)
    /\ \A k \in EventKinds :
         /\ event[<<t, k>>] # "absent" => t \in told
         /\ event[<<t, k>>] = "PROCESSED" /\ k \in CaptureKinds => Accounted(t)

OrderInv ==
  /\ PlacesOK /\ W3Rows /\ RowsAtRest
  /\ OrderedWasReserved /\ ClaimExclusive
  /\ OneCreator => OrdersOK
  /\ AnswersFirst => CapturesOK

----------------------------------------------------------------------------
(* What a step may do to what others rely on.                              *)

HoldsKept == \A t \in Txs : hold[t] # "NONE" => hold'[t] # "NONE"

\* An approved row goes on only to be given up, or with its holds taken.
LeavesHeld ==
  \A t \in Txs : txState[t] = "PROPOSAL_APPROVED" =>
    txState'[t] \in {"PROPOSAL_APPROVED", "RELEASED"} \/ hold[t] # "NONE"

\* Only p changes the order of a transaction, and only its own.
OrdersFrame(p) ==
  \A t \in Txs :
    \/ order'[t] = order[t] /\ handle'[t] = handle[t]
    \/ /\ pc[p] \in OrderPCs /\ t = TxOf(p)
       /\ handle[t] => handle'[t]
       /\ order[t] \in {"INTENT", "CREATED"} /\ pc[p] # "ambiguous"
            => order'[t] \in {"INTENT", "CREATED"}

\* A row fails by a failed attempt or by its own settle worker's T5.
LossFrame(p) ==
  AnswersFirst =>
    \A t \in Txs : txState'[t] = "FAILED" =>
      \/ txState[t] = "FAILED"
      \/ txState[t] = "ORDER_CREATING" /\ p = t /\ pc[t] = "t5fail"
      \/ Sent(t, {"failed"})

Frame(p) == LeavesHeld /\ EventsKept /\ OrdersFrame(p) /\ LossFrame(p)

\* The step at hand, from a state of the invariants proved so far.
Step == SettlementInv /\ LedgerTypeOK /\ OrderInv /\ TxMoves /\ HoldsKept

LEMMA HoldsAreKept ==
  ASSUME LedgerTypeOK, LedgerStep
  PROVE  HoldsKept
<1> USE DEF LedgerTypeOK, HoldsKept
<1>1. ASSUME NEW t \in Txs, NEW status \in HoldStatus \ {"NONE"}, SetHold(t, status)
      PROVE  HoldsKept
  BY <1>1 DEF SetHold
<1>2. CASE UNCHANGED ledgerVars
  BY <1>2 DEF ledgerVars
<1>3. CASE ReleaseExpiredHolds
  BY <1>3 DEF ReleaseExpiredHolds
<1>4. ASSUME NEW t \in Txs,
             \/ ReserveCart(t) \/ ReserveCartCounted(t) \/ ReReserveExpiredHolds(t)
             \/ ReleaseHolds(t) \/ CommitHolds(t)
      PROVE  HoldsKept
  BY <1>1, <1>4 DEF ReserveCart, ReserveCartCounted, HoldCart, ReReserveExpiredHolds,
                    ReleaseHolds, CommitHolds, HoldStatus
<1>5. ASSUME NEW t \in Txs, HoldLapses(t) PROVE HoldsKept
  BY <1>5 DEF HoldLapses
<1> QED BY <1>2, <1>3, <1>4, <1>5 DEF LedgerStep, LedgerNext

\* The authority table has no way back.
LEMMA StatesForward ==
  ASSUME TxMoves, NEW t \in Txs
  PROVE  /\ txState[t] # "ABSENT" => txState'[t] # "ABSENT"
         /\ txState[t] \notin Early => txState'[t] \notin Early
         /\ txState[t] \in Recorded => txState'[t] \in Recorded
         /\ txState[t] \in Asked => txState'[t] \in Asked \union {"EXPIRED", "FAILED"}
         /\ txState[t] \in Ordering => txState'[t] \in Ordering \union {"EXPIRED", "FAILED"}
         /\ txState[t] # "ORDER_CREATING" /\ txState[t] \in Ordering
              => txState'[t] # "ORDER_CREATING"
BY DEF TxMoves, IsLegalTransition, Successors, Early, Recorded, Asked, Ordering

\* A payment that was accounted for stays so.
LEMMA AccountedStays ==
  ASSUME TxMoves, EventsKept, NEW t \in Txs, Accounted(t)
  PROVE  Accounted(t)'
<1>1. txState[t] \in Recorded => txState'[t] \in Recorded
  BY StatesForward
<1>2. txState[t] = "EXPIRED" => txState'[t] \in Recorded \union {"EXPIRED"}
  BY DEF TxMoves, IsLegalTransition, Successors, Recorded
<1>3. ASSUME txState[t] = "FAILED", Sent(t, {"failed"})
      PROVE  txState'[t] = "FAILED" /\ Sent(t, {"failed"})'
  <2>1. txState'[t] = "FAILED"
    BY <1>3 DEF TxMoves, IsLegalTransition, Successors
  <2>2. "failed" \in EventKinds /\ event[<<t, "failed">>] # "absent"
    BY <1>3 DEF Sent
  <2>3. <<t, "failed">> \in Events
    BY <2>2 DEF Events
  <2>4. event'[<<t, "failed">>] # "absent"
    BY <2>2, <2>3 DEF EventsKept
  <2> QED BY <2>1, <2>2, <2>4 DEF Sent
<1> QED BY <1>1, <1>2, <1>3 DEF Accounted

\* A row past the claim stays past it, or accounts for a payment, unless its own
\* settle worker gives it up.
LEMMA OrderingStays ==
  ASSUME TxMoves, EventsKept, AnswersFirst, NEW p, LossFrame(p), NEW t \in Txs,
         txState[t] \in Ordering \/ Accounted(t), p # t \/ pc[t] # "t5fail"
  PROVE  txState'[t] \in Ordering \/ Accounted(t)'
<1>1. CASE Accounted(t)
  BY <1>1, AccountedStays
<1>2. CASE txState[t] \in Ordering
  <2>1. txState'[t] \in Ordering \union {"EXPIRED", "FAILED"}
    BY <1>2, StatesForward
  <2>2. txState'[t] = "FAILED" => Sent(t, {"failed"})
    BY <1>2 DEF LossFrame, Ordering, Asked, Recorded
  <2>3. Sent(t, {"failed"}) => Sent(t, {"failed"})'
    BY DEF Sent, EventsKept, Events
  <2> QED BY <2>1, <2>2, <2>3 DEF Accounted
<1> QED BY <1>1, <1>2

\* The row of a buyer who was asked to pay still waits, or accounts for it.
LEMMA AnsweredStays ==
  ASSUME TxMoves, EventsKept, AnswersFirst, NEW p, LossFrame(p), NEW t \in Txs, Answered(t)
  PROVE  Answered(t)'
<1>1. CASE Accounted(t)
  BY <1>1, AccountedStays DEF Answered
<1>2. CASE txState[t] = "AWAITING_PAYMENT"
  <2>1. txState'[t] \in Asked \union {"EXPIRED", "FAILED"}
    BY <1>2, StatesForward DEF Asked
  <2>2. txState'[t] = "FAILED" => Sent(t, {"failed"})
    BY <1>2 DEF LossFrame
  <2>3. Sent(t, {"failed"}) => Sent(t, {"failed"})'
    BY DEF Sent, EventsKept, Events
  <2> QED BY <2>1, <2>2, <2>3 DEF Answered, Accounted, Asked
<1> QED BY <1>1, <1>2 DEF Answered

\* Two creators of one transaction: the sweep and the settle worker, and the
\* sweep came upon a request that was still running.
LEMMA CreatorsMeet ==
  ASSUME OrderInv, NEW p \in Procs, NEW q \in Procs, p # q, TxOf(p) = TxOf(q),
         pc[p] \in OrderPCs, pc[q] \in OrderPCs
  PROVE  SlowRequests
<1>1. EventOf(p) \in Txs /\ EventOf(q) \in Txs
  BY DEF OrderInv, PlacesOK, Needs, RoleNeeds
<1>2. EventOf(p) = EventOf(q)
  BY <1>1 DEF TxOf
<1>3. p = Sweeper \/ q = Sweeper
  BY <1>2 DEF EventOf
<1>4. PICK t \in Txs : t = cur /\ pc[t] \in OrderPCs
  BY <1>1, <1>2, <1>3 DEF EventOf
<1>5. pc[t] # "idle"
  BY <1>4 DEF OrderPCs
<1> QED BY <1>4, <1>5 DEF OrderInv, RowsAtRest

----------------------------------------------------------------------------
(* A step of one process.                                                  *)

\* Another process, or a sweep that touches no order, still has what it relies on.
LEMMA OthersKeep ==
  ASSUME Step, NEW p \in Procs, Frame(p), NEW q \in Procs,
         q # p \/ (p = Sweeper /\ UNCHANGED <<order, handle>>),
         pc'[q] = pc[q], EventOf(q)' = EventOf(q)
  PROVE  Needs(q, pc[q])'
<1>1. Needs(q, pc[q]) /\ TxOf(q)' = TxOf(q)
  BY DEF Step, OrderInv, PlacesOK, TxOf
<1>2. pc[q] = "idle" \/ TxOf(q) \in Txs
  BY TxOfBusy DEF At, Step, SettlementInv
<1>3. RoleNeeds(q, pc[q])'
  BY <1>1 DEF Needs, RoleNeeds
<1>4. ReserveNeeds(q, pc[q])'
  <2>1. CASE pc[q] = "idle"
    BY <2>1 DEF ReserveNeeds, OrderPCs, Creating
  <2>2. CASE TxOf(q) \in Txs
    BY <1>1, <2>2, StatesForward DEF Needs, ReserveNeeds, Step, HoldsKept
  <2> QED BY <1>2, <2>1, <2>2
<1>5. ASSUME OneCreator PROVE OrderNeeds(q, pc[q])'
  <2>1. CASE pc[q] \in OrderPCs
    <3>1. TxOf(q) \in Txs
      BY <1>2, <2>1 DEF OrderPCs
    <3>2. q # p /\ TxOf(q) = TxOf(p) /\ pc[p] \in OrderPCs => SlowRequests
      BY <2>1, CreatorsMeet DEF Step
    <3>3. Needs(p, pc[p])
      BY DEF Step, OrderInv, PlacesOK
    <3>4. /\ pc[q] = "ambiguous" => ~SlowRequests
          /\ pc[p] = "ambiguous" => ~SlowRequests
      BY <1>1, <1>5, <3>3 DEF Needs, OrderNeeds
    <3>5. OrderNeeds(q, pc[q])
      BY <1>1, <1>5 DEF Needs
    <3> QED BY <1>1, <2>1, <3>1, <3>2, <3>4, <3>5 DEF Frame, OrdersFrame, OrderNeeds
  <2>2. CASE pc[q] \notin OrderPCs
    BY <2>2 DEF OrderNeeds, OrderPCs
  <2> QED BY <2>1, <2>2
<1>6. ASSUME AnswersFirst PROVE CaptureNeeds(q, pc[q])'
  <2>1. CASE pc[q] = "idle"
    BY <2>1 DEF CaptureNeeds, Creating, OrderPCs, HandlerPCs
  <2>2. CASE TxOf(q) \in Txs
    <3>1. CaptureNeeds(q, pc[q])
      BY <1>1, <1>6 DEF Needs
    <3>2. q \in Txs => TxOf(q) = q
      BY ProcTypes DEF TxOf, EventOf
    <3> PICK t \in Txs : t = TxOf(q) /\ t = TxOf(q)'
      BY <1>1, <2>2
    <3>3. ASSUME q \in Txs, pc[q] \in Creating, txState[t] \in Ordering \/ Accounted(t)
          PROVE  txState'[t] \in Ordering \/ Accounted(t)'
      <4>1. p # t \/ pc[t] # "t5fail"
        BY <3>2, <3>3 DEF Creating, OrderPCs
      <4> QED BY <1>6, <3>3, <4>1, OrderingStays DEF Frame, Step
    <3>4. Accounted(t) => Accounted(t)'
      BY AccountedStays DEF Frame, Step
    <3>5. txState[t] # "ORDER_CREATING" /\ (txState[t] \in Ordering \/ Accounted(t))
            => txState'[t] # "ORDER_CREATING"
      <4>1. CASE Accounted(t)
        BY <3>4, <4>1 DEF Accounted, Recorded
      <4>2. CASE txState[t] \in Ordering
        BY <4>2, StatesForward DEF Step
      <4> QED BY <4>1, <4>2
    <3> HIDE DEF Accounted
    <3> QED BY <1>1, <3>1, <3>3, <3>4, <3>5 DEF CaptureNeeds, Creating, OrderPCs
  <2> QED BY <1>2, <2>1, <2>2
<1> QED BY <1>3, <1>4, <1>5, <1>6 DEF Needs

\* What concerns the processes, the sweep's rows and the states.
ControlKeeps ==
  PlacesOK' /\ W3Rows' /\ RowsAtRest' /\ OrderedWasReserved' /\ ClaimExclusive'

LEMMA OrderedKept ==
  ASSUME Step, LeavesHeld
  PROVE  OrderedWasReserved'
<1> SUFFICES ASSUME NEW t \in Txs, txState'[t] \in TxStates \ {"PROPOSAL_APPROVED", "RELEASED"}
             PROVE  hold'[t] # "NONE"
  BY DEF OrderedWasReserved
<1>1. CASE txState[t] \in TxStates \ {"PROPOSAL_APPROVED", "RELEASED"}
  BY <1>1 DEF Step, OrderInv, OrderedWasReserved, HoldsKept
<1>2. CASE txState[t] = "PROPOSAL_APPROVED"
  BY <1>2 DEF LeavesHeld, Step, HoldsKept
<1>3. txState[t] # "RELEASED" /\ txState[t] # "ABSENT"
  BY DEF Step, TxMoves, IsLegalTransition, Successors, TxStates
<1> QED BY <1>1, <1>2, <1>3 DEF Step, SettlementInv, DataOK

\* The claim is exclusive as long as a process comes past it by winning it.
LEMMA ClaimKept ==
  ASSUME Step, NEW p \in Procs, NEW label \in PCs,
         pc' = [pc EXCEPT ![p] = label],
         \/ Goto(p, label) \/ Return(p) \/ Throw(p)
         \/ \E rung, row : Take(rung, row, label) /\ p = Sweeper,
         label \in Creating =>
           \/ pc[p] \in Creating
           \/ pc[p] = "claim" /\ txState[TxOf(p)] = "STOCK_RESERVED"
           \/ stage' # "w2"
  PROVE  ClaimExclusive'
<1> SUFFICES ASSUME NEW t \in Txs, pc'[t] \in Creating, stage' = "w2", cur' = t,
                    pc'[Sweeper] \in Creating
             PROVE  FALSE
  BY DEF ClaimExclusive, Creating
<1> USE DEF Step, OrderInv, SettlementInv, ControlOK
<1>1. t \in Procs /\ Sweeper \in Procs /\ t # Sweeper
  BY ProcTypes
<1>2. t \notin Events /\ t # Nobody
  BY ProcAssumption
<1>3. "idle" \notin Creating
  BY DEF Creating, OrderPCs
<1>4. label \in Creating
  <2>1. p = t \/ p = Sweeper \/ (pc[t] \in Creating /\ pc[Sweeper] \in Creating)
    BY <1>1
  <2>2. p # t /\ p # Sweeper => UNCHANGED <<stage, cur>>
    BY <1>1 DEF Goto, Return, Throw, sweepVars
  <2> QED BY <1>1, <2>1, <2>2 DEF ClaimExclusive, Creating
<1>5. Goto(p, label) \/ \E rung, row : Take(rung, row, label) /\ p = Sweeper
  BY <1>3, <1>4, <1>1 DEF Return, Throw
<1>6. CASE Goto(p, label)
  <2>1. stage = "w2" /\ cur = t
    BY <1>6 DEF Goto, sweepVars
  <2>2. TxOf(t) = t /\ TxOf(Sweeper) = t
    BY <1>1, <2>1 DEF TxOf, EventOf
  <2>3. CASE pc[p] \in Creating
    BY <1>1, <2>1, <2>3 DEF ClaimExclusive, Creating
  <2>4. CASE pc[p] = "claim" /\ txState[TxOf(p)] = "STOCK_RESERVED"
    <3>1. CASE p = t
      <4>1. pc[Sweeper] \in Creating
        BY <1>1, <3>1
      <4>2. txState[TxOf(Sweeper)] \notin Early
        BY <1>1, <4>1 DEF PlacesOK, Needs, ReserveNeeds
      <4> QED BY <2>2, <2>4, <3>1, <4>2 DEF Early
    <3>2. CASE p = Sweeper
      <4>1. pc[t] \in Creating
        BY <1>1, <3>2
      <4>2. txState[TxOf(t)] \notin Early
        BY <1>1, <4>1 DEF PlacesOK, Needs, ReserveNeeds
      <4> QED BY <2>2, <2>4, <3>2, <4>2 DEF Early
    <3>3. CASE p # t /\ p # Sweeper
      BY <1>1, <2>1, <3>3 DEF ClaimExclusive, Creating
    <3> QED BY <3>1, <3>2, <3>3
  <2> QED BY <1>4, <2>3, <2>4
<1>7. CASE \E rung, row : Take(rung, row, label) /\ p = Sweeper
  <2>1. pc[Sweeper] = "idle" /\ stage' = stage
    BY <1>7 DEF Take, At
  <2> QED BY <1>3, <1>4, <1>7, <2>1 DEF Creating, OrderPCs
<1> QED BY <1>5, <1>6, <1>7

\* The sweep's rows rest while a process goes on that had not been resting.
LEMMA RestKept ==
  ASSUME Step, NEW p \in Procs, NEW label, pc' = [pc EXCEPT ![p] = label],
         pc[p] # "idle" \/ p \notin Txs \/ txState[p] = "ABSENT",
         \A t \in Txs : t \in todo' \/ t = cur' => t \in todo \/ t = cur
  PROVE  RowsAtRest'
<1> SUFFICES ASSUME ~SlowRequests, NEW t \in Txs, t \in todo' \/ t = cur'
             PROVE  pc'[t] = "idle" /\ txState'[t] # "ABSENT"
  BY DEF RowsAtRest
<1>1. pc[t] = "idle" /\ txState[t] # "ABSENT"
  BY DEF Step, OrderInv, RowsAtRest
<1>2. t \in Procs /\ t # p
  BY <1>1, ProcTypes
<1> QED BY <1>1, <1>2, StatesForward DEF Step, SettlementInv, ControlOK

LEMMA W3RowsKept ==
  ASSUME Step, stage' = "w3" => stage = "w3" /\ todo' \subseteq todo
  PROVE  W3Rows'
BY StatesForward DEF Step, OrderInv, W3Rows

\* A process goes to a label where it has what it needs.
LEMMA Went ==
  ASSUME Step, NEW p \in Procs, NEW label \in PCs, Goto(p, label), Frame(p), Needs(p, label)',
         pc[p] # "idle" \/ p \notin Txs \/ txState[p] = "ABSENT",
         label \in Creating =>
           \/ pc[p] \in Creating
           \/ pc[p] = "claim" /\ txState[TxOf(p)] = "STOCK_RESERVED"
  PROVE  ControlKeeps
<1>1. pc' = [pc EXCEPT ![p] = label] /\ UNCHANGED <<stage, todo, cur>>
  BY DEF Goto, sweepVars
<1>2. PlacesOK'
  <2> SUFFICES ASSUME NEW q \in Procs PROVE Needs(q, pc[q])'
    BY DEF PlacesOK
  <2>1. CASE q = p
    BY <1>1, <2>1 DEF Step, SettlementInv, ControlOK
  <2>2. CASE q # p
    <3>1. pc'[q] = pc[q] /\ EventOf(q)' = EventOf(q)
      BY <1>1, <2>2 DEF Step, SettlementInv, ControlOK, EventOf
    <3> QED BY <2>2, <3>1, OthersKeep
  <2> QED BY <2>1, <2>2
<1>3. OrderedWasReserved'
  BY OrderedKept DEF Frame
<1>4. ClaimExclusive'
  BY <1>1, ClaimKept
<1>5. RowsAtRest' /\ W3Rows'
  BY <1>1, RestKept, W3RowsKept
<1> QED BY <1>2, <1>3, <1>4, <1>5 DEF ControlKeeps

\* A process returns or throws.
LEMMA Left ==
  ASSUME Step, NEW p \in Procs, Return(p) \/ Throw(p), Frame(p), pc[p] # "idle"
  PROVE  ControlKeeps
<1>1. /\ pc' = [pc EXCEPT ![p] = "idle"] /\ "idle" \in PCs \ Creating
      /\ p # Sweeper => UNCHANGED cur
      /\ stage' = stage \/ stage' = "begin"
      /\ todo' = todo \/ todo' = {}
      /\ cur' = cur \/ cur' = Nobody
  BY DEF Return, Throw, NewTick, sweepVars, PCs, Creating, OrderPCs
<1>2. PlacesOK'
  <2> SUFFICES ASSUME NEW q \in Procs PROVE Needs(q, pc[q])'
    BY DEF PlacesOK
  <2>1. CASE q = p
    <3>1. pc'[q] = "idle"
      BY <1>1, <2>1 DEF Step, SettlementInv, ControlOK
    <3> QED BY <3>1 DEF Needs, RoleNeeds, ReserveNeeds, OrderNeeds, CaptureNeeds, Creating,
                        ReservePCs, OrderPCs, T5PCs, HandlerPCs
  <2>2. CASE q # p
    <3>1. pc'[q] = pc[q]
      BY <1>1, <2>2 DEF Step, SettlementInv, ControlOK
    <3>2. CASE p = Sweeper
      <4>1. EventOf(q)' = EventOf(q)
        BY <2>2, <3>2 DEF EventOf
      <4> QED BY <2>2, <3>1, <4>1, OthersKeep
    <3>3. CASE p # Sweeper
      <4>1. EventOf(q)' = EventOf(q)
        BY <1>1, <3>3 DEF EventOf
      <4> QED BY <2>2, <3>1, <4>1, OthersKeep
    <3> QED BY <3>2, <3>3
  <2> QED BY <2>1, <2>2
<1>3. OrderedWasReserved'
  BY OrderedKept DEF Frame
<1>4. ClaimExclusive'
  BY <1>1, ClaimKept
<1>5. RowsAtRest' /\ W3Rows'
  BY <1>1, ProcAssumption, RestKept, W3RowsKept
<1> QED BY <1>2, <1>3, <1>4, <1>5 DEF ControlKeeps

\* A failed ensureOrder leaves its caller where the caller's own code takes over.
LEMMA Failed ==
  ASSUME Step, NEW p \in Procs, OrderFails(p), Frame(p), pc[p] \in OrderPCs
  PROVE  ControlKeeps
<1>1. pc[p] # "idle"
  BY DEF OrderPCs
<1>2. CASE Return(p) \/ Throw(p)
  BY <1>1, <1>2, Left
<1>3. CASE p \in Txs /\ Goto(p, "t5release")
  <2>1. EventOf(p)' \in Txs
    BY <1>3 DEF EventOf, Step, OrderInv, PlacesOK, Needs, RoleNeeds, Goto, sweepVars
  <2>2. Needs(p, "t5release")'
    BY <1>3, <2>1 DEF Needs, RoleNeeds, ReserveNeeds, OrderNeeds, CaptureNeeds, Creating,
                      OrderPCs, HandlerPCs
  <2>3. "t5release" \in PCs \ Creating
    BY DEF PCs, T5PCs, Creating, OrderPCs
  <2> QED BY <1>1, <1>3, <2>2, <2>3, Went
<1> QED BY <1>2, <1>3 DEF OrderFails

----------------------------------------------------------------------------
(* What a step leaves alone.                                               *)

Result == ControlKeeps /\ (OneCreator => OrdersOK') /\ (AnswersFirst => CapturesOK')

\* A step that writes no event forgets none.
LEMMA EventsStay ==
  ASSUME UNCHANGED event
  PROVE  EventsKept
BY DEF EventsKept

\* The rows of orders and events stay as they are.
LEMMA Calm ==
  ASSUME Step, NEW p, UNCHANGED <<orderVars, event>>, LossFrame(p)
  PROVE  (OneCreator => OrdersOK') /\ (AnswersFirst => CapturesOK')
<1>1. OneCreator => OrdersOK'
  BY DEF Step, OrderInv, OrdersOK, orderVars
<1>2. ASSUME AnswersFirst PROVE CapturesOK'
  <2>1. CapturesOK /\ TxMoves /\ EventsKept
    BY <1>2, EventsStay DEF Step, OrderInv
  <2>2. \A t \in Txs : Accounted(t) => Accounted(t)'
    BY <2>1, AccountedStays
  <2>3. \A t \in Txs : Answered(t) => Answered(t)'
    BY <1>2, <2>1, AnsweredStays
  <2> QED BY <2>1, <2>2, <2>3 DEF CapturesOK, orderVars
<1> QED BY <1>1, <1>2

LEMMA SameStates ==
  ASSUME Step, NEW p, UNCHANGED txState
  PROVE  LeavesHeld /\ LossFrame(p)
BY DEF LeavesHeld, LossFrame

LEMMA SameCaptures ==
  ASSUME CapturesOK, UNCHANGED <<txState, told, event>>
  PROVE  CapturesOK'
BY DEF CapturesOK, Answered, Accounted, Sent

\* Reports come for payments of buyers who were asked, and are handled once the
\* payment is accounted for.
LEMMA CapturesKept ==
  ASSUME Step, AnswersFirst, UNCHANGED <<txState, told>>, EventsKept,
         \A t \in Txs, k \in EventKinds :
           /\ event'[<<t, k>>] # "absent" => t \in told
           /\ event'[<<t, k>>] = "PROCESSED" /\ k \in CaptureKinds => Accounted(t)
  PROVE  CapturesOK'
<1>1. CapturesOK /\ TxMoves
  BY DEF Step, OrderInv
<1>2. \A t \in Txs : Accounted(t) => Accounted(t)'
  BY <1>1, AccountedStays
<1>3. \A t \in Txs : Answered(t) => Answered(t)'
  BY <1>2 DEF Answered
<1> QED BY <1>1, <1>2, <1>3 DEF CapturesOK

LEMMA SameOrders ==
  ASSUME NEW p, UNCHANGED orderVars
  PROVE  OrdersFrame(p)
BY DEF OrdersFrame, orderVars

\* A compare-and-set that fails the row only after a failed attempt, and leaves
\* PROPOSAL_APPROVED only with holds or to give up.
LEMMA CasFrame ==
  ASSUME Step, NEW p, NEW t \in Txs, NEW from, NEW to, CasTransition(t, from, to),
         to # "FAILED" \/ (AnswersFirst => Sent(t, {"failed"})),
         from # "PROPOSAL_APPROVED" \/ to \in {"RELEASED", "MANUAL_REFUND_REQUIRED"}
           \/ hold[t] # "NONE"
  PROVE  LeavesHeld /\ LossFrame(p)
<1>1. txState \in [Txs -> TxStates \union {"ABSENT"}]
  BY DEF Step, SettlementInv, DataOK
<1>2. CASE Advances(t, from, to)
  <2>1. txState' = [txState EXCEPT ![t] = to] /\ txState[t] = from
    BY <1>2 DEF CasTransition, Advances
  <2>2. ~(from = "PROPOSAL_APPROVED" /\ to = "MANUAL_REFUND_REQUIRED")
    BY <1>2 DEF Advances, IsLegalTransition, Successors
  <2> QED BY <1>1, <2>1, <2>2 DEF LeavesHeld, LossFrame
<1>3. CASE ~Advances(t, from, to)
  BY <1>3 DEF CasTransition, LeavesHeld, LossFrame
<1> QED BY <1>2, <1>3

LEMMA CasCalm ==
  ASSUME Step, NEW p, NEW t \in Txs, NEW from, NEW to, CasOnly(t, from, to),
         to # "FAILED",
         from # "PROPOSAL_APPROVED" \/ to = "RELEASED" \/ hold[t] # "NONE"
  PROVE  Frame(p) /\ (OneCreator => OrdersOK') /\ (AnswersFirst => CapturesOK')
<1>1. LeavesHeld /\ LossFrame(p)
  BY CasFrame DEF CasOnly
<1>2. EventsKept
  BY EventsStay DEF CasOnly
<1>3. OrdersFrame(p)
  BY SameOrders DEF CasOnly
<1> QED BY <1>1, <1>2, <1>3, Calm DEF CasOnly, Frame

\* A step that writes no state, order or event, and no clock.
LEMMA RowsCalm ==
  ASSUME Step, NEW p, UNCHANGED <<txState, orderVars, event>>
  PROVE  Frame(p) /\ (OneCreator => OrdersOK') /\ (AnswersFirst => CapturesOK')
BY SameStates, SameOrders, EventsStay, Calm DEF Frame

\* A process that goes on to a label works on the same row.
LEMMA SameRow ==
  ASSUME NEW p, NEW label, Goto(p, label)
  PROVE  EventOf(p)' = EventOf(p) /\ TxOf(p)' = TxOf(p)
BY DEF Goto, sweepVars, EventOf, TxOf

\* What a busy process relies on.
LEMMA Busy ==
  ASSUME Step, NEW p \in Procs, pc[p] # "idle"
  PROVE  TxOf(p) \in Txs /\ Needs(p, pc[p])
BY TxOfBusy DEF Step, SettlementInv, OrderInv, PlacesOK, At

----------------------------------------------------------------------------
(* settle() and the reserve steps.                                         *)

LEMMA SettleOrdered ==
  ASSUME Step, NEW t \in Txs, SettleStep(t)
  PROVE  Result
<1>1. t \in Procs /\ EventOf(t) = t /\ TxOf(t) = t
  BY ProcTypes DEF EventOf, TxOf
<1> DEFINE Plain(label) == label \in ReservePCs \union T5PCs /\ label # "casReserved"
<1>2. ASSUME NEW label, Plain(label), Goto(t, label), Frame(t),
             pc[t] # "idle" \/ txState[t] = "ABSENT"
      PROVE  ControlKeeps
  <2>1. EventOf(t)' = t /\ label \in PCs \ Creating
    BY <1>1, <1>2, SameRow DEF PCs, ReservePCs, T5PCs, Creating, OrderPCs
  <2>2. Needs(t, label)'
    BY <1>2, <2>1 DEF Needs, RoleNeeds, ReserveNeeds, OrderNeeds, CaptureNeeds, ReservePCs,
                      T5PCs, HandlerPCs
  <2> QED BY <1>1, <1>2, <2>1, <2>2, Went
<1>3. CASE SettleInsert(t)
  <2>1. LeavesHeld /\ LossFrame(t)
    BY <1>3 DEF SettleInsert, LeavesHeld, LossFrame, Step, SettlementInv, DataOK
  <2>2. EventsKept
    BY <1>3, EventsStay DEF SettleInsert
  <2>3. OrdersFrame(t) /\ UNCHANGED <<orderVars, event>>
    BY <1>3, SameOrders DEF SettleInsert
  <2>4. Frame(t)
    BY <2>1, <2>2, <2>3 DEF Frame
  <2>5. ControlKeeps
    BY <1>2, <1>3, <2>4 DEF SettleInsert, ReservePCs
  <2> QED BY <2>1, <2>2, <2>3, <2>5, Calm DEF Result
<1>4. CASE SettleReserve(t)
  <2>1. pc[t] = "reserve" /\ UNCHANGED <<txState, orderVars, event>>
    BY <1>4 DEF SettleReserve, At
  <2>2. ReserveCart(t) \/ ReserveCartCounted(t) \/ UNCHANGED ledgerVars
    BY <1>4 DEF SettleReserve, SettleReserves
  <2>4. Frame(t) /\ (OneCreator => OrdersOK') /\ (AnswersFirst => CapturesOK')
    BY <2>1, RowsCalm
  <2>5. CASE SettleReserves(t) /\ Goto(t, "casReserved")
    <3>1. hold'[t] = "ACTIVE"
      BY <2>5 DEF SettleReserves, ReserveCart, ReserveCartCounted, HoldCart, SetHold, Step,
                  LedgerTypeOK
    <3>2. EventOf(t)' = t /\ TxOf(t)' = t
      BY <1>1, <2>5, SameRow
    <3>3. Needs(t, "casReserved")'
      BY <3>1, <3>2 DEF Needs, RoleNeeds, ReserveNeeds, OrderNeeds, CaptureNeeds, Creating,
                        OrderPCs, T5PCs, HandlerPCs
    <3>4. "casReserved" \in PCs \ Creating
      BY DEF PCs, ReservePCs, Creating, OrderPCs
    <3>5. ControlKeeps
      BY <1>1, <2>1, <2>4, <2>5, <3>3, <3>4, Went
    <3> QED BY <2>4, <3>5 DEF Result
  <2>6. CASE Goto(t, "casReleased")
    BY <1>2, <2>1, <2>4, <2>6 DEF Result, ReservePCs
  <2>7. CASE Throw(t)
    BY <1>1, <2>1, <2>4, <2>7, Left DEF Result
  <2> QED BY <1>4, <2>5, <2>6, <2>7 DEF SettleReserve
<1>5. CASE T5Release(t)
  <2>1. pc[t] = "t5release" /\ UNCHANGED <<txState, orderVars, event>>
    BY <1>5 DEF T5Release, At
  <2>2. ReleaseHolds(t) \/ UNCHANGED ledgerVars
    BY <1>5 DEF T5Release, ReleaseThen
  <2>4. Frame(t) /\ (OneCreator => OrdersOK') /\ (AnswersFirst => CapturesOK')
    BY <2>1, RowsCalm
  <2>5. Goto(t, "t5fail") \/ Throw(t)
    BY <1>5 DEF T5Release, ReleaseThen
  <2>6. ControlKeeps
    BY <1>1, <1>2, <2>1, <2>4, <2>5, Left DEF T5PCs
  <2> QED BY <2>4, <2>6 DEF Result
<1>6. CASE T5Fail(t)
  <2>1. pc[t] = "t5fail" /\ CasOnly(t, "ORDER_CREATING", "FAILED")
    BY <1>6 DEF T5Fail, At
  <2>2. LeavesHeld /\ LossFrame(t)
    BY <2>1 DEF CasOnly, CasTransition, Advances, LeavesHeld, LossFrame, Step, SettlementInv,
                DataOK
  <2>3. EventsKept /\ OrdersFrame(t) /\ UNCHANGED <<orderVars, event>>
    BY <2>1, EventsStay, SameOrders DEF CasOnly
  <2>4. ControlKeeps
    BY <1>1, <1>6, <2>1, <2>2, <2>3, Left DEF T5Fail, Frame
  <2> QED BY <2>2, <2>3, <2>4, Calm DEF Result
<1> QED BY <1>3, <1>4, <1>5, <1>6 DEF SettleStep

LEMMA ReserveOrdered ==
  ASSUME Step, NEW p \in Procs, ReserveStep(p)
  PROVE  Result
<1>1. pc[p] \in {"casReserved", "casReleased"}
  BY DEF ReserveStep, CasReserved, CasReleased, At
<1>2. TxOf(p) \in Txs /\ Needs(p, pc[p])
  BY <1>1, Busy
<1>3. CASE CasReserved(p)
  <2>1. CasOnly(TxOf(p), "PROPOSAL_APPROVED", "STOCK_RESERVED") /\ hold[TxOf(p)] # "NONE"
    BY <1>2, <1>3 DEF CasReserved, At, Needs, ReserveNeeds
  <2>2. Frame(p) /\ (OneCreator => OrdersOK') /\ (AnswersFirst => CapturesOK')
    BY <1>2, <2>1, CasCalm
  <2>3. CASE Goto(p, "claim")
    <3>1. EventOf(p)' \in Txs
      BY <1>1, <1>2, <2>3, SameRow DEF Needs, RoleNeeds, ReservePCs
    <3>2. Needs(p, "claim")'
      BY <3>1 DEF Needs, RoleNeeds, ReserveNeeds, OrderNeeds, CaptureNeeds, Creating,
                  OrderPCs, T5PCs, HandlerPCs
    <3>3. "claim" \in PCs \ Creating
      BY DEF PCs, OrderPCs, Creating
    <3> QED BY <1>1, <2>2, <2>3, <3>2, <3>3, Went DEF Result
  <2>4. CASE Return(p)
    BY <1>1, <2>2, <2>4, Left DEF Result
  <2> QED BY <1>3, <2>3, <2>4 DEF CasReserved
<1>4. CASE CasReleased(p)
  <2>1. CasOnly(TxOf(p), "PROPOSAL_APPROVED", "RELEASED") /\ Return(p)
    BY <1>4 DEF CasReleased
  <2>2. Frame(p) /\ (OneCreator => OrdersOK') /\ (AnswersFirst => CapturesOK')
    BY <1>2, <2>1, CasCalm
  <2> QED BY <1>1, <2>1, <2>2, Left DEF Result
<1> QED BY <1>3, <1>4 DEF ReserveStep

----------------------------------------------------------------------------
(* ensureOrder.                                                            *)

\* A creator goes on to a later step of ensureOrder.
LEMMA CreatorGoesOn ==
  ASSUME Step, NEW p \in Procs, NEW label \in Creating, Goto(p, label), Frame(p),
         \/ pc[p] \in Creating
         \/ pc[p] = "claim" /\ txState[TxOf(p)] = "STOCK_RESERVED"
              /\ txState'[TxOf(p)] = "ORDER_CREATING",
         OneCreator => OrderNeeds(p, label)',
         AnswersFirst /\ p \in Txs /\ label = "t6" => txState'[TxOf(p)] # "ORDER_CREATING"
  PROVE  ControlKeeps
<1>1. pc[p] \in OrderPCs /\ pc[p] # "idle" /\ label \in PCs /\ label \in OrderPCs
  BY DEF Creating, OrderPCs, PCs
<1>2. TxOf(p) \in Txs /\ Needs(p, pc[p])
  BY <1>1, Busy
<1>3. EventOf(p)' = EventOf(p) /\ TxOf(p)' = TxOf(p)
  BY SameRow
<1>4. RoleNeeds(p, label)'
  BY <1>1, <1>2, <1>3 DEF Needs, RoleNeeds, OrderPCs, T5PCs, HandlerPCs
<1>5. ReserveNeeds(p, label)'
  <2>1. txState'[TxOf(p)] \notin Early
    BY <1>2, StatesForward DEF Needs, ReserveNeeds, Step, Early
  <2> QED BY <1>1, <1>3, <2>1 DEF ReserveNeeds, OrderPCs
<1>6. ASSUME AnswersFirst PROVE CaptureNeeds(p, label)'
  <2> PICK t \in Txs : t = TxOf(p) /\ t = TxOf(p)'
    BY <1>2, <1>3
  <2>1. ASSUME p \in Txs PROVE txState'[t] \in Ordering \/ Accounted(t)'
    <3>1. CASE txState'[t] = "ORDER_CREATING"
      BY <3>1 DEF Ordering
    <3>2. CASE pc[p] \in Creating
      <4>1. txState[t] \in Ordering \/ Accounted(t)
        BY <1>2, <1>6, <2>1, <3>2 DEF Needs, CaptureNeeds
      <4>2. TxOf(p) = p /\ pc[p] # "t5fail"
        BY <2>1, <3>2, ProcTypes DEF TxOf, EventOf, Creating, OrderPCs
      <4> QED BY <1>2, <1>6, <4>1, <4>2, OrderingStays DEF Frame, Step
    <3> QED BY <3>1, <3>2
  <2> QED BY <1>1, <1>3, <1>6, <2>1 DEF CaptureNeeds, Accounted, Sent, OrderPCs, HandlerPCs
<1> QED BY <1>1, <1>3, <1>4, <1>5, <1>6, Went DEF Needs

LEMMA ClaimOrdered ==
  ASSUME Step, NEW p \in Procs, Claim(p)
  PROVE  Result
<1>1. pc[p] = "claim" /\ CasOnly(TxOf(p), "STOCK_RESERVED", "ORDER_CREATING")
  BY DEF Claim, At
<1>2. TxOf(p) \in Txs
  BY <1>1, Busy
<1>3. Frame(p) /\ (OneCreator => OrdersOK') /\ (AnswersFirst => CapturesOK')
  BY <1>1, <1>2, CasCalm
<1>4. CASE Advances(TxOf(p), "STOCK_RESERVED", "ORDER_CREATING") /\ Goto(p, "intent")
  <2>1. txState[TxOf(p)] = "STOCK_RESERVED" /\ txState'[TxOf(p)] = "ORDER_CREATING"
    BY <1>1, <1>2, <1>4 DEF CasOnly, CasTransition, Advances, Step, SettlementInv, DataOK
  <2>2. OrderNeeds(p, "intent")' /\ "intent" \in Creating
    BY DEF OrderNeeds, Creating, OrderPCs
  <2> QED BY <1>1, <1>3, <1>4, <2>1, <2>2, CreatorGoesOn DEF Result
<1>5. CASE Return(p)
  BY <1>1, <1>3, <1>5, Left DEF Result
<1> QED BY <1>4, <1>5 DEF Claim

\* The steps that write the order row or call the provider write nothing else
\* that the others rely on.
LEMMA CreatorFrame ==
  ASSUME Step, NEW p \in Procs, UNCHANGED <<txState, event>>, OrdersFrame(p)
  PROVE  Frame(p)
<1>1. EventsKept
  BY EventsStay
<1> QED BY <1>1, SameStates DEF Frame

\* An order row that is none of the buyer's business yet may change.
LEMMA OrderRowChanges ==
  ASSUME Step, OneCreator, NEW t \in Txs, NEW status \in {"INTENT", "AMBIGUOUS"},
         order[t] # "CREATED", status = "AMBIGUOUS" => ~SlowRequests,
         order' = [order EXCEPT ![t] = status], UNCHANGED <<handle, told>>
  PROVE  OrdersOK'
BY DEF Step, OrderInv, OrdersOK, SettlementInv, DataOK

LEMMA WriteIntentOrdered ==
  ASSUME Step, NEW p \in Procs, WriteIntent(p)
  PROVE  Result
<1> DEFINE t == TxOf(p)
<1>1. pc[p] = "intent" /\ pc[p] \in Creating /\ pc[p] \in OrderPCs
  BY DEF WriteIntent, At, Creating, OrderPCs
<1>2. t \in Txs
  BY <1>1, Busy
<1>3. /\ order' = [order EXCEPT ![t] = IF order[t] = "NONE" THEN "INTENT" ELSE order[t]]
      /\ UNCHANGED <<ledgerVars, txState, handle, provOrder, told, event>>
  BY DEF WriteIntent
<1>4. /\ order'[t] = IF order[t] = "NONE" THEN "INTENT" ELSE order[t]
      /\ \A u \in Txs \ {t} : order'[u] = order[u]
      /\ order[t] \in {"NONE", "INTENT", "CREATED", "AMBIGUOUS"}
  BY <1>2, <1>3 DEF Step, SettlementInv, DataOK
<1>5. OrdersFrame(p)
  BY <1>1, <1>3, <1>4 DEF OrdersFrame
<1>6. Frame(p)
  BY <1>3, <1>5, CreatorFrame
<1>7. ASSUME OneCreator PROVE OrdersOK' /\ (handle[t] <=> order[t] = "CREATED")
  <2>1. handle[t] <=> order[t] = "CREATED"
    BY <1>2, <1>7 DEF Step, OrderInv, OrdersOK
  <2>2. CASE order[t] = "NONE"
    BY <1>2, <1>3, <1>7, <2>1, <2>2, OrderRowChanges
  <2>3. CASE order[t] # "NONE"
    <3>1. UNCHANGED <<order, handle, told>>
      BY <1>2, <1>3, <2>3 DEF Step, SettlementInv, DataOK
    <3> QED BY <1>7, <2>1, <3>1 DEF Step, OrderInv, OrdersOK
  <2> QED BY <2>1, <2>2, <2>3
<1>8. AnswersFirst => CapturesOK'
  BY <1>3, <1>6, SameCaptures DEF Step, OrderInv
<1>9. CASE Goto(p, "t4b") /\ handle[t]
  <2>1. OrderNeeds(p, "t4b")' /\ "t4b" \in Creating
    BY <1>3, <1>9, SameRow DEF OrderNeeds, Creating, OrderPCs
  <2> QED BY <1>1, <1>6, <1>7, <1>8, <1>9, <2>1, CreatorGoesOn DEF Result
<1>10. CASE Goto(p, "create") /\ ~handle[t] /\ order[t] # "AMBIGUOUS"
  <2>1. TxOf(p)' = t
    BY <1>10, SameRow
  <2>2. OneCreator => order'[t] = "INTENT"
    BY <1>4, <1>7, <1>10
  <2>3. (OneCreator => OrderNeeds(p, "create")') /\ "create" \in Creating
    BY <2>1, <2>2 DEF OrderNeeds, Creating, OrderPCs
  <2> QED BY <1>1, <1>6, <1>7, <1>8, <1>10, <2>3, CreatorGoesOn DEF Result
<1>11. CASE OrderFails(p)
  BY <1>1, <1>6, <1>7, <1>8, <1>11, Failed DEF Result
<1> QED BY <1>9, <1>10, <1>11 DEF WriteIntent

LEMMA CreateOrderOrdered ==
  ASSUME Step, NEW p \in Procs, CreateOrder(p) \/ CreateOrderFails(p)
  PROVE  Result
<1> DEFINE t == TxOf(p)
<1>1. pc[p] = "create" /\ pc[p] \in Creating /\ pc[p] \in OrderPCs /\ pc[p] # "idle"
  BY DEF CreateOrder, CreateOrderFails, At, Creating, OrderPCs
<1>2. t \in Txs /\ Needs(p, "create")
  BY <1>1, Busy
<1>3. UNCHANGED <<ledgerVars, txState, order, handle, told, event>>
  BY DEF CreateOrder, CreateOrderFails
<1>4. Frame(p)
  BY <1>3, CreatorFrame DEF OrdersFrame
<1>5. (OneCreator => OrdersOK') /\ (AnswersFirst => CapturesOK')
  <2>1. OneCreator => OrdersOK'
    BY <1>3 DEF Step, OrderInv, OrdersOK
  <2>2. AnswersFirst => CapturesOK'
    BY <1>3, <1>4, SameCaptures DEF Step, OrderInv
  <2> QED BY <2>1, <2>2
<1>6. CASE CreateOrder(p)
  <2>1. PICK label \in {"ambiguous", "record"} :
          Goto(p, label) /\ (label = "ambiguous" => ProviderKind = "razorpay")
    BY <1>6 DEF CreateOrder
  <2>2. TxOf(p)' = t
    BY <2>1, SameRow
  <2>3. ASSUME OneCreator PROVE OrderNeeds(p, label)'
    <3>1. OrderNeeds(p, "create")
      BY <1>2, <2>3 DEF Needs
    <3>2. label = "ambiguous" => ~SlowRequests
      BY <2>1, <2>3 DEF OneCreator
    <3> QED BY <1>3, <2>1, <2>2, <3>1, <3>2 DEF OrderNeeds
  <2>4. label \in Creating
    BY <2>1 DEF Creating, OrderPCs
  <2>5. ControlKeeps
    BY <1>1, <1>4, <2>1, <2>3, <2>4, CreatorGoesOn
  <2> QED BY <1>5, <2>5 DEF Result
<1>7. CASE CreateOrderFails(p)
  <2>1. OrderFails(p) \/ Throw(p)
    BY <1>7 DEF CreateOrderFails
  <2> QED BY <1>1, <1>4, <1>5, <2>1, Failed, Left DEF Result
<1> QED BY <1>6, <1>7

LEMMA RecordOrderOrdered ==
  ASSUME Step, NEW p \in Procs, RecordOrder(p)
  PROVE  Result
<1> DEFINE t == TxOf(p)
<1>1. pc[p] = "record" /\ pc[p] \in Creating /\ pc[p] \in OrderPCs
  BY DEF RecordOrder, At, Creating, OrderPCs
<1>2. t \in Txs /\ Needs(p, "record")
  BY <1>1, Busy
<1>3. Goto(p, "t4b") /\ UNCHANGED <<ledgerVars, txState, provOrder, event>>
  BY DEF RecordOrder
<1>4. CASE order[t] = "INTENT"
  <2>1. /\ order' = [order EXCEPT ![t] = "CREATED"]
        /\ handle' = [handle EXCEPT ![t] = TRUE]
        /\ told' = IF BuyerPolls THEN told \union {t} ELSE told
    BY <1>4 DEF RecordOrder
  <2>2. /\ order'[t] = "CREATED" /\ handle'[t] = TRUE
        /\ \A u \in Txs \ {t} : order'[u] = order[u] /\ handle'[u] = handle[u]
    BY <1>2, <2>1 DEF Step, SettlementInv, DataOK
  <2>3. OrdersFrame(p)
    BY <1>1, <2>2 DEF OrdersFrame
  <2>4. Frame(p)
    BY <1>3, <2>3, CreatorFrame
  <2>5. OneCreator => OrdersOK'
    <3>1. told' \subseteq told \union {t}
      BY <2>1
    <3> QED BY <2>2, <3>1 DEF Step, OrderInv, OrdersOK
  <2>6. AnswersFirst => CapturesOK'
    BY <1>3, <2>1, <2>4, SameCaptures DEF Step, OrderInv, AnswersFirst
  <2>7. OrderNeeds(p, "t4b")' /\ "t4b" \in Creating
    BY <1>3, <2>2, SameRow DEF OrderNeeds, Creating, OrderPCs
  <2> QED BY <1>1, <1>3, <2>4, <2>5, <2>6, <2>7, CreatorGoesOn DEF Result
<1>5. CASE order[t] # "INTENT"
  <2>1. UNCHANGED orderVars
    BY <1>5 DEF RecordOrder, orderVars
  <2>2. Frame(p) /\ (OneCreator => OrdersOK') /\ (AnswersFirst => CapturesOK')
    BY <1>3, <2>1, RowsCalm DEF Step
  <2>3. ASSUME OneCreator PROVE OrderNeeds(p, "t4b")'
    <3>1. order[t] = "CREATED"
      BY <1>2, <1>5, <2>3 DEF Needs, OrderNeeds
    <3>2. handle[t]
      BY <1>2, <2>3, <3>1 DEF Step, OrderInv, OrdersOK
    <3> QED BY <1>3, <2>1, <3>2, SameRow DEF OrderNeeds, orderVars
  <2>4. "t4b" \in Creating
    BY DEF Creating, OrderPCs
  <2> QED BY <1>1, <1>3, <2>2, <2>3, <2>4, CreatorGoesOn DEF Result
<1> QED BY <1>4, <1>5

LEMMA AdvanceOrdered ==
  ASSUME Step, NEW p \in Procs, AdvanceCreated(p) \/ AdvanceAwaiting(p)
  PROVE  Result
<1> DEFINE t == TxOf(p)
<1>1. pc[p] \in {"t4b", "t6"} /\ pc[p] \in Creating /\ pc[p] # "idle"
  BY DEF AdvanceCreated, AdvanceAwaiting, At, Creating, OrderPCs
<1>2. t \in Txs /\ Needs(p, pc[p])
  BY <1>1, Busy
<1>3. txState \in [Txs -> TxStates \union {"ABSENT"}]
  BY DEF Step, SettlementInv, DataOK
<1>4. OneCreator => handle[t]
  BY <1>1, <1>2 DEF Needs, OrderNeeds
<1>5. CASE AdvanceCreated(p)
  <2>1. CasOnly(t, "ORDER_CREATING", "RZP_ORDER_CREATED") /\ Goto(p, "t6")
    BY <1>5 DEF AdvanceCreated
  <2>2. Frame(p) /\ (OneCreator => OrdersOK') /\ (AnswersFirst => CapturesOK')
    BY <1>2, <2>1, CasCalm
  <2>3. (OneCreator => OrderNeeds(p, "t6")') /\ "t6" \in Creating
    BY <1>4, <2>1, SameRow DEF OrderNeeds, CasOnly, orderVars, Creating, OrderPCs
  <2>4. txState'[t] # "ORDER_CREATING"
    BY <1>2, <1>3, <2>1 DEF CasOnly, CasTransition, Advances, IsLegalTransition, Successors
  <2> QED BY <1>1, <2>1, <2>2, <2>3, <2>4, CreatorGoesOn DEF Result
<1>6. CASE AdvanceAwaiting(p)
  <2>1. /\ pc[p] = "t6" /\ Return(p)
        /\ CasTransition(t, "RZP_ORDER_CREATED", "AWAITING_PAYMENT")
        /\ told' = IF p \in Txs THEN told \union {t} ELSE told
        /\ UNCHANGED <<ledgerVars, order, handle, event>>
    BY <1>6 DEF AdvanceAwaiting, At
  <2>2. LeavesHeld /\ LossFrame(p)
    BY <1>2, <2>1, CasFrame
  <2>3. Frame(p)
    BY <2>1, <2>2, EventsStay DEF Frame, OrdersFrame
  <2>4. OneCreator => OrdersOK'
    BY <1>2, <1>4, <2>1 DEF Step, OrderInv, OrdersOK
  <2>5. ASSUME AnswersFirst PROVE CapturesOK'
    <3>1. CapturesOK /\ TxMoves /\ EventsKept
      BY <2>3, <2>5 DEF Step, OrderInv, Frame
    <3>2. ASSUME p \in Txs, NEW u \in Txs, u = t PROVE Answered(u)'
      <4>1. txState[u] \in Ordering \/ Accounted(u)
        BY <1>1, <1>2, <2>1, <2>5, <3>2 DEF Needs, CaptureNeeds
      <4>2. txState[u] # "ORDER_CREATING"
        BY <1>2, <2>1, <2>5, <3>2 DEF Needs, CaptureNeeds
      <4>3. CASE txState[u] = "RZP_ORDER_CREATED"
        BY <1>3, <2>1, <3>2, <4>3
           DEF CasTransition, Advances, IsLegalTransition, Successors, Answered
      <4>4. CASE txState[u] # "RZP_ORDER_CREATED"
        <5>1. Answered(u)
          BY <4>1, <4>2, <4>4 DEF Ordering, Asked, Answered, Accounted
        <5> QED BY <2>2, <2>5, <3>1, <5>1, AnsweredStays
      <4> QED BY <4>3, <4>4
    <3>3. \A u \in Txs : Answered(u) => Answered(u)'
      BY <2>2, <2>5, <3>1, AnsweredStays
    <3>4. \A u \in Txs : Accounted(u) => Accounted(u)'
      BY <3>1, AccountedStays
    <3>5. told \subseteq told' /\ told' \subseteq told \union {t} /\ (p \notin Txs => told' = told)
      BY <2>1
    <3>6. \A u \in Txs : u \in told' => Answered(u)'
      BY <3>1, <3>2, <3>3, <3>5 DEF CapturesOK
    <3>7. UNCHANGED event
      BY <2>1
    <3> QED BY <3>1, <3>4, <3>5, <3>6, <3>7 DEF CapturesOK
  <2> QED BY <1>1, <2>1, <2>3, <2>4, <2>5, Left DEF Result
<1> QED BY <1>5, <1>6

LEMMA MarkAmbiguousOrdered ==
  ASSUME Step, NEW p \in Procs, MarkAmbiguous(p)
  PROVE  Result
<1> DEFINE t == TxOf(p)
<1>1. pc[p] = "ambiguous" /\ pc[p] \in OrderPCs
  BY DEF MarkAmbiguous, At, OrderPCs
<1>2. t \in Txs /\ Needs(p, "ambiguous")
  BY <1>1, Busy
<1>3. /\ order' = [order EXCEPT ![t] = "AMBIGUOUS"] /\ OrderFails(p)
      /\ UNCHANGED <<ledgerVars, txState, handle, provOrder, told, event>>
  BY DEF MarkAmbiguous
<1>4. OrdersFrame(p)
  <2>1. \A u \in Txs \ {t} : order'[u] = order[u]
    BY <1>3 DEF Step, SettlementInv, DataOK
  <2> QED BY <1>1, <1>3, <2>1 DEF OrdersFrame
<1>5. Frame(p)
  BY <1>3, <1>4, CreatorFrame
<1>6. OneCreator => OrdersOK'
  <2> SUFFICES ASSUME OneCreator PROVE OrdersOK'
    OBVIOUS
  <2>1. ~SlowRequests /\ order[t] = "INTENT"
    BY <1>2 DEF Needs, OrderNeeds
  <2> QED BY <1>2, <1>3, <2>1, OrderRowChanges
<1>7. AnswersFirst => CapturesOK'
  BY <1>3, <1>5, SameCaptures DEF Step, OrderInv
<1> QED BY <1>1, <1>3, <1>5, <1>6, <1>7, Failed DEF Result

LEMMA OrderOrdered ==
  ASSUME Step, NEW p \in Procs, OrderStep(p)
  PROVE  Result
BY ClaimOrdered, WriteIntentOrdered, CreateOrderOrdered, RecordOrderOrdered, AdvanceOrdered,
   MarkAmbiguousOrdered DEF OrderStep

----------------------------------------------------------------------------
(* Webhook handlers.                                                       *)

\* A handler finds the row of a buyer who was asked to pay.
LEMMA HandlerSees ==
  ASSUME Step, AnswersFirst, NEW p \in Handlers, HandlerStep(p)
  PROVE  /\ EventOf(p) = <<TxOf(p), EventOf(p)[2]>>
         /\ EventOf(p)[2] \in EventKinds /\ event[EventOf(p)] # "absent"
         /\ TxOf(p) \in told /\ handle[TxOf(p)] /\ Answered(TxOf(p))
         /\ CaptureNeeds(p, pc[p])
<1>1. p \in Procs /\ pc[p] # "idle" /\ WorksOn(p, pc[p]) /\ TxOf(p) \in Txs
  BY HandlerBusy DEF Step, HandlerPCs
<1> DEFINE e == EventOf(p)
<1>2. e \in Events /\ event[e] # "absent"
  BY <1>1 DEF WorksOn
<1>3. TxOf(p) = e[1]
  BY <1>2, ProcAssumption DEF TxOf
<1>4. e = <<TxOf(p), e[2]>> /\ e[2] \in EventKinds
  BY <1>2, <1>3 DEF Events
<1>5. TxOf(p) \in told
  BY <1>1, <1>2, <1>4 DEF Step, OrderInv, CapturesOK
<1>6. handle[TxOf(p)] /\ Answered(TxOf(p))
  BY <1>1, <1>5 DEF Step, OrderInv, CapturesOK, OrdersOK, AnswersFirst
<1>7. CaptureNeeds(p, pc[p])
  BY <1>1, Busy DEF Needs
<1> QED BY <1>2, <1>4, <1>5, <1>6, <1>7

\* A handler goes on to a later step.
LEMMA HandlerGoes ==
  ASSUME Step, NEW p \in Handlers, HandlerStep(p), NEW label \in HandlerPCs, Goto(p, label),
         Frame(p), AnswersFirst => CaptureNeeds(p, label)'
  PROVE  ControlKeeps
<1>1. p \in Procs /\ pc[p] # "idle" /\ EventOf(p) \in Events
  BY HandlerBusy DEF Step, HandlerPCs, WorksOn
<1>2. label \in PCs /\ label \notin OrderPCs \union ReservePCs \union T5PCs
  BY DEF PCs, HandlerPCs, OrderPCs, ReservePCs, T5PCs
<1>3. EventOf(p)' \in Events
  BY <1>1, SameRow
<1>4. Needs(p, label)'
  BY <1>2, <1>3 DEF Needs, RoleNeeds, ReserveNeeds, OrderNeeds, Creating, ReservePCs, OrderPCs
<1> QED BY <1>1, <1>2, <1>4, Went DEF Creating

LEMMA HandlerReadOrdered ==
  ASSUME Step, NEW p \in Handlers, HandlerRead(p)
  PROVE  Result
<1> DEFINE t == TxOf(p)
           k == EventOf(p)[2]
           next == IF handle[t] THEN Branch(k, txState[t]) ELSE "mark"
<1>1. HandlerStep(p) /\ Goto(p, next) /\ UNCHANGED dbVars
  BY DEF HandlerStep, HandlerRead
<1>2. next \in HandlerPCs
  BY DEF Branch, HandlerPCs
<1>3. ASSUME AnswersFirst
      PROVE  /\ next \in {"late", "casMismatch", "casPaid", "casFailed", "mark"}
             /\ next = "casMismatch" => k \notin CaptureKinds
             /\ next = "casFailed" => k = "failed"
             /\ next \in {"late", "mark"} /\ k \in CaptureKinds => Accounted(t)
  <2>1. handle[t] /\ Answered(t)
    BY <1>1, <1>3, HandlerSees
  <2>2. CASE txState[t] = "AWAITING_PAYMENT"
    BY <2>1, <2>2 DEF Branch, CaptureKinds
  <2>3. CASE txState[t] # "AWAITING_PAYMENT"
    BY <2>1, <2>3 DEF Branch, CaptureKinds, Answered
  <2> QED BY <2>2, <2>3
<1> HIDE DEF next
<1>4. PICK label \in HandlerPCs : label = next
  BY <1>2
<1>5. Frame(p) /\ (OneCreator => OrdersOK') /\ (AnswersFirst => CapturesOK')
  BY <1>1, RowsCalm DEF dbVars, Step
<1>6. ASSUME AnswersFirst PROVE CaptureNeeds(p, label)'
  <2>1. EventOf(p)' = EventOf(p) /\ TxOf(p)' = TxOf(p) /\ UNCHANGED <<txState, event>>
    BY <1>1, SameRow DEF dbVars
  <2> QED BY <1>3, <1>4, <1>6, <2>1
          DEF CaptureNeeds, Accounted, Sent, Creating, OrderPCs, HandlerPCs
<1> QED BY <1>1, <1>4, <1>5, <1>6, HandlerGoes DEF Result

LEMMA LateCaptureOrdered ==
  ASSUME Step, NEW p \in Handlers, LateCapture(p)
  PROVE  Result
<1>1. HandlerStep(p) /\ pc[p] = "late" /\ UNCHANGED <<txState, orderVars, event>>
  BY DEF HandlerStep, LateCapture, At
<1>3. PICK label \in {"casGrace", "casRefund"} : Goto(p, label)
  BY DEF LateCapture
<1>2. ASSUME AnswersFirst PROVE CaptureNeeds(p, label)'
  <2>1. EventOf(p)[2] \in CaptureKinds => Accounted(TxOf(p))
    BY <1>1, <1>2, HandlerSees DEF CaptureNeeds
  <2> QED BY <1>1, <1>3, <2>1, SameRow DEF CaptureNeeds, Accounted, Sent, Creating, OrderPCs
<1>4. ReReserveExpiredHolds(TxOf(p)) \/ UNCHANGED ledgerVars
  BY DEF LateCapture
<1>5. TxOf(p) \in Txs
  BY <1>1, HandlerBusy DEF Step
<1>6. Frame(p) /\ (OneCreator => OrdersOK') /\ (AnswersFirst => CapturesOK')
  BY <1>1, <1>4, <1>5, RowsCalm DEF Step
<1>7. label \in HandlerPCs
  BY DEF HandlerPCs
<1> QED BY <1>1, <1>2, <1>3, <1>6, <1>7, HandlerGoes DEF Result

LEMMA HandlerCasOrdered ==
  ASSUME Step, NEW p \in Handlers, HandlerCas(p)
  PROVE  Result
<1> DEFINE t == TxOf(p)
           from == CasPairs(p)[pc[p]][1]
           to == CasPairs(p)[pc[p]][2]
           won == Advances(t, from, to)
<1>1. HandlerStep(p) /\ pc[p] \in DOMAIN CasPairs(p) /\ CasTransition(t, from, to)
      /\ UNCHANGED <<ledgerVars, orderVars, event>>
  BY DEF HandlerStep, HandlerCas
<1>2. p \in Procs /\ t \in Txs
  BY <1>1, HandlerBusy DEF Step
<1>3. pc[p] \in {"casMismatch", "casPaid", "casGrace", "casRefund", "casFailed"}
  BY <1>1 DEF CasPairs
<1>4. /\ to \in {"PAID", "FAILED", "MANUAL_REFUND_REQUIRED"}
      /\ to = "FAILED" => pc[p] = "casFailed"
      /\ from = "PROPOSAL_APPROVED" => to = "MANUAL_REFUND_REQUIRED"
      /\ pc[p] = "casPaid" => from = "AWAITING_PAYMENT" /\ to = "PAID"
  BY <1>3 DEF CasPairs
<1>5. PICK label \in {"release", "mark"} :
        Goto(p, label) /\ (label = "release" => won /\ to = "FAILED")
  BY DEF HandlerCas
<1> HIDE DEF from, to
<1>6. to = "FAILED" => (AnswersFirst => Sent(t, {"failed"}))
  BY <1>1, <1>4, HandlerSees DEF CaptureNeeds, Sent
<1>7. LeavesHeld /\ LossFrame(p)
  BY <1>1, <1>2, <1>4, <1>6, CasFrame
<1>8. EventsKept /\ OrdersFrame(p)
  BY <1>1, EventsStay, SameOrders
<1>9. (OneCreator => OrdersOK') /\ (AnswersFirst => CapturesOK')
  BY <1>1, <1>7, <1>8, Calm
<1>10. ASSUME AnswersFirst PROVE CaptureNeeds(p, label)'
  <2>1. EventOf(p)' = EventOf(p) /\ TxOf(p)' = t
    BY <1>5, SameRow
  <2> PICK u \in Txs : u = t
    BY <1>2
  <2>2. CASE EventOf(p)[2] \in CaptureKinds
    <3>1. (pc[p] = "casPaid" /\ Answered(u)) \/ Accounted(u)
      BY <1>1, <1>3, <1>10, <2>2, HandlerSees DEF CaptureNeeds, CaptureKinds
    <3>2. Accounted(u)'
      <4>1. CASE txState[u] = "AWAITING_PAYMENT" /\ pc[p] = "casPaid"
        <5>1. txState' = [txState EXCEPT ![u] = "PAID"]
          BY <1>1, <1>4, <4>1 DEF CasTransition, Advances, IsLegalTransition, Successors
        <5> QED BY <5>1 DEF Step, SettlementInv, DataOK, Accounted, Recorded
      <4>2. CASE Accounted(u)
        BY <1>8, <4>2, AccountedStays DEF Step
      <4> QED BY <3>1, <4>1, <4>2 DEF Answered
    <3>3. label = "mark"
      <4>1. to = "FAILED" => EventOf(p)[2] = "failed"
        BY <1>1, <1>4, <1>10, HandlerSees DEF CaptureNeeds
      <4> QED BY <1>5, <2>2, <4>1 DEF CaptureKinds
    <3> QED BY <2>1, <3>2, <3>3 DEF CaptureNeeds, Accounted, Sent, Creating, OrderPCs
  <2>3. CASE EventOf(p)[2] \notin CaptureKinds
    BY <1>5, <2>1, <2>3 DEF CaptureNeeds, Creating, OrderPCs
  <2> QED BY <2>2, <2>3
<1>11. label \in HandlerPCs
  BY DEF HandlerPCs
<1> QED BY <1>1, <1>5, <1>7, <1>8, <1>9, <1>10, <1>11, HandlerGoes DEF Frame, Result

LEMMA HandlerReleaseOrdered ==
  ASSUME Step, NEW p \in Handlers, HandlerRelease(p)
  PROVE  Result
<1>1. HandlerStep(p) /\ pc[p] = "release" /\ UNCHANGED <<txState, orderVars, event>>
  BY DEF HandlerStep, HandlerRelease, At
<1>2. ASSUME AnswersFirst, Goto(p, "mark") PROVE CaptureNeeds(p, "mark")'
  <2>1. EventOf(p)[2] \notin CaptureKinds
    BY <1>1, <1>2, HandlerSees DEF CaptureNeeds
  <2> QED BY <1>2, <2>1, SameRow DEF CaptureNeeds, Creating, OrderPCs
<1>3. p \in Procs /\ TxOf(p) \in Txs
  BY <1>1, HandlerBusy DEF Step
<1>4. ReleaseHolds(TxOf(p)) \/ UNCHANGED ledgerVars
  BY DEF HandlerRelease, ReleaseThen
<1>5. Frame(p) /\ (OneCreator => OrdersOK') /\ (AnswersFirst => CapturesOK')
  BY <1>1, <1>3, <1>4, RowsCalm DEF Step
<1>6. CASE Goto(p, "mark")
  BY <1>1, <1>2, <1>5, <1>6, HandlerGoes DEF Result, HandlerPCs
<1>7. CASE Throw(p)
  BY <1>1, <1>3, <1>5, <1>7, Left DEF Result
<1> QED BY <1>6, <1>7 DEF HandlerRelease, ReleaseThen

LEMMA MarkProcessedOrdered ==
  ASSUME Step, NEW p \in Handlers, MarkProcessed(p)
  PROVE  Result
<1> DEFINE e == EventOf(p)
<1>1. /\ HandlerStep(p) /\ pc[p] = "mark" /\ Return(p)
      /\ event' = [event EXCEPT ![e] = "PROCESSED"]
      /\ UNCHANGED <<ledgerVars, txState, orderVars>>
  BY DEF HandlerStep, MarkProcessed, At
<1>2. p \in Procs /\ WorksOn(p, "mark")
  BY <1>1, HandlerBusy DEF Step
<1>3. Frame(p) /\ (OneCreator => OrdersOK')
  <2>1. LeavesHeld /\ LossFrame(p) /\ OrdersFrame(p) /\ EventsKept
    BY <1>1, SameStates, SameOrders DEF EventsKept, Step, SettlementInv, DataOK
  <2> QED BY <1>1, <2>1 DEF Frame, Step, OrderInv, OrdersOK, orderVars
<1>4. ASSUME AnswersFirst PROVE CapturesOK'
  <2>1. /\ e \in Events /\ e = <<TxOf(p), e[2]>> /\ TxOf(p) \in told
        /\ e[2] \in CaptureKinds => Accounted(TxOf(p))
    BY <1>1, <1>2, <1>4, HandlerSees DEF WorksOn, CaptureNeeds
  <2>2. CapturesOK /\ UNCHANGED <<txState, told>>
    BY <1>1, <1>4 DEF Step, OrderInv, ledgerVars, orderVars
  <2> SUFFICES ASSUME NEW t \in Txs, NEW k \in EventKinds
               PROVE  /\ event'[<<t, k>>] # "absent" => t \in told
                      /\ event'[<<t, k>>] = "PROCESSED" /\ k \in CaptureKinds
                           => Accounted(t)
    BY <1>3, <1>4, <2>2, CapturesKept DEF Frame
  <2>3. <<t, k>> \in Events
    BY DEF Events
  <2>4. CASE <<t, k>> = e
    <3>1. t = TxOf(p) /\ k = e[2]
      BY <2>1, <2>4
    <3> QED BY <2>1, <3>1
  <2>5. CASE <<t, k>> # e
    <3>1. event'[<<t, k>>] = event[<<t, k>>]
      BY <1>1, <2>1, <2>3, <2>5 DEF Step, SettlementInv, DataOK
    <3> QED BY <2>2, <3>1 DEF CapturesOK
  <2> QED BY <2>4, <2>5
<1> QED BY <1>1, <1>2, <1>3, <1>4, Left DEF Result

LEMMA HandlerOrdered ==
  ASSUME Step, NEW p \in Handlers, HandlerStep(p)
  PROVE  Result
BY HandlerReadOrdered, LateCaptureOrdered, HandlerCasOrdered, HandlerReleaseOrdered,
   MarkProcessedOrdered DEF HandlerStep

----------------------------------------------------------------------------
(* The sweep and the completions.                                          *)

\* A step that moves no process.
LEMMA QuietControl ==
  ASSUME Step, Frame(Sweeper), UNCHANGED <<order, handle, pc, cur>>, W3Rows', RowsAtRest',
         stage' = "w2" => stage = "w2" \/ pc[Sweeper] = "idle"
  PROVE  ControlKeeps
<1>1. PlacesOK'
  <2> SUFFICES ASSUME NEW q \in Procs PROVE Needs(q, pc[q])'
    BY DEF PlacesOK
  <2>1. EventOf(q)' = EventOf(q) /\ pc'[q] = pc[q] /\ Sweeper \in Procs
    BY ProcTypes DEF EventOf
  <2> QED BY <2>1, OthersKeep
<1>2. OrderedWasReserved'
  BY OrderedKept DEF Frame
<1>3. ClaimExclusive'
  BY DEF Step, OrderInv, ClaimExclusive, OrderPCs
<1> QED BY <1>1, <1>2, <1>3 DEF ControlKeeps

\* The sweep takes a row to a step it is ready for.
LEMMA Took ==
  ASSUME Step, NEW rung, NEW row \in Txs \union Events, NEW label \in PCs,
         Take(rung, row, label), Frame(Sweeper), Needs(Sweeper, label)',
         label \in Creating => rung # "w2"
  PROVE  ControlKeeps
<1>1. /\ stage = rung /\ pc[Sweeper] = "idle" /\ row \in todo /\ stage' = stage
      /\ pc' = [pc EXCEPT ![Sweeper] = label] /\ cur' = row /\ todo' = todo \ {row}
  BY DEF Take, At
<1>2. Sweeper \in Procs /\ Sweeper \notin Txs
  BY ProcTypes
<1>3. PlacesOK'
  <2> SUFFICES ASSUME NEW q \in Procs PROVE Needs(q, pc[q])'
    BY DEF PlacesOK
  <2>1. CASE q = Sweeper
    BY <1>1, <1>2, <2>1 DEF Step, SettlementInv, ControlOK
  <2>2. CASE q # Sweeper
    <3>1. pc'[q] = pc[q] /\ EventOf(q)' = EventOf(q)
      BY <1>1, <2>2 DEF Step, SettlementInv, ControlOK, EventOf
    <3> QED BY <1>2, <2>2, <3>1, OthersKeep
  <2> QED BY <2>1, <2>2
<1>4. OrderedWasReserved'
  BY OrderedKept DEF Frame
<1>5. ClaimExclusive'
  BY <1>1, <1>2, ClaimKept
<1>6. RowsAtRest' /\ W3Rows'
  <2>1. RowsAtRest'
    BY <1>1, <1>2, RestKept
  <2>2. W3Rows'
    BY <1>1, W3RowsKept
  <2> QED BY <2>1, <2>2
<1> QED BY <1>3, <1>4, <1>5, <1>6 DEF ControlKeeps

LEMMA CompletionOrdered ==
  ASSUME Step, NEW t \in Txs, CompleteTransaction(t), todo' \subseteq todo,
         UNCHANGED <<stage, cur>>
  PROVE  Result
<1>1. UNCHANGED <<orderVars, event, pc>>
  BY DEF CompleteTransaction
<1>2. EventsKept
  BY EventsStay DEF CompleteTransaction
<1>3. \A u \in Txs : txState'[u] = txState[u] \/ (txState[u] = "PAID" /\ txState'[u] = "COMPLETED")
  BY DEF CompleteTransaction, CanComplete, Step, SettlementInv, DataOK
<1>4. LeavesHeld /\ LossFrame(Sweeper)
  BY <1>3 DEF LeavesHeld, LossFrame
<1>5. Frame(Sweeper)
  BY <1>1, <1>2, <1>4, SameOrders DEF Frame
<1>6. W3Rows'
  BY W3RowsKept
<1>7. RowsAtRest'
  BY <1>1, StatesForward DEF Step, OrderInv, RowsAtRest
<1>8. ControlKeeps
  BY <1>1, <1>5, <1>6, <1>7, QuietControl DEF orderVars
<1> QED BY <1>1, <1>2, <1>4, <1>8, Calm DEF Result

LEMMA PassesOrdered ==
  ASSUME Step, SweepExpireTxs \/ SweepReleaseExpired \/ SweepEnd
  PROVE  Result
<1>1. UNCHANGED <<orderVars, event, pc, cur, todo>> /\ stage' \in {"pass2", "swept", "begin"}
  BY DEF SweepExpireTxs, SweepReleaseExpired, SweepEnd, dbVars
<1>2. EventsKept
  BY <1>1, EventsStay
<1>3. LeavesHeld /\ LossFrame(Sweeper)
  <2>1. CASE SweepExpireTxs
    <3>1. \A t \in Txs : \/ txState'[t] = txState[t]
                         \/ txState[t] = "AWAITING_PAYMENT" /\ txState'[t] = "EXPIRED"
      BY <2>1 DEF SweepExpireTxs, LapsedTxs
    <3> QED BY <3>1 DEF LeavesHeld, LossFrame
  <2>2. CASE SweepReleaseExpired \/ SweepEnd
    BY <2>2, SameStates DEF SweepReleaseExpired, SweepEnd, dbVars
  <2> QED BY <2>1, <2>2
<1>4. Frame(Sweeper)
  BY <1>1, <1>2, <1>3, SameOrders DEF Frame
<1>5. W3Rows' /\ RowsAtRest'
  BY <1>1, StatesForward DEF Step, OrderInv, W3Rows, RowsAtRest
<1>6. ControlKeeps
  BY <1>1, <1>4, <1>5, QuietControl DEF orderVars
<1> QED BY <1>1, <1>2, <1>3, <1>6, Calm DEF Result

\* The rows a rung selects are in states of that rung, and at rest.
LEMMA SelectOrdered ==
  ASSUME Step, NEW rung \in RungSet, SweepSelect(rung)
  PROVE  Result
<1>1. /\ stage' = rung /\ pc[Sweeper] = "idle"
      /\ todo' \subseteq {row \in Rows(rung) : MayBeOld(row)}
      /\ UNCHANGED <<ledgerVars, txState, orderVars, event, pc, cur>>
  BY DEF SweepSelect, At, dbVars
<1>2. rung \in {"w1", "w2", "w3", "w6", "w7"}
  BY DEF RungSet, Rungs
<1>3. Frame(Sweeper) /\ (OneCreator => OrdersOK') /\ (AnswersFirst => CapturesOK')
  BY <1>1, RowsCalm DEF Step
<1>4. ASSUME NEW t \in Txs, t \in todo'
      PROVE  /\ txState[t] # "ABSENT"
             /\ rung = "w3" => txState[t] \notin Early
             /\ SlowRequests \/ pc[t] = "idle"
  <2>1. t \notin Events
    BY ProcAssumption
  <2>2. t \in Rows(rung) /\ MayBeOld(t)
    BY <1>1, <1>4
  <2>3. CASE rung = "w3"
    <3>1. txState[t] \in {"ORDER_CREATING", "RZP_ORDER_CREATED"}
      BY <2>2, <2>3 DEF Rows, InState
    <3> QED BY <2>2, <3>1 DEF Early, MayBeOld, At
  <2>4. CASE rung # "w3"
    <3>1. txState[t] \in {"PROPOSAL_APPROVED", "STOCK_RESERVED", "PAID"}
      BY <1>2, <2>1, <2>2, <2>4 DEF Rows, InState
    <3> QED BY <2>2, <2>4, <3>1 DEF MayBeOld, At
  <2> QED BY <2>3, <2>4
<1>5. W3Rows'
  BY <1>1, <1>4 DEF W3Rows
<1>6. RowsAtRest'
  BY <1>1, <1>4 DEF Step, OrderInv, RowsAtRest
<1>7. ControlKeeps
  BY <1>1, <1>3, <1>5, <1>6, QuietControl DEF orderVars
<1> QED BY <1>3, <1>7 DEF Result

LEMMA TakesOrdered ==
  ASSUME Step, NEW row \in Txs \union Events,
         \/ row \in Txs /\ (SweepReserve(row) \/ SweepOrder(row))
         \/ row \in Events /\ SweepRedrive(row)
  PROVE  Result
<1>1. \A rung, label : Take(rung, row, label) => EventOf(Sweeper)' = row
  BY DEF Take, EventOf
<1>2. row \in Txs => \A rung, label : Take(rung, row, label) => TxOf(Sweeper)' = row
  BY <1>1 DEF TxOf
<1>3. Sweeper \in Handlers /\ Sweeper \notin Txs
  BY ProcTypes DEF Handlers
<1> USE DEF Needs, RoleNeeds, ReserveNeeds, OrderNeeds, CaptureNeeds, Creating
<1>4. CASE row \in Txs /\ SweepReserve(row)
  <2>1. /\ ReserveCart(row) \/ UNCHANGED ledgerVars
        /\ UNCHANGED <<txState, orderVars, event>>
    BY <1>4 DEF SweepReserve
  <2>2. Frame(Sweeper) /\ (OneCreator => OrdersOK') /\ (AnswersFirst => CapturesOK')
    BY <1>4, <2>1, RowsCalm DEF Step
  <2>3. CASE ReserveCart(row) /\ Take("w1", row, "casReserved")
    <3>1. hold'[row] = "ACTIVE"
      BY <1>4, <2>3 DEF ReserveCart, HoldCart, SetHold, Step, LedgerTypeOK
    <3>2. Needs(Sweeper, "casReserved")' /\ "casReserved" \in PCs \ Creating
      BY <1>1, <1>2, <1>4, <2>3, <3>1 DEF PCs, ReservePCs, OrderPCs, T5PCs, HandlerPCs
    <3> QED BY <2>2, <2>3, <3>2, Took DEF Result
  <2>4. CASE Take("w1", row, "casReleased")
    <3>1. Needs(Sweeper, "casReleased")' /\ "casReleased" \in PCs \ Creating
      BY <1>1, <1>2, <1>4, <2>4 DEF PCs, ReservePCs, OrderPCs, T5PCs, HandlerPCs
    <3> QED BY <2>2, <2>4, <3>1, Took DEF Result
  <2> QED BY <1>4, <2>3, <2>4 DEF SweepReserve
<1>5. CASE row \in Txs /\ SweepOrder(row)
  <2>1. UNCHANGED <<ledgerVars, txState, orderVars, event>>
    BY <1>5 DEF SweepOrder, dbVars
  <2>2. Frame(Sweeper) /\ (OneCreator => OrdersOK') /\ (AnswersFirst => CapturesOK')
    BY <2>1, RowsCalm DEF Step
  <2>3. CASE Take("w2", row, "claim")
    <3>1. Needs(Sweeper, "claim")' /\ "claim" \in PCs \ Creating
      BY <1>1, <1>2, <1>5, <2>3 DEF PCs, ReservePCs, OrderPCs, T5PCs, HandlerPCs
    <3> QED BY <2>2, <2>3, <3>1, Took DEF Result
  <2>4. CASE Take("w3", row, "intent")
    <3>1. txState'[row] \notin Early
      BY <1>5, <2>1, <2>4 DEF Take, Step, OrderInv, W3Rows
    <3>2. Needs(Sweeper, "intent")' /\ "intent" \in PCs
      BY <1>1, <1>2, <1>3, <1>5, <2>4, <3>1 DEF PCs, ReservePCs, OrderPCs, T5PCs, HandlerPCs
    <3> QED BY <2>2, <2>4, <3>2, Took DEF Result
  <2> QED BY <1>5, <2>3, <2>4 DEF SweepOrder
<1>6. CASE row \in Events /\ SweepRedrive(row)
  <2>1. UNCHANGED <<ledgerVars, txState, orderVars, event>> /\ Take("w6", row, "read")
    BY <1>6 DEF SweepRedrive, dbVars
  <2>2. Frame(Sweeper) /\ (OneCreator => OrdersOK') /\ (AnswersFirst => CapturesOK')
    BY <2>1, RowsCalm DEF Step
  <2>3. Needs(Sweeper, "read")' /\ "read" \in PCs \ Creating
    BY <1>1, <1>3, <1>6, <2>1 DEF PCs, ReservePCs, OrderPCs, T5PCs, HandlerPCs
  <2> QED BY <2>1, <2>2, <2>3, Took DEF Result
<1> QED BY <1>4, <1>5, <1>6

LEMMA SweepOrdered ==
  ASSUME Step, SweepStep
  PROVE  Result
<1>1. Sweeper \in Procs /\ Sweeper \in Handlers
  BY ProcTypes DEF Handlers
<1>2. ASSUME NEW t \in Txs, SweepComplete(t) PROVE Result
  BY <1>2, CompletionOrdered DEF SweepComplete
<1> QED BY <1>1, <1>2, PassesOrdered, SelectOrdered, TakesOrdered, ReserveOrdered,
           OrderOrdered, HandlerOrdered DEF SweepStep

----------------------------------------------------------------------------
(* The provider, the buyer, the clock and the faults.                      *)

\* A buyer pays, or fails to, only for an order that was shown.
LEMMA SendOrdered ==
  ASSUME Step, NEW t \in Txs, NEW kinds, Send(t, kinds)
  PROVE  Result
<1>1. /\ t \in told
      /\ event' = [e \in Events |-> IF e[1] = t /\ e[2] \in kinds THEN "sent" ELSE event[e]]
      /\ UNCHANGED <<ledgerVars, txState, orderVars, pc, stage, todo, cur>>
  BY DEF Send, sweepVars
<1>2. Frame(Sweeper) /\ EventsKept
  BY <1>1, SameStates, SameOrders DEF Frame, EventsKept
<1>3. W3Rows' /\ RowsAtRest'
  BY <1>1 DEF Step, OrderInv, W3Rows, RowsAtRest
<1>4. ControlKeeps
  BY <1>1, <1>2, <1>3, QuietControl DEF orderVars
<1>5. OneCreator => OrdersOK'
  BY <1>1 DEF Step, OrderInv, OrdersOK, orderVars
<1>6. ASSUME AnswersFirst PROVE CapturesOK'
  <2>1. CapturesOK /\ UNCHANGED <<txState, told>>
    BY <1>1, <1>6 DEF Step, OrderInv, ledgerVars, orderVars
  <2> SUFFICES ASSUME NEW u \in Txs, NEW k \in EventKinds
               PROVE  /\ event'[<<u, k>>] # "absent" => u \in told
                      /\ event'[<<u, k>>] = "PROCESSED" /\ k \in CaptureKinds
                           => Accounted(u)
    BY <1>2, <1>6, <2>1, CapturesKept
  <2>2. <<u, k>> \in Events
    BY DEF Events
  <2>3. (event'[<<u, k>>] = "sent" /\ u = t) \/ event'[<<u, k>>] = event[<<u, k>>]
    BY <1>1, <2>2
  <2> QED BY <1>1, <2>1, <2>3 DEF CapturesOK
<1> QED BY <1>4, <1>5, <1>6 DEF Result

LEMMA LapseOrdered ==
  ASSUME Step, NEW t \in Txs, HoldLapse(t)
  PROVE  Result
<1>1. HoldsLapse /\ UNCHANGED <<txState, orderVars, event, pc, stage, todo, cur>>
  BY DEF HoldLapse, sweepVars
<1>3. Frame(Sweeper) /\ (OneCreator => OrdersOK') /\ (AnswersFirst => CapturesOK')
  BY <1>1, RowsCalm
<1>4. W3Rows' /\ RowsAtRest'
  BY <1>1 DEF Step, OrderInv, W3Rows, RowsAtRest
<1>5. ControlKeeps
  BY <1>1, <1>3, <1>4, QuietControl DEF orderVars
<1> QED BY <1>3, <1>5 DEF Result

LEMMA DeliverOrdered ==
  ASSUME Step, NEW e \in Events, Deliver(e)
  PROVE  Result
<1>1. /\ event[e] = "sent" /\ event' = [event EXCEPT ![e] = "RECEIVED"] /\ Goto(e, "read")
      /\ UNCHANGED <<ledgerVars, txState, orderVars>>
  BY DEF Deliver
<1>2. e \in Procs /\ e \in Handlers /\ EventOf(e) = e /\ e \notin Txs
  BY ProcTypes, ProcAssumption DEF EventOf, Handlers
<1>3. Frame(e)
  <2>1. EventsKept
    BY <1>1 DEF EventsKept, Step, SettlementInv, DataOK
  <2> QED BY <1>1, <2>1, SameStates, SameOrders DEF Frame
<1>4. EventOf(e)' = e
  BY <1>1, <1>2, SameRow
<1>5. "read" \in PCs /\ "read" \in HandlerPCs
      /\ "read" \notin OrderPCs \union ReservePCs \union T5PCs
  BY DEF PCs, HandlerPCs, OrderPCs, ReservePCs, T5PCs
<1>6. Needs(e, "read")'
  BY <1>2, <1>4, <1>5 DEF Needs, RoleNeeds, ReserveNeeds, OrderNeeds, CaptureNeeds, Creating
<1>7. ControlKeeps
  BY <1>1, <1>2, <1>3, <1>5, <1>6, Went DEF Creating
<1>8. OneCreator => OrdersOK'
  BY <1>1 DEF Step, OrderInv, OrdersOK, orderVars
<1>9. AnswersFirst => CapturesOK'
  <2> SUFFICES ASSUME AnswersFirst PROVE CapturesOK'
    OBVIOUS
  <2>1. CapturesOK /\ UNCHANGED <<txState, told>>
    BY <1>1 DEF Step, OrderInv, ledgerVars, orderVars
  <2> SUFFICES ASSUME NEW u \in Txs, NEW k \in EventKinds
               PROVE  /\ event'[<<u, k>>] # "absent" => u \in told
                      /\ event'[<<u, k>>] = "PROCESSED" /\ k \in CaptureKinds
                           => Accounted(u)
    BY <1>3, <2>1, CapturesKept DEF Frame
  <2>2. <<u, k>> \in Events
    BY DEF Events
  <2>3. (event'[<<u, k>>] = "RECEIVED" /\ event[<<u, k>>] = "sent")
        \/ event'[<<u, k>>] = event[<<u, k>>]
    BY <1>1, <2>2 DEF Step, SettlementInv, DataOK
  <2> QED BY <2>1, <2>3 DEF CapturesOK
<1> QED BY <1>7, <1>8, <1>9 DEF Result

LEMMA StatementFailsOrdered ==
  ASSUME Step, NEW p \in Procs, StatementFails(p)
  PROVE  Result
<1>1. UNCHANGED <<ledgerVars, txState, orderVars, event>> /\ pc[p] # "idle"
  BY DEF StatementFails, dbVars, At, OrderPCs, ReservePCs, T5PCs, HandlerPCs
<1>2. Frame(p) /\ (OneCreator => OrdersOK') /\ (AnswersFirst => CapturesOK')
  BY <1>1, RowsCalm DEF Step
<1>3. CASE pc[p] \in OrderPCs /\ OrderFails(p)
  BY <1>2, <1>3, Failed DEF Result
<1>4. CASE Return(p) \/ Throw(p)
  BY <1>1, <1>2, <1>4, Left DEF Result
<1>5. CASE At(p, "casReserved") /\ Goto(p, "casReleased")
  <2>1. EventOf(p)' \in Txs
    BY <1>5, SameRow, Busy, <1>1 DEF At, Needs, RoleNeeds, ReservePCs
  <2>2. Needs(p, "casReleased")'
    BY <2>1 DEF Needs, RoleNeeds, ReserveNeeds, OrderNeeds, CaptureNeeds, Creating,
                OrderPCs, T5PCs, HandlerPCs
  <2>3. "casReleased" \in PCs \ Creating
    BY DEF PCs, ReservePCs, Creating, OrderPCs
  <2> QED BY <1>1, <1>2, <1>5, <2>2, <2>3, Went DEF Result
<1> QED BY <1>3, <1>4, <1>5 DEF StatementFails

\* After a crash nobody relies on anything but the rows.
LEMMA CrashOrdered ==
  ASSUME Step, Crash
  PROVE  Result
<1>1. /\ pc' = [p \in Procs |-> "idle"] /\ stage' = "begin" /\ todo' = {} /\ cur' = Nobody
      /\ UNCHANGED <<ledgerVars, txState, orderVars, event>>
  BY DEF Crash, NewTick, dbVars
<1>2. LeavesHeld /\ (OneCreator => OrdersOK') /\ (AnswersFirst => CapturesOK')
  BY <1>1, RowsCalm DEF Step, Frame
<1>3. PlacesOK'
  BY <1>1 DEF PlacesOK, Needs, RoleNeeds, ReserveNeeds, OrderNeeds, CaptureNeeds, Creating,
              ReservePCs, OrderPCs, T5PCs, HandlerPCs
<1>4. OrderedWasReserved'
  BY <1>2, OrderedKept
<1>5. ClaimExclusive' /\ W3Rows' /\ RowsAtRest'
  BY <1>1, ProcAssumption DEF ClaimExclusive, W3Rows, RowsAtRest
<1> QED BY <1>2, <1>3, <1>4, <1>5 DEF Result, ControlKeeps

LEMMA EnvOrdered ==
  ASSUME Step, EnvStep
  PROVE  Result
BY SendOrdered, LapseOrdered, DeliverOrdered, CreateOrderOrdered, StatementFailsOrdered,
   CrashOrdered DEF EnvStep, BuyerPays, BuyerPaysMismatch, PaymentFails

----------------------------------------------------------------------------
(* The theorems.                                                           *)

LEMMA OrderStarts == Init => OrderInv
<1> SUFFICES ASSUME Init PROVE OrderInv
  OBVIOUS
<1> USE DEF Init
<1>1. PlacesOK
  BY DEF PlacesOK, Needs, RoleNeeds, ReserveNeeds, OrderNeeds, CaptureNeeds, Creating,
         ReservePCs, OrderPCs, T5PCs, HandlerPCs
<1>2. W3Rows /\ RowsAtRest
  BY ProcAssumption DEF W3Rows, RowsAtRest
<1>3. OrderedWasReserved /\ ClaimExclusive
  BY DEF OrderedWasReserved, ClaimExclusive, TxStates
<1>4. OrdersOK
  BY DEF OrdersOK
<1>5. CapturesOK
  <2>1. \A t \in Txs, k \in EventKinds : event[<<t, k>>] = "absent"
    BY DEF Events
  <2> QED BY <2>1 DEF CapturesOK, LedgerInit
<1> QED BY <1>1, <1>2, <1>3, <1>4, <1>5 DEF OrderInv

\* Every step keeps OrderInv.
THEOREM StepKeepsOrder ==
  SettlementInv /\ LedgerTypeOK /\ OrderInv /\ [Next]_vars => OrderInv'
<1> SUFFICES ASSUME SettlementInv, LedgerTypeOK, OrderInv, [Next]_vars PROVE OrderInv'
  OBVIOUS
<1>1. Step
  <2>1. TxMoves
    BY StepKeepsSettlement
  <2>2. LedgerStep
    BY StepRefines DEF SettlementInv, StepOK
  <2> QED BY <2>1, <2>2, HoldsAreKept DEF Step
<1>2. ASSUME NEW t \in Txs,
             SettleStep(t) \/ ReserveStep(t) \/ OrderStep(t) \/ QueuedCompletion(t)
      PROVE  Result
  <2>1. t \in Procs
    BY ProcTypes
  <2>2. CASE QueuedCompletion(t)
    BY <1>1, <2>2, CompletionOrdered DEF QueuedCompletion, sweepVars
  <2> QED BY <1>1, <1>2, <2>1, <2>2, SettleOrdered, ReserveOrdered, OrderOrdered
<1>3. ASSUME NEW e \in Events, HandlerStep(e) PROVE Result
  BY <1>1, <1>3, HandlerOrdered DEF Handlers
<1>4. ASSUME SweepStep PROVE Result
  BY <1>1, <1>4, SweepOrdered
<1>5. ASSUME EnvStep PROVE Result
  BY <1>1, <1>5, EnvOrdered
<1>6. ASSUME UNCHANGED vars PROVE Result
  <2>1. UNCHANGED <<ledgerVars, txState, orderVars, event, pc, stage, todo, cur>>
    BY <1>6 DEF vars, dbVars, sweepVars
  <2>2. Frame(Sweeper) /\ (OneCreator => OrdersOK') /\ (AnswersFirst => CapturesOK')
    BY <1>1, <2>1, RowsCalm DEF Step
  <2>3. W3Rows' /\ RowsAtRest'
    BY <2>1 DEF OrderInv, W3Rows, RowsAtRest
  <2>4. ControlKeeps
    BY <1>1, <2>1, <2>2, <2>3, QuietControl DEF orderVars
  <2> QED BY <2>2, <2>4 DEF Result
<1>7. Result
  BY <1>2, <1>3, <1>4, <1>5, <1>6 DEF Next
<1> QED BY <1>7 DEF Result, ControlKeeps, OrderInv

\* OrderInv is an invariant of every run of the settlement module.
THEOREM OrdersAreSafe == Spec => []OrderInv
<1>1. Spec => []LedgerTypeOK
  BY ImplementsLedger, LedgerTypeCorrect, PTL
<1>2. SettlementInv /\ LedgerTypeOK /\ OrderInv /\ [Next]_vars => OrderInv'
  BY StepKeepsOrder
<1> QED BY <1>1, <1>2, OrderStarts, SettlementSafe, PTL DEF Spec

\* No cart passes STOCK_RESERVED without its whole reservation, so no buyer is
\* asked to pay for a cart that was never held.
THEOREM OrderedWereReserved == Spec => []OrderedWasReserved
<1>1. OrderInv => OrderedWasReserved
  BY DEF OrderInv
<1> QED BY <1>1, OrdersAreSafe, PTL

\* T4a elects one creator among those that contend for the claim: a settle worker
\* and the W2 sweep are never both past it for one transaction, whatever crashed
\* or was resumed before.  It does not bound W3, which retries creation without
\* the claim (skipClaim) and may run beside a slow settle worker.
THEOREM ClaimIsExclusive == Spec => []ClaimExclusive
<1>1. OrderInv => ClaimExclusive
  BY DEF OrderInv
<1> QED BY <1>1, OrdersAreSafe, PTL

\* Where requests end before the sweep's thresholds, or the provider repeats
\* its answer, no order flagged AMBIGUOUS was ever shown to a buyer.  With slow
\* requests and a provider that refuses a receipt it has seen, it can be: the
\* sweep's second request is refused while the first one is being recorded.
THEOREM AmbiguousIsUnpayable ==
  ASSUME OneCreator
  PROVE  Spec => []AmbiguousUnpayable
<1>1. OrderInv => AmbiguousUnpayable
  BY DEF OrderInv, OrdersOK, AmbiguousUnpayable
<1> QED BY <1>1, OrdersAreSafe, PTL

\* A payment whose reports were all handled is on record (paid, sold or queued
\* for refund), unless its hold lapsed before the handler's compare-and-set or
\* an earlier attempt had failed: the two ways the handler acknowledges a capture
\* it cannot place (webhook-handler.ts:237 and :246).
CaptureAccounted == \A t \in Txs : CaptureHandled(t) => Accounted(t)

\* Where the buyer learns the order id from the reply of settle and one process
\* creates the order, no handled capture is lost in any other way: through
\* crashes, failed statements, redrives, lapsing holds and failed attempts no
\* transaction stays open, or ends RELEASED, behind a payment that was handled.
THEOREM CapturesAreAccounted ==
  ASSUME AnswersFirst
  PROVE  Spec => []CaptureAccounted
<1>1. OrderInv => CaptureAccounted
  <2> SUFFICES ASSUME OrderInv, NEW t \in Txs, CaptureHandled(t)
               PROVE  Accounted(t)
    BY DEF CaptureAccounted
  <2>1. PICK k \in CaptureKinds \intersect EventKinds : event[<<t, k>>] = "PROCESSED"
    BY DEF CaptureHandled
  <2> QED BY <2>1 DEF OrderInv, CapturesOK
<1> QED BY <1>1, OrdersAreSafe, PTL
=============================================================================
