------------------------------ MODULE Pipeline ------------------------------
(***************************************************************************)
(* A proposal from its HTTP request to its outcome: the intake that claims *)
(* an idempotency key, the detached pipeline run, the approvals inbox, the *)
(* stall sweep and the poll, concurrently and across process crashes.      *)
(*                                                                         *)
(* settle() is seen from outside: it inserts the transactions row, the row *)
(* moves along the authority table whoever moves it (Settlement shows that *)
(* it makes no other move), and the call answers or throws.  The buyer,    *)
(* the merchant and the clock act when they like.                          *)
(***************************************************************************)
EXTENDS Naturals, TxStateMachine

CONSTANTS
  Requests,  \* POST /v1/carts/proposals calls; each mints the tx id it is named for
  Keys,      \* idempotency keys of one buying agent
  Bodies,    \* request bodies, compared by their hash
  NoTx,
  SlowRuns,  \* a live run may go 120 s without touching its row
  MaxRules,  \* bound on merchant rules versions
  MaxFaults  \* bound on crashes and database errors

\* A tx id is no other answer of the intake; the rules have a first version.
ASSUME PipelineAssumption ==
  /\ {NoTx, "NONE", "CONFLICT"} \intersect Requests = {}
  /\ SlowRuns \in BOOLEAN
  /\ {MaxRules, MaxFaults} \subseteq Nat /\ MaxRules > 0

Runs == Requests \X {"run"}
Inbox == Requests \X {"approve", "reject"}
Workers == Runs \union Inbox
TxOf(w) == w[1]

VARIABLES
  claim,     \* proposal_idempotency.tx_id of a key
  asked,     \* key and body of a request
  reply,     \* tx id the intake answered, or "CONFLICT"
  stage,     \* proposal_txs.stage, "ABSENT" before the insert
  outcome,   \* proposal_txs.outcome_json; RETRY is FAILED with retryable: true
  decided,   \* the gatekeeper_decision of the audit trail
  rules,     \* current merchant rules version
  snapshot,  \* rules version a run read for its gate
  pinned,    \* proposal_txs.rules_version
  minted,    \* rules version under which the settleable cart was minted
  approval,  \* status and decision of the approvals row; SPENT has consumed_at
  lapsed,    \* approvals past expires_at
  answer,    \* HTTP status an inbox handler answered
  pc,
  faults

rowVars == <<stage, outcome>>
intakeVars == <<claim, asked, reply>>
gateVars == <<decided, snapshot, pinned, minted>>
inboxVars == <<approval, lapsed, answer>>
pipeVars == <<intakeVars, rowVars, gateVars, rules, inboxVars, pc, faults, txState>>

NONE == "NONE"
Recordings == {"APPROVED", "FAILED", "RETRY"}
RunPCs == {"insert", "context", "negotiate", "audit", "rules", "gate", "route",
           "shelve", "escalate", "failing"}
InboxPCs == {"resolve", "enter", "consume", "decline"}
PipePCs == {"idle", "settle", "settling", "done"} \union RunPCs \union InboxPCs \union Recordings

PipeInit ==
  /\ claim = [k \in Keys |-> NoTx]
  /\ asked = [r \in Requests |-> <<>>]
  /\ reply = [r \in Requests |-> NONE]
  /\ stage = [t \in Requests |-> "ABSENT"]
  /\ outcome = [t \in Requests |-> NONE]
  /\ decided = [t \in Requests |-> NONE]
  /\ rules = 1
  /\ snapshot = [t \in Requests |-> 0]
  /\ pinned = [t \in Requests |-> 0]
  /\ minted = [t \in Requests |-> 0]
  /\ approval = [t \in Requests |-> NONE]
  /\ lapsed = {}
  /\ answer = [w \in Inbox |-> 0]
  /\ pc = [w \in Workers |-> "idle"]
  /\ faults = 0
  /\ txState = [t \in Requests |-> "ABSENT"]

----------------------------------------------------------------------------
(* Building blocks.                                                        *)

At(w, label) == pc[w] = label
Goto(w, label) == pc' = [pc EXCEPT ![w] = label]
FaultHappens == faults < MaxFaults /\ faults' = faults + 1

Live(w) == pc[w] \notin {"idle", "done"}

SetStage(t, s) == stage' = [stage EXCEPT ![t] = s] /\ UNCHANGED outcome

\* UPDATE proposal_txs, whatever the row says.
DbUpdate(t, s, o) ==
  /\ stage' = [stage EXCEPT ![t] = s]
  /\ outcome' = [outcome EXCEPT ![t] = o]

----------------------------------------------------------------------------
(* Intake.                                                                 *)

\* A request has no name before it arrives.
NextRequest == CHOOSE r \in Requests : asked[r] = <<>>

\* Mutant: the loser of the claim enqueues a run as well.
Post_EnqueueAlways(r, k, b) ==
  LET t == IF claim[k] = NoTx THEN r ELSE claim[k] IN
  /\ asked[r] = <<>> /\ r = NextRequest
  /\ asked' = [asked EXCEPT ![r] = <<k, b>>]
  /\ claim' = [claim EXCEPT ![k] = t]
  /\ Goto(<<r, "run">>, "insert")
  /\ reply' = [reply EXCEPT ![r] =
       IF t # r /\ asked[t] # <<k, b>> THEN "CONFLICT" ELSE t]
  /\ UNCHANGED <<rowVars, gateVars, rules, inboxVars, faults, txState>>

\* The first request of a key claims it and enqueues the run; a later one
\* gets the same tx id, or 409 when its body differs.
Post(r, k, b) ==
  LET t == IF claim[k] = NoTx THEN r ELSE claim[k] IN
  /\ asked[r] = <<>> /\ r = NextRequest
  /\ asked' = [asked EXCEPT ![r] = <<k, b>>]
  /\ claim' = [claim EXCEPT ![k] = t]
  /\ IF t = r THEN Goto(<<r, "run">>, "insert") ELSE UNCHANGED pc
  /\ reply' = [reply EXCEPT ![r] =
       IF t # r /\ asked[t] # <<k, b>> THEN "CONFLICT" ELSE t]
  /\ UNCHANGED <<rowVars, gateVars, rules, inboxVars, faults, txState>>

\* What GET /v1/carts/proposals/:txId shows of a run.
Pending(status) == [status |-> status, payment |-> NONE, under |-> 0]
Told(status, payment, version) == [status |-> status, payment |-> payment, under |-> version]

Payment(t) == IF txState[t] \in {"PAID", "COMPLETED"} THEN "PAID" ELSE "AWAITING_WEBHOOK"

\* Mutant: the version is the one in force now.
VersionApplied_Current(t) == rules

\* A run that failed before its gate has no version of its own.
VersionApplied(t) == IF pinned[t] = 0 THEN rules ELSE pinned[t]

\* An escalated run without its approval row is an internal error.
ApprovalRequest(t) ==
  IF approval[t] = NONE THEN Pending("500") ELSE Told("ESCALATED", NONE, VersionApplied(t))

\* A run that is not inserted or has no outcome is pending; an approved one
\* stays in settlement until its transaction is there to show.
Poll(t) ==
  CASE outcome[t] = NONE ->
         Pending(IF stage[t] \in {"ABSENT", "TERMINAL"} THEN "PROPOSING" ELSE stage[t])
    [] outcome[t] = "APPROVED" ->
         IF txState[t] = "ABSENT" THEN Pending("SETTLING")
           ELSE Told("APPROVED", Payment(t), VersionApplied(t))
    [] outcome[t] = "ESCALATED" -> ApprovalRequest(t)
    [] OTHER -> Told(outcome[t], NONE, VersionApplied(t))

----------------------------------------------------------------------------
(* The run.                                                                *)

Step(t, from, to) ==
  /\ At(<<t, "run">>, from)
  /\ Goto(<<t, "run">>, to)
  /\ UNCHANGED <<intakeVars, rules, lapsed, answer, faults, txState>>

\* INSERT ... ON CONFLICT DO NOTHING with a fresh tx id, then INTAKE.
InsertRun(t) ==
  /\ Step(t, "insert", "context")
  /\ SetStage(t, "PROPOSING")
  /\ UNCHANGED <<gateVars, approval>>

\* CONTEXT_BUILD and CAMPAIGN_INJECT.
ContextBuild(t) ==
  /\ Step(t, "context", "negotiate")
  /\ SetStage(t, "BUILDING_EVIDENCE")
  /\ UNCHANGED <<gateVars, approval>>

Negotiate(t) ==
  /\ Step(t, "negotiate", "audit")
  /\ SetStage(t, "NEGOTIATING")
  /\ UNCHANGED <<gateVars, approval>>

CitationAudit(t) ==
  /\ Step(t, "audit", "rules")
  /\ SetStage(t, "CITATION_AUDIT")
  /\ UNCHANGED <<gateVars, approval>>

\* One snapshot for the gate and for the cart minted from it.
ReadRules(t) ==
  /\ Step(t, "rules", "gate")
  /\ snapshot' = [snapshot EXCEPT ![t] = rules]
  /\ UNCHANGED <<rowVars, decided, pinned, minted, approval>>

Gatekeeper(t) ==
  /\ Step(t, "gate", "route")
  /\ SetStage(t, "GATE_CHECKING")
  /\ pinned' = [pinned EXCEPT ![t] = snapshot[t]]
  /\ \E d \in {"APPROVE", "DECLINE", "ESCALATE"} : decided' = [decided EXCEPT ![t] = d]
  /\ UNCHANGED <<snapshot, minted, approval>>

\* Mutant: the rules are fetched a second time.
Mint_Refetch(t) == minted' = [minted EXCEPT ![t] = rules] /\ UNCHANGED <<decided, snapshot, pinned>>

Mint(t) == minted' = [minted EXCEPT ![t] = snapshot[t]] /\ UNCHANGED <<decided, snapshot, pinned>>

RouteApprove(t) ==
  /\ decided[t] = "APPROVE"
  /\ Step(t, "route", "settle")
  /\ Mint(t)
  /\ UNCHANGED <<rowVars, approval>>

RouteDecline(t) ==
  /\ decided[t] = "DECLINE"
  /\ Step(t, "route", "done")
  /\ DbUpdate(t, "TERMINAL", "DECLINED")
  /\ UNCHANGED <<gateVars, approval>>

\* createApproval: the cart is frozen and in the inbox from here.
RouteEscalate(t) ==
  /\ decided[t] = "ESCALATE"
  /\ Step(t, "route", "shelve")
  /\ Mint(t)
  /\ approval' = [approval EXCEPT ![t] = "PENDING"]
  /\ UNCHANGED rowVars

AwaitApproval(t) ==
  /\ Step(t, "shelve", "escalate")
  /\ SetStage(t, "AWAITING_HUMAN_APPROVAL")
  /\ UNCHANGED <<gateVars, approval>>

RecordEscalated(t) ==
  /\ Step(t, "escalate", "done")
  /\ DbUpdate(t, "AWAITING_HUMAN_APPROVAL", "ESCALATED")
  /\ UNCHANGED <<gateVars, approval>>

----------------------------------------------------------------------------
(* settle(), for a run that was approved or an inbox handler that resumes. *)

\* Mutant: the token is checked and not consumed.
ConsumeToken_Unmarked(w) ==
  /\ At(w, "consume")
  /\ Goto(w, IF approval[TxOf(w)] = "APPROVED" THEN "settle" ELSE "FAILED")
  /\ UNCHANGED <<intakeVars, rowVars, gateVars, rules, inboxVars, faults, txState>>

\* consumed_at is set once, on a resolved and approved row.
ConsumeToken(w) ==
  LET ok == approval[TxOf(w)] = "APPROVED" IN
  /\ At(w, "consume")
  /\ Goto(w, IF ok THEN "settle" ELSE "FAILED")
  /\ approval' = IF ok THEN [approval EXCEPT ![TxOf(w)] = "SPENT"] ELSE approval
  /\ UNCHANGED <<intakeVars, rowVars, gateVars, rules, lapsed, answer, faults, txState>>

SettleInsert(w) ==
  LET fresh == txState[TxOf(w)] = "ABSENT" IN
  /\ At(w, "settle")
  /\ Goto(w, IF fresh THEN "settling" ELSE "FAILED")
  /\ txState' = IF fresh THEN [txState EXCEPT ![TxOf(w)] = "PROPOSAL_APPROVED"] ELSE txState
  /\ UNCHANGED <<intakeVars, rowVars, gateVars, rules, inboxVars, faults>>

\* The settle worker, the sweep or a webhook moves the row.
TransactionMoves(t) ==
  /\ \E s \in Successors(txState[t]) : CasTransition(t, txState[t], s)
  /\ UNCHANGED <<intakeVars, rowVars, gateVars, rules, inboxVars, pc, faults>>

Unordered == {"PROPOSAL_APPROVED", "STOCK_RESERVED", "ORDER_CREATING", "RZP_ORDER_CREATED"}

\* settle answers 201 after T6, throws 503 with the order in the making, or
\* throws for one of its other reasons at any point.
SettleEnds(w) ==
  /\ At(w, "settling")
  /\ \/ txState[TxOf(w)] \notin Unordered /\ Goto(w, "APPROVED")
     \/ txState[TxOf(w)] = "ORDER_CREATING" /\ Goto(w, "RETRY")
     \/ Goto(w, "FAILED")
  /\ UNCHANGED <<intakeVars, rowVars, gateVars, rules, inboxVars, faults, txState>>

\* finishNonTerminal("SETTLING", terminalOutcomeJson(terminal)).  The narration
\* that follows in a run touches no row, and a throw in it finds the outcome set.
RecordSettled(w) ==
  /\ pc[w] \in Recordings
  /\ DbUpdate(TxOf(w), "SETTLING", pc[w])
  /\ Goto(w, "done")
  /\ answer' = IF w \in Inbox THEN [answer EXCEPT ![w] = 202] ELSE answer
  /\ UNCHANGED <<intakeVars, gateVars, rules, approval, lapsed, faults, txState>>

----------------------------------------------------------------------------
(* The approvals inbox.                                                    *)

\* The pre-read of the route: 409 once resolved, or when the rules moved since
\* the gate and the caller does not confirm the current version.
PreRead(w) ==
  LET t == TxOf(w) IN
  /\ At(w, "idle") /\ approval[t] # NONE /\ answer[w] = 0
  /\ \/ approval[t] = "PENDING" /\ Goto(w, "resolve") /\ UNCHANGED answer
     \/ /\ approval[t] # "PENDING" \/ (w[2] = "approve" /\ pinned[t] # rules)
        /\ answer' = [answer EXCEPT ![w] = 409] /\ UNCHANGED pc
  /\ UNCHANGED <<intakeVars, rowVars, gateVars, rules, approval, lapsed, faults, txState>>

Verdict(w) == IF w[2] = "approve" THEN "APPROVED" ELSE "REJECTED"
Resumes(w) == IF w[2] = "approve" THEN "enter" ELSE "decline"

\* Mutant: the status read by the route is trusted.
Resolve_Unguarded(w) ==
  /\ At(w, "resolve")
  /\ approval' = [approval EXCEPT ![TxOf(w)] = Verdict(w)]
  /\ Goto(w, Resumes(w))
  /\ UNCHANGED <<intakeVars, rowVars, gateVars, rules, lapsed, answer, faults, txState>>

\* resolveApproval, one transaction under the row lock: the first resolution
\* wins.  An approval past expires_at throws, and the caller in server.ts turns
\* any throw into { already: false }, which the route answers with 202.
Resolve(w) ==
  LET t == TxOf(w)
      expired == w[2] = "approve" /\ t \in lapsed
  IN
  /\ At(w, "resolve")
  /\ IF approval[t] = "PENDING" /\ ~expired
       THEN /\ approval' = [approval EXCEPT ![t] = Verdict(w)]
            /\ Goto(w, Resumes(w))
            /\ UNCHANGED answer
       ELSE /\ Goto(w, "done")
            /\ answer' = [answer EXCEPT ![w] = IF approval[t] = "PENDING" THEN 202 ELSE 409]
            /\ UNCHANGED approval
  /\ UNCHANGED <<intakeVars, rowVars, gateVars, rules, lapsed, faults, txState>>

EnterSettling(w) ==
  /\ At(w, "enter")
  /\ SetStage(TxOf(w), "SETTLING")
  /\ Goto(w, "consume")
  /\ UNCHANGED <<intakeVars, gateVars, rules, inboxVars, faults, txState>>

DeclineByHuman(w) ==
  /\ At(w, "decline")
  /\ DbUpdate(TxOf(w), "TERMINAL", "DECLINED")
  /\ Goto(w, "done")
  /\ answer' = [answer EXCEPT ![w] = 202]
  /\ UNCHANGED <<intakeVars, gateVars, rules, approval, lapsed, faults, txState>>

\* The clock passes expires_at, minutes after the escalation.
ApprovalLapses(t) ==
  /\ approval[t] = "PENDING" /\ t \notin lapsed
  /\ SlowRuns \/ ~Live(<<t, "run">>)
  /\ lapsed' = lapsed \union {t}
  /\ UNCHANGED <<intakeVars, rowVars, gateVars, rules, approval, answer, pc, faults, txState>>

PutRules ==
  /\ rules < MaxRules
  /\ rules' = rules + 1
  /\ UNCHANGED <<intakeVars, rowVars, gateVars, inboxVars, pc, faults, txState>>

----------------------------------------------------------------------------
(* Failure.                                                                *)

\* A statement throws: a run goes to its .catch, an inbox handler answers 202.
Throws(w) ==
  /\ Live(w) /\ ~At(w, "failing") /\ FaultHappens
  /\ Goto(w, IF w \in Runs THEN "failing" ELSE "done")
  /\ answer' = IF w \in Inbox THEN [answer EXCEPT ![w] = 202] ELSE answer
  /\ UNCHANGED <<intakeVars, rowVars, gateVars, rules, approval, lapsed, txState>>

\* UPDATE ... WHERE outcome_json IS NULL: no row, no effect.
CloseOut(t) ==
  IF stage[t] # "ABSENT" /\ outcome[t] = NONE
    THEN DbUpdate(t, "TERMINAL", "RETRY") ELSE UNCHANGED rowVars

FailRunNow(t) ==
  /\ At(<<t, "run">>, "failing")
  /\ CloseOut(t)
  /\ Goto(<<t, "run">>, "done")
  /\ UNCHANGED <<intakeVars, gateVars, rules, inboxVars, faults, txState>>

\* The process dies with every request and run in it.
Crash ==
  /\ FaultHappens
  /\ pc' = [w \in Workers |-> IF Live(w) THEN "done" ELSE pc[w]]
  /\ UNCHANGED <<intakeVars, rowVars, gateVars, rules, inboxVars, txState>>

Stalled(t) == stage[t] # "ABSENT" /\ outcome[t] = NONE /\ (SlowRuns \/ ~Live(<<t, "run">>))

\* Mutant: a row already in SETTLING is left to the settlement sweep.
StallSweep_NotAfterGate(t) ==
  /\ Stalled(t) /\ stage[t] # "GATE_CHECKING"
  /\ CloseOut(t)
  /\ UNCHANGED <<intakeVars, gateVars, rules, inboxVars, pc, faults, txState>>

\* sweepStalledProposals, for one of the rows its UPDATE selects.
StallSweep(t) ==
  /\ Stalled(t)
  /\ CloseOut(t)
  /\ UNCHANGED <<intakeVars, gateVars, rules, inboxVars, pc, faults, txState>>

----------------------------------------------------------------------------
RunStep(t) ==
  \/ InsertRun(t) \/ ContextBuild(t) \/ Negotiate(t) \/ CitationAudit(t)
  \/ ReadRules(t) \/ Gatekeeper(t) \/ RouteApprove(t) \/ RouteDecline(t)
  \/ RouteEscalate(t) \/ AwaitApproval(t) \/ RecordEscalated(t) \/ FailRunNow(t)

SettleStep(w) == SettleInsert(w) \/ SettleEnds(w) \/ RecordSettled(w)

InboxStep(w) == Resolve(w) \/ EnterSettling(w) \/ ConsumeToken(w) \/ DeclineByHuman(w)

PipeNext ==
  \/ \E r \in Requests, k \in Keys, b \in Bodies : Post(r, k, b)
  \/ \E t \in Requests :
       RunStep(t) \/ TransactionMoves(t) \/ ApprovalLapses(t) \/ StallSweep(t)
  \/ \E w \in Workers : SettleStep(w) \/ Throws(w)
  \/ \E w \in Inbox : PreRead(w) \/ InboxStep(w)
  \/ PutRules
  \/ Crash

\* The event loop runs every pending step, and server.ts sweeps at an interval;
\* nothing makes the buyer, the merchant or the transaction move.
PipeFairness ==
  /\ \A t \in Requests : WF_pipeVars(RunStep(t)) /\ WF_pipeVars(StallSweep(t))
  /\ \A w \in Workers : WF_pipeVars(SettleStep(w))
  /\ \A w \in Inbox : WF_pipeVars(InboxStep(w))

PipeSpec == PipeInit /\ [][PipeNext]_pipeVars /\ PipeFairness

----------------------------------------------------------------------------
(* Properties.                                                             *)

PipeTypeOK ==
  /\ claim \in [Keys -> Requests \union {NoTx}]
  /\ asked \in [Requests -> (Keys \X Bodies) \union {<<>>}]
  /\ reply \in [Requests -> Requests \union {NONE, "CONFLICT"}]
  /\ stage \in [Requests -> {"ABSENT", "PROPOSING", "BUILDING_EVIDENCE", "NEGOTIATING",
       "CITATION_AUDIT", "GATE_CHECKING", "AWAITING_HUMAN_APPROVAL", "SETTLING", "TERMINAL"}]
  /\ outcome \in [Requests -> Recordings \union {NONE, "DECLINED", "ESCALATED"}]
  /\ decided \in [Requests -> {NONE, "APPROVE", "DECLINE", "ESCALATE"}]
  /\ rules \in 1 .. MaxRules
  /\ {snapshot, pinned, minted} \subseteq [Requests -> 0 .. MaxRules]
  /\ approval \in [Requests -> {NONE, "PENDING", "APPROVED", "REJECTED", "SPENT"}]
  /\ lapsed \subseteq Requests
  /\ answer \in [Inbox -> {0, 202, 409}]
  /\ pc \in [Workers -> PipePCs]
  /\ faults \in 0 .. MaxFaults
  /\ txState \in [Requests -> TxStates \union {"ABSENT"}]

\* A key and its retries start at most one run, and every retry that is not
\* refused is told the transaction of a request with the same key and body.
KeyNamesOneRun ==
  /\ \A t, u \in Requests :
       stage[t] # "ABSENT" /\ stage[u] # "ABSENT" /\ asked[t][1] = asked[u][1] => t = u
  /\ \A r \in Requests : reply[r] \in Requests => asked[reply[r]] = asked[r]

\* No money moves before a decision: the gate approved the cart on its own, or
\* escalated it and the one approval of a merchant was spent on it.  A rejected
\* or expired approval never becomes a transaction, whatever the two handlers
\* and the run interleave.
SettledWasDecided ==
  \A t \in Requests : txState[t] # "ABSENT" =>
    decided[t] = "APPROVE" \/ (decided[t] = "ESCALATE" /\ approval[t] = "SPENT")

\* What a poll answers did happen, even for a run the stall sweep or a second
\* writer overwrote: an approved cart has its transaction to show, a declined one
\* has none and never had an approval, an escalated one has its inbox row.  The
\* rules version shown is the one the gate evaluated and the cart was minted
\* under, with a PUT of the rules at any moment.
OutcomeIsTrue ==
  \A t \in Requests :
    LET told == Poll(t) IN
    /\ told.status # "500"
    /\ outcome[t] = "APPROVED" => told.status = "APPROVED"
    /\ told.status = "DECLINED" => txState[t] = "ABSENT" /\ approval[t] \in {NONE, "REJECTED"}
    /\ told.status \in {"APPROVED", "DECLINED", "ESCALATED"} => told.under = snapshot[t]
    /\ minted[t] # 0 => minted[t] = pinned[t] /\ pinned[t] = snapshot[t]

\* A run that inserted its row ends with an outcome the poll can show, through
\* crashes and thrown statements.
RunsEnd == \A t \in Requests : stage[t] # "ABSENT" ~> outcome[t] # NONE

\* The comment of the stall sweep: a run it closes settled nothing.
RetryableWasNotSettled ==
  \A t \in Requests : stage[t] = "TERMINAL" /\ outcome[t] = "RETRY" => txState[t] = "ABSENT"

\* api-contract.md: of an approve and a reject of one approval, one gets 202.  The
\* resolver that finds the row RESOLVED is told so (409); an approve that comes
\* after the expiry is refused by resolveApproval, and its catch in server.ts
\* answers as for a success, while the reject that then wins is answered so too.
OneResolverWins ==
  \A t \in Requests : ~(answer[<<t, "approve">>] = 202 /\ answer[<<t, "reject">>] = 202)
=============================================================================
