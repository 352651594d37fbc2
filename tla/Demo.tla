-------------------------------- MODULE Demo --------------------------------
(***************************************************************************)
(* The demo control plane: scripted scenarios that enqueue a run and judge *)
(* its outcome, chaos flags, and the reset that re-seeds the database      *)
(* under whatever is running.  A scenario has one transaction and both go  *)
(* by one name.  Of the pipeline only what the demo can see is here: it    *)
(* may take a hold, open an approval, and it writes its outcome without    *)
(* looking at the row, or never does.                                      *)
(***************************************************************************)
EXTENDS Integers, FiniteSets

CONSTANTS
  Shows,         \* scenario runs
  Timeout,       \* the 15 s of pollTerminal
  FlagTTL,       \* the 5 minutes a scenario arms its flag for, and the cap of an operator's
  MaxMeddling    \* bound of the runs: operator calls and failed queries

ASSUME DemoAssumption == Timeout \in Nat \ {0} /\ FlagTTL \in Nat \ {0}

VARIABLES
  show,       \* ScenarioRunner.runs, and where executeScenario stands
  tx,         \* the proposal_txs row of each scenario; `detail` is the order id
              \* of an approval or the reasons of a decline
  approval,   \* its approvals row
  hold,       \* its stock_reservations row
  reserved,   \* inventory.reserved
  rules,      \* newest merchant_rules row: "fixture" or "edited"
  armed,      \* the ChaosController's map
  reset,      \* the reset request in hand
  closed,     \* transactions whose run has written its outcome
  decided,    \* every outcome the pipeline and the inbox recorded, per transaction
  meddled

demoVars == <<show, tx, approval, hold, reserved, rules, armed, reset, closed, decided, meddled>>

Scenarios == {"well_behaved", "adversarial_injection", "high_value_escalate",
              "llm_timeout_chaos", "gateway_error_chaos"}
ChaosShows == {"llm_timeout_chaos", "gateway_error_chaos"}
Flags == {"LLM_TIMEOUT", "GATEWAY_ERROR"}
NoOutcome == "NONE"
Off == [left |-> 0, all |-> FALSE, scope |-> {}]
NoShow == [status |-> "NONE"]
NoReset == [pc |-> "none"]

DemoInit ==
  /\ show = [r \in Shows |-> NoShow]
  /\ tx = [r \in Shows |-> [stage |-> "ABSENT", outcome |-> NoOutcome, detail |-> FALSE]]
  /\ approval = [r \in Shows |-> "NONE"] /\ hold = [r \in Shows |-> "NONE"] /\ reserved = 0
  /\ rules = "edited" /\ armed = [f \in Flags |-> Off]
  /\ reset = NoReset /\ meddled = 0
  /\ closed = {} /\ decided = [r \in Shows |-> {}]

Meddles == meddled < MaxMeddling /\ meddled' = meddled + 1

Less(n) == IF n > 0 THEN n - 1 ELSE 0

DemoTick ==
  /\ show' = [r \in Shows |-> IF show[r] = NoShow THEN NoShow ELSE [show[r] EXCEPT !.left = Less(@)]]
  /\ armed' = [f \in Flags |-> IF armed[f].left > 1 THEN [armed[f] EXCEPT !.left = @ - 1] ELSE Off]
  /\ UNCHANGED <<tx, approval, hold, reserved, rules, reset, closed, decided, meddled>>

----------------------------------------------------------------------------
(* Chaos flags.  Nothing outside the tests asks IsArmed.                   *)

\* One entry per flag: a second arm replaces the first one's scope; an empty
\* scope is everyone.
Arm(flags, flag, scope, ttl) ==
  [flags EXCEPT ![flag] = [left |-> ttl, all |-> scope = {}, scope |-> scope]]

IsArmed(flag, t) == armed[flag].left > 0 /\ (armed[flag].all \/ t \in armed[flag].scope)

PutChaos(flag, scope, ttl) ==
  /\ Meddles /\ armed' = Arm(armed, flag, scope, ttl)
  /\ UNCHANGED <<show, tx, approval, hold, reserved, rules, reset, closed, decided>>

DeleteChaos ==
  /\ Meddles /\ armed' = [f \in Flags |-> Off]
  /\ UNCHANGED <<show, tx, approval, hold, reserved, rules, reset, closed, decided>>

----------------------------------------------------------------------------
(* A scenario.                                                             *)

ExpectedOutcome(s) ==
  CASE s \in {"well_behaved", "llm_timeout_chaos"} -> "APPROVED"
    [] s = "adversarial_injection" -> "DECLINED"
    [] s = "high_value_escalate" -> "ESCALATED"
    [] s = "gateway_error_chaos" -> "FAILED"

\* start, and executeScenario up to its first await: the flag is armed for
\* this transaction only.
StartShow(r, s) ==
  /\ show[r] = NoShow
  /\ show' = [show EXCEPT ![r] = [status |-> "RUNNING", scenario |-> s, pc |-> "claim",
                                  left |-> Timeout, saw |-> NoOutcome, detail |-> FALSE, pass |-> FALSE]]
  /\ armed' = CASE s = "llm_timeout_chaos" -> Arm(armed, "LLM_TIMEOUT", {r}, FlagTTL)
                [] s = "gateway_error_chaos" -> Arm(armed, "GATEWAY_ERROR", {r}, FlagTTL)
                [] OTHER -> armed
  /\ UNCHANGED <<tx, approval, hold, reserved, rules, reset, closed, decided, meddled>>

Running(r, pc) == show[r].status = "RUNNING" /\ show[r].pc = pc

\* The idempotency row, then enqueue; the poll's deadline starts here.
ClaimAndEnqueue(r) ==
  /\ Running(r, "claim")
  /\ show' = [show EXCEPT ![r].pc = "poll", ![r].left = Timeout]
  /\ tx' = [tx EXCEPT ![r].stage = "LIVE"]
  /\ UNCHANGED <<approval, hold, reserved, rules, armed, reset, closed, decided, meddled>>

Overdue(r) == show[r].left = 0

Poll_WithoutDeadline(r) ==
  /\ Running(r, "poll") /\ tx[r].outcome # NoOutcome
  /\ show' = [show EXCEPT ![r].pc = "judge", ![r].saw = tx[r].outcome, ![r].detail = tx[r].detail]
  /\ UNCHANGED <<tx, approval, hold, reserved, rules, armed, reset, closed, decided, meddled>>

\* A look every 50 ms until there is an outcome or the deadline passes.
Poll(r) ==
  /\ Running(r, "poll")
  /\ \/ /\ ~Overdue(r) /\ tx[r].outcome # NoOutcome
        /\ show' = [show EXCEPT ![r].pc = "judge", ![r].saw = tx[r].outcome, ![r].detail = tx[r].detail]
     \/ Overdue(r) /\ show' = [show EXCEPT ![r].pc = "judge"]
  /\ UNCHANGED <<tx, approval, hold, reserved, rules, armed, reset, closed, decided, meddled>>

AssertionsHold_AnyHumanPath(r, s) ==
  /\ s.saw # NoOutcome
  /\ CASE s.scenario = "well_behaved" -> s.saw = "APPROVED" /\ s.detail
       [] s.scenario = "adversarial_injection" -> s.saw = "DECLINED" /\ s.detail
       [] s.scenario = "high_value_escalate" -> s.saw \in {"ESCALATED", "APPROVED"}
       [] OTHER -> s.saw \in {"APPROVED", "FAILED"}

\* evaluateAssertions.  A chaos scenario passes on a failure, whoever wrote it.
AssertionsHold(r, s) ==
  /\ s.saw # NoOutcome
  /\ CASE s.scenario = "well_behaved" -> s.saw = "APPROVED" /\ s.detail
       [] s.scenario = "adversarial_injection" -> s.saw = "DECLINED" /\ s.detail
       [] s.scenario = "high_value_escalate" -> s.saw = "ESCALATED" /\ approval[r] = "PENDING"
       [] OTHER -> s.saw \in {"APPROVED", "FAILED"}

Judge(r) ==
  /\ Running(r, "judge")
  /\ show' = [show EXCEPT ![r].status = "DONE", ![r].pc = "over", ![r].pass = AssertionsHold(r, show[r])]
  /\ UNCHANGED <<tx, approval, hold, reserved, rules, armed, reset, closed, decided, meddled>>

\* Any query of executeScenario may throw.
ShowFails(r) ==
  /\ show[r].status = "RUNNING" /\ Meddles
  /\ show' = [show EXCEPT ![r].status = "ERROR", ![r].pc = "over"]
  /\ UNCHANGED <<tx, approval, hold, reserved, rules, armed, reset, closed, decided>>

----------------------------------------------------------------------------
(* What the pipeline and settlement do meanwhile.                          *)

Enqueued(r) == tx[r].stage # "ABSENT" /\ r \notin closed

TakesHold(r) ==
  /\ Enqueued(r) /\ hold[r] = "NONE" /\ approval[r] = "NONE"
  /\ hold' = [hold EXCEPT ![r] = "ACTIVE"] /\ reserved' = reserved + 1
  /\ UNCHANGED <<show, tx, approval, rules, armed, reset, closed, decided, meddled>>

\* The inbox row is written before the outcome.
OpensApproval(r) ==
  /\ Enqueued(r) /\ approval[r] = "NONE" /\ hold[r] = "NONE"
  /\ approval' = [approval EXCEPT ![r] = "PENDING"]
  /\ UNCHANGED <<show, tx, hold, reserved, rules, armed, reset, closed, decided, meddled>>

\* What a run may leave behind: a settled or refused cart keeps the stage
\* SETTLING for good, and a run that died is closed at TERMINAL.
Closing(o) == [stage : CASE o = "APPROVED" -> {"SETTLING"} [] o = "ESCALATED" -> {"AWAITING_HUMAN_APPROVAL"}
                         [] o = "DECLINED" -> {"TERMINAL"} [] o = "FAILED" -> {"SETTLING", "TERMINAL"},
               outcome : {o}, detail : {o \in {"APPROVED", "DECLINED"}}]

\* The closing UPDATE is unconditional, but for the one that closes a dead run.
RecordsOutcome(r) ==
  /\ Enqueued(r)
  /\ \E o \in {"APPROVED", "DECLINED", "ESCALATED", "FAILED"} : \E row \in Closing(o) :
       /\ o = "APPROVED" => hold[r] # "NONE"
       /\ o = "ESCALATED" => approval[r] # "NONE"
       /\ o = "DECLINED" => hold[r] = "NONE"
       /\ approval[r] # "NONE" => o = "ESCALATED" \/ (o = "FAILED" /\ row.stage = "TERMINAL")
       /\ row.stage = "TERMINAL" /\ o = "FAILED" => tx[r].outcome = NoOutcome
       /\ tx' = [tx EXCEPT ![r] = row]
       /\ decided' = [decided EXCEPT ![r] = @ \cup {o}]
  /\ closed' = closed \cup {r}
  /\ UNCHANGED <<show, approval, hold, reserved, rules, armed, reset, meddled>>

\* The merchant answers an escalation, which ends as the cart then ends.
MerchantResolves(r) ==
  /\ approval[r] = "PENDING" /\ approval' = [approval EXCEPT ![r] = "RESOLVED"]
  /\ \E o \in {"APPROVED", "DECLINED", "FAILED"} : \E row \in Closing(o) :
       /\ o = "FAILED" => row.stage = "SETTLING"
       /\ tx' = [tx EXCEPT ![r] = row]
       /\ decided' = [decided EXCEPT ![r] = @ \cup {o}]
  /\ UNCHANGED <<show, hold, reserved, rules, armed, reset, closed, meddled>>

----------------------------------------------------------------------------
(* POST /v1/demo/reset: separate statements, each its own transaction.     *)

ResetAt(pc, next) == reset.pc = pc /\ reset' = [reset EXCEPT !.pc = next]

\* stage != 'TERMINAL': a cart already paid for counts, and is forced to FAILED.
InFlight(r) == tx[r].stage \notin {"ABSENT", "TERMINAL"}

\* Two COUNTs; here they are read together, and everything after them apart.
ResetBegins(force) ==
  /\ reset = NoReset /\ Meddles
  /\ (\E r \in Shows : hold[r] = "ACTIVE" \/ InFlight(r)) => force     \* 409 otherwise
  /\ reset' = [pc |-> IF force THEN "force" ELSE "approvals", force |-> force]
  /\ UNCHANGED <<show, tx, approval, hold, reserved, rules, armed, closed, decided>>

\* One multi-statement query, hence one implicit transaction.
ResetForces ==
  /\ ResetAt("force", "approvals")
  /\ hold' = [r \in Shows |-> IF hold[r] = "ACTIVE" THEN "EXPIRED" ELSE hold[r]]
  /\ tx' = [r \in Shows |-> IF InFlight(r) THEN [stage |-> "TERMINAL", outcome |-> "FAILED", detail |-> FALSE]
                            ELSE tx[r]]
  /\ UNCHANGED <<show, approval, reserved, rules, armed, closed, decided, meddled>>

ResetRejectsPending ==
  /\ ResetAt("approvals", "inventory")
  /\ approval' = [r \in Shows |-> IF approval[r] = "PENDING" THEN "RESOLVED" ELSE approval[r]]
  /\ UNCHANGED <<show, tx, hold, reserved, rules, armed, closed, decided, meddled>>

ResetInventory ==
  /\ ResetAt("inventory", "rules") /\ reserved' = 0
  /\ UNCHANGED <<show, tx, approval, hold, rules, armed, closed, decided, meddled>>

\* The fixture's row is upserted and newer ones deleted; then memory follows.
ResetRulesAndFlags ==
  /\ reset.pc = "rules" /\ reset' = NoReset
  /\ rules' = "fixture" /\ armed' = [f \in Flags |-> Off]
  /\ UNCHANGED <<show, tx, approval, hold, reserved, closed, decided, meddled>>

ResetStep == ResetForces \/ ResetRejectsPending \/ ResetInventory \/ ResetRulesAndFlags

----------------------------------------------------------------------------

RunnerStep(r) == ClaimAndEnqueue(r) \/ Poll(r) \/ Judge(r)

DemoNext ==
  \/ DemoTick \/ DeleteChaos \/ ResetStep
  \/ \E f \in Flags, scope \in SUBSET Shows, ttl \in 1 .. FlagTTL : PutChaos(f, scope, ttl)
  \/ \E force \in BOOLEAN : ResetBegins(force)
  \/ \E r \in Shows, s \in Scenarios : StartShow(r, s)
  \/ \E r \in Shows : \/ RunnerStep(r) \/ ShowFails(r) \/ TakesHold(r) \/ OpensApproval(r)
                      \/ RecordsOutcome(r) \/ MerchantResolves(r)

----------------------------------------------------------------------------

\* A green tick is earned.  Whatever a reset, a merchant or a slow pipeline did
\* around the poll, a scenario outside the chaos ones passes only if the
\* pipeline itself recorded the outcome the beat is about, with its order or
\* its inbox row; and a scenario reports a time-out only if nothing had been
\* recorded when it last looked.
VerdictIsTrue ==
  \A r \in Shows : show[r].status = "DONE" =>
    /\ show[r].pass /\ show[r].scenario \notin ChaosShows =>
         /\ ExpectedOutcome(show[r].scenario) \in decided[r]
         /\ show[r].scenario = "high_value_escalate" => approval[r] # "NONE"
         /\ show[r].scenario = "well_behaved" => hold[r] # "NONE" \/ approval[r] = "RESOLVED"
    /\ show[r].saw = NoOutcome => ~show[r].pass /\ Overdue(r)

\* The console stops spinning: every scenario is judged or fails, though the
\* pipeline may never close its run.
ScenarioEnds == \A r \in Shows : show[r].status = "RUNNING" ~> show[r].status \in {"DONE", "ERROR"}
=============================================================================
