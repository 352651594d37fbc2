----------------------------- MODULE Dashboard -----------------------------
(***************************************************************************)
(* The merchant's read routes: analytics, the transaction list and the     *)
(* replay of a trail.  Every request runs its queries at once on pooled    *)
(* connections, so each sees the tables at a moment of its own while runs  *)
(* go on writing.  Runs are here as what they leave in the tables: the     *)
(* gate stands for the stages before it; durations, mandates and           *)
(* free-text search are left out.  A run the stall sweep closed stays so.  *)
(***************************************************************************)
EXTENDS Integers, Sequences, FiniteSets, Functions

CONSTANTS
  Carts,
  Worth,         \* approved_total_paise of a cart
  BucketTicks,   \* the bucket of the window, in ticks of the clock
  WindowTicks,   \* its length
  AskedAt,       \* when the merchant opens the board
  Budget,        \* bounds of the runs: how much each cart may write, and how
  MaxMoves       \* much may change while the board is loading

ASSUME DashboardAssumption ==
  /\ BucketTicks \in Nat \ {0} /\ WindowTicks \in Nat \ {0} /\ AskedAt \in Nat
  /\ IsFiniteSet(Carts) /\ Worth \in [Carts -> Nat]

VARIABLES
  now,
  run,      \* proposal_txs
  pay,      \* transactions
  ask,      \* approvals
  trail,    \* audit_log, by transaction
  loading,  \* what the tables have been since the board was asked for
  budget

tables == <<now, run, pay, ask, trail>>
dashboardVars == <<tables, loading, budget>>

\* One lower bound for every panel.  A row of the other tables is dated only by
\* whether it is later.
From == AskedAt - WindowTicks
Recent == now >= From

Never == -1
NoRun == [stage |-> "ABSENT", created |-> Never, outcome |-> "NONE", why |-> "NONE"]
NoPay == [state |-> "ABSENT", recent |-> FALSE, ok |-> FALSE]
NoAsk == [decision |-> "ABSENT", recent |-> FALSE]

DashboardInit ==
  /\ now = 0 /\ loading = <<>> /\ budget = Budget
  /\ run = [c \in Carts |-> NoRun] /\ pay = [c \in Carts |-> NoPay] /\ ask = [c \in Carts |-> NoAsk]
  /\ trail = [c \in Carts |-> <<>>]

----------------------------------------------------------------------------
(* What a run writes.                                                      *)

LogRow(event, stage, what) == [event |-> event, stage |-> stage, what |-> what, recent |-> Recent]
Logged(c, rows) == trail' = [trail EXCEPT ![c] = @ \o rows]

Has(c, event, stage) == \E i \in DOMAIN trail[c] : trail[c][i].event = event /\ trail[c][i].stage = stage
Gate(c, status) == \E i \in DOMAIN trail[c] : trail[c][i].what = status

Touched(c, stage) == run' = [run EXCEPT ![c].stage = stage]

\* dbUpdate
Closed(c, stage, outcome, why) ==
  run' = [run EXCEPT ![c].stage = stage, ![c].outcome = outcome, ![c].why = why]

Submitted(c) ==
  /\ run[c] = NoRun
  /\ run' = [run EXCEPT ![c].stage = "PROPOSING", ![c].created = now]
  /\ Logged(c, <<LogRow("stage_started", "GATEKEEPER", "NONE")>>)
  /\ UNCHANGED <<pay, ask>>

\* An exception in the stage is logged, and closes the run later or never.
GateEnds(c, status) ==
  /\ run[c].stage = "PROPOSING" /\ Touched(c, "GATE_CHECKING")
  /\ Logged(c, IF status = "THROWS" THEN <<LogRow("stage_completed", "GATEKEEPER", "FAILED")>>
               ELSE <<LogRow("gatekeeper_rule_result", "NONE", status), LogRow("stage_completed", "GATEKEEPER", "OK")>>)
  /\ UNCHANGED <<pay, ask>>

\* failRunNow and the stall sweep
Abandoned(c) ==
  /\ run[c].stage # "ABSENT" /\ run[c].outcome = "NONE"
  /\ Closed(c, "TERMINAL", "FAILED", "PIPELINE_STALLED")
  /\ UNCHANGED <<pay, ask, trail>>

Undecided(c) == run[c].stage = "GATE_CHECKING" /\ run[c].outcome = "NONE"
ToSettle(c) ==
  \/ Undecided(c) /\ Gate(c, "PASS")
  \/ run[c].stage = "SETTLING" /\ run[c].outcome = "ESCALATED"

SettleOpens(c, ok) ==
  /\ ToSettle(c) /\ pay[c] = NoPay
  /\ pay' = [pay EXCEPT ![c] = [state |-> IF ok THEN "AWAITING_PAYMENT" ELSE "FAILED", recent |-> Recent, ok |-> ok]]
  /\ UNCHANGED <<run, ask, trail>>

SettleEnds(c) ==
  /\ ToSettle(c)
  /\ IF pay[c].ok THEN Closed(c, "SETTLING", "APPROVED", "NONE")
     ELSE Closed(c, "SETTLING", "FAILED", "ORDER_CREATE_FAILED")
  /\ UNCHANGED <<pay, ask, trail>>

Declined(c) ==
  /\ Undecided(c) /\ Gate(c, "FAIL") /\ Closed(c, "TERMINAL", "DECLINED", "A_RULE")
  /\ UNCHANGED <<pay, ask, trail>>

\* The inbox row is a statement before the outcome.
Asked(c) ==
  /\ Undecided(c) /\ Gate(c, "BAND") /\ ask[c] = NoAsk
  /\ ask' = [ask EXCEPT ![c] = [decision |-> "PENDING", recent |-> Recent]]
  /\ UNCHANGED <<run, pay, trail>>

Escalated(c) ==
  /\ Undecided(c) /\ ask[c] # NoAsk
  /\ Closed(c, "AWAITING_HUMAN_APPROVAL", "ESCALATED", "NONE")
  /\ UNCHANGED <<pay, ask, trail>>

Waiting(c) == run[c].stage = "AWAITING_HUMAN_APPROVAL"

MerchantAnswers(c, decision) ==
  /\ Waiting(c) /\ ask[c].decision = "PENDING" /\ ask' = [ask EXCEPT ![c].decision = decision]
  /\ UNCHANGED <<run, pay, trail>>

AnswerHeeded(c) ==
  /\ Waiting(c)
  /\ \/ ask[c].decision = "APPROVED" /\ Touched(c, "SETTLING")
     \/ ask[c].decision = "REJECTED" /\ Closed(c, "TERMINAL", "DECLINED", "ESCALATION_REJECTED_BY_HUMAN")
  /\ UNCHANGED <<pay, ask, trail>>

\* Without a narrator the explainer says so and is done.
ExplainerCloses(c) ==
  /\ run[c].outcome # "NONE" /\ run[c].why # "PIPELINE_STALLED" /\ ~Has(c, "stage_started", "EXPLAIN")
  /\ Logged(c, <<LogRow("stage_started", "EXPLAIN", "NONE"), LogRow("degraded", "EXPLAIN", "NONE"),
                 LogRow("stage_completed", "EXPLAIN", "DEGRADED")>>)
  /\ UNCHANGED <<run, pay, ask>>

\* Webhooks and sweeps.
Collected(c) ==
  /\ \/ pay[c].state = "AWAITING_PAYMENT" /\ \E to \in {"PAID", "EXPIRED"} : pay' = [pay EXCEPT ![c].state = to]
     \/ pay[c].state = "PAID" /\ pay' = [pay EXCEPT ![c].state = "COMPLETED"]
  /\ UNCHANGED <<run, ask, trail>>

RunWrites(c) ==
  \/ Submitted(c) \/ Abandoned(c) \/ SettleEnds(c) \/ Declined(c) \/ Asked(c) \/ Escalated(c)
  \/ AnswerHeeded(c) \/ ExplainerCloses(c) \/ Collected(c)
  \/ \E status \in {"PASS", "FAIL", "BAND", "THROWS"} : GateEnds(c, status)
  \/ \E ok \in BOOLEAN : SettleOpens(c, ok)
  \/ \E decision \in {"APPROVED", "REJECTED"} : MerchantAnswers(c, decision)

----------------------------------------------------------------------------
(* Reading.  A query is an operator on the tables it finds, and an answer   *)
(* on what its queries found.                                              *)

Verdicts == {"APPROVED", "ESCALATED", "DECLINED", "FAILED"}
PaidStates == {"PAID", "COMPLETED"}
FailedStates == {"FAILED", "EXPIRED", "MANUAL_REFUND_REQUIRED", "REJECTED_BY_MERCHANT"}

Tables == [now |-> now, run |-> run, pay |-> pay, ask |-> ask, trail |-> trail]

Since(s) == {c \in Carts : s.run[c].created >= From /\ s.run[c] # NoRun}
Ended(s, cs, o) == Cardinality({c \in cs : s.run[c].outcome = o})

Totals(s) ==
  [proposals |-> Cardinality(Since(s)), ended |-> [o \in Verdicts |-> Ended(s, Since(s), o)],
   in_flight |-> Cardinality({c \in Since(s) : s.run[c].stage # "TERMINAL"})]

Trunc(t) == BucketTicks * (t \div BucketTicks)

Spine_Untruncated(s) == {t \in From .. s.now : (t - From) % BucketTicks = 0}

\* Every bucket from the one From falls in to the present one, quiet ones too.
Spine(s) == {t \in Trunc(From) .. s.now : t % BucketTicks = 0}

Volume(s) ==
  [b \in Spine(s) |->
     [o \in Verdicts |-> Ended(s, {c \in Since(s) : Trunc(s.run[c].created) = b}, o)]]

LogRows(s) == UNION {{<<c, i>> : i \in {k \in DOMAIN s.trail[c] : s.trail[c][k].recent}} : c \in Carts}
Logs(s, event, what) ==
  Cardinality({r \in LogRows(s) : s.trail[r[1]][r[2]].event = event /\ s.trail[r[1]][r[2]].what \in what})

Findings(s) ==
  [evaluations |-> Logs(s, "gatekeeper_rule_result", {"PASS", "FAIL", "BAND"}),
   fail |-> Logs(s, "gatekeeper_rule_result", {"FAIL"}),
   escalate |-> Logs(s, "gatekeeper_rule_result", {"BAND"})]

StageRuns(s) ==
  [runs |-> Logs(s, "stage_completed", {"OK", "FAILED", "DEGRADED"}),
   failures |-> Logs(s, "stage_completed", {"FAILED", "DEGRADED"})]

Degradations(s) == Logs(s, "degraded", {"NONE"})

Opened(s, states) == {c \in Carts : s.pay[c].state \in states /\ s.pay[c].recent}
Sold(cs) == SumFunctionOnSet(Worth, cs)
AllStates == {"AWAITING_PAYMENT"} \cup PaidStates \cup FailedStates

Settlements(s) ==
  [opened |-> Cardinality(Opened(s, AllStates)), paid |-> Cardinality(Opened(s, PaidStates)),
   completed |-> Cardinality(Opened(s, {"COMPLETED"})),
   failed |-> Cardinality(Opened(s, FailedStates)),
   approved_value |-> Sold(Opened(s, AllStates)), settled_value |-> Sold(Opened(s, {"COMPLETED"}))]

Inbox(s) ==
  [d \in {"PENDING", "APPROVED", "REJECTED"} |->
     Cardinality({c \in Carts : s.ask[c].decision = d /\ s.ask[c].recent})]

\* Percent to one decimal, in tenths; a half rounds up.
Share(num, den) == IF den <= 0 THEN Never ELSE (2000 * num + den) \div (2 * den)

VerdictsIn(totals) == SumFunction(totals.ended)

\* The seven queries, each on the tables it found.
Queries == {"totals", "volume", "rules", "stages", "events", "settlement", "approvals"}

Analytics(at) ==
  LET totals == Totals(at["totals"])  settled == Settlements(at["settlement"]) IN
  [totals |-> totals, volume |-> Volume(at["volume"]), findings |-> Findings(at["rules"]),
   stages |-> StageRuns(at["stages"]), degradations |-> Degradations(at["events"]),
   settlement |-> settled, inbox |-> Inbox(at["approvals"]),
   shares |-> [o \in Verdicts |-> Share(totals.ended[o], VerdictsIn(totals))],
   approval_rate |-> Share(totals.ended["APPROVED"], VerdictsIn(totals)),
   paid_rate |-> Share(settled.paid, settled.opened)]

\* WHY it ended: the first rule, the inbox row's reason, the failure's.
ReasonOf(s, c) ==
  IF s.run[c].outcome = "ESCALATED" /\ s.ask[c] # NoAsk THEN "ASKED"
    ELSE IF s.run[c].outcome \in {"DECLINED", "FAILED"} THEN s.run[c].why ELSE "NONE"

Listed(s, wanted) == {c \in Carts : s.run[c].stage # "ABSENT" /\ (wanted = "ALL" \/ s.run[c].outcome = wanted)}

\* The newest `limit` of them; those of one instant come in any order.
Pages(s, wanted, limit) ==
  {cs \in SUBSET Listed(s, wanted) :
     /\ Cardinality(cs) = (IF Cardinality(Listed(s, wanted)) < limit THEN Cardinality(Listed(s, wanted)) ELSE limit)
     /\ \A c \in cs, d \in Listed(s, wanted) \ cs : s.run[c].created >= s.run[d].created}

ListLine(s, c) == [outcome |-> s.run[c].outcome, stage |-> s.run[c].stage, reason |-> ReasonOf(s, c),
               settlement |-> s.pay[c].state, value |-> IF s.pay[c] = NoPay THEN Never ELSE Worth[c]]

\* rebuildStages: a completion closes the start of its stage, which a run makes
\* once; a start nothing has closed stays open.  The event that would close the rest, and
\* carry the outcome, is written by nobody.
Starts(log, stage) == {i \in DOMAIN log : log[i].event = "stage_started" /\ log[i].stage = stage}
Ends(log, stage) == {i \in DOMAIN log : log[i].event = "stage_completed" /\ log[i].stage = stage}

RebuiltStages(log) ==
  UNION {{[stage |-> g, entered |-> i, exited |-> IF Ends(log, g) = {} THEN Never ELSE CHOOSE e \in Ends(log, g) : TRUE] :
            i \in Starts(log, g)} : g \in {"GATEKEEPER", "EXPLAIN"}}

Replay(s, c) == [count |-> Len(s.trail[c]), stages |-> RebuiltStages(s.trail[c]), outcome |-> "NONE"]

----------------------------------------------------------------------------
(* The board loads while runs write and time passes.                       *)

Asks ==
  /\ loading = <<>> /\ now = AskedAt /\ loading' = <<Tables>>
  /\ UNCHANGED <<tables, budget>>

Moves ==
  /\ \/ /\ \E c \in Carts : RunWrites(c) /\ budget[c] > 0 /\ budget' = [budget EXCEPT ![c] = @ - 1]
        /\ UNCHANGED now
     \/ (loading = <<>> => now < AskedAt) /\ now' = now + 1 /\ UNCHANGED <<run, pay, ask, trail, budget>>
  /\ IF loading = <<>> THEN UNCHANGED loading
     ELSE Len(loading) <= MaxMoves /\ loading' = Append(loading, Tables')

DashboardNext == Asks \/ Moves

----------------------------------------------------------------------------

Moments == {loading[i] : i \in DOMAIN loading}
Earliest == loading[1]
Latest == loading[Len(loading)]
Closings(s) == Cardinality({c \in Since(s) : s.run[c].outcome # "NONE"})

\* The panels of one answer come from seven moments, so they need not agree;
\* but each lies between what was true when the board was asked for and what
\* is true when it shows, and if nothing moved meanwhile they add up to one
\* picture: every verdict counted is in exactly one bucket, every approved cart
\* is a payment opened, every escalation an inbox row and every decline a rule
\* or a person.
PanelsAgree(b) ==
  LET t == b.totals
      charted(o) == SumFunction([k \in DOMAIN b.volume |-> b.volume[k][o]])
      chartedAll == SumFunction([k \in DOMAIN b.volume |-> SumFunction(b.volume[k])])
  IN /\ \A n \in {VerdictsIn(t), chartedAll} : Closings(Earliest) <= n /\ n <= Closings(Latest)
     /\ t.proposals <= VerdictsIn(t) + t.in_flight
     /\ b.settlement.completed <= b.settlement.paid
     /\ b.settlement.paid + b.settlement.failed <= b.settlement.opened
     /\ b.settlement.settled_value <= b.settlement.approved_value
     /\ Earliest = Latest =>
          /\ \A o \in Verdicts : charted(o) = t.ended[o]
          /\ t.ended["APPROVED"] <= b.settlement.opened
          /\ t.ended["ESCALATED"] <= SumFunction(b.inbox)
          /\ t.ended["DECLINED"] <= b.findings.fail + b.inbox["REJECTED"]

\* A line of the list gives the reason its outcome was given, from the rows of
\* its own moment: no verdict but an approval goes unexplained.
LinesExplained(s) ==
  \A wanted \in {"ALL"} \cup Verdicts, limit \in 1 .. Cardinality(Carts) :
  \A page \in Pages(s, wanted, limit) : \A c \in page :
    LET l == ListLine(s, c) IN
    /\ wanted \in {"ALL", l.outcome}
    /\ (l.reason = "NONE") = (l.outcome \in {"NONE", "APPROVED"})
    /\ l.reason = "A_RULE" => Gate(c, "FAIL")
    /\ l.reason = "ESCALATION_REJECTED_BY_HUMAN" => ask[c].decision = "REJECTED"

\* A trail is replayed as the run went: stage after stage, and only the last
\* one may have no end.
ReplayInOrder(s) ==
  \A c \in Carts : \A g, h \in Replay(s, c).stages : g # h =>
    \/ g.exited # Never /\ g.exited < h.entered
    \/ h.exited # Never /\ h.exited < g.entered

\* Every answer the board might give from here is true.  PanelsAgree relates the
\* volume to the others, hence two moments.
BoardIsTrue ==
  loading # <<>> =>
    /\ \A s, v \in Moments : PanelsAgree(Analytics([q \in Queries |-> IF q = "volume" THEN v ELSE s]))
    /\ LinesExplained(Latest) /\ ReplayInOrder(Latest)
=============================================================================
