-------------------------- MODULE BackOfficeProofs --------------------------
(***************************************************************************)
(* The parts behind the sale, for any constants: no payment report that    *)
(* was acknowledged is lost, no scenario of the demo is shown green unless *)
(* the pipeline recorded the outcome it is about, nothing a language model *)
(* wrote is published unless it passed the checks, and what the merchant's *)
(* board shows is true of the tables it was read from.                     *)
(*                                                                         *)
(* The specification is the one the run checks: a behaviour is made of the *)
(* steps of one part, and the proofs are one invariant per part.  What the *)
(* writers compute are folds over sequences of any length; each is brought *)
(* to its steps, and an invariant carried along them.                      *)
(***************************************************************************)
EXTENDS MCBackOffice, OffersProofs

----------------------------------------------------------------------------
(* Payment reports on their way in.                                        *)

Rows == {NoRow} \union [status : {"RECEIVED", "PROCESSED"}, at : Nat]
InHand == {Free} \union [pc : {"insert", "dispatch", "mark", "reply"}, of : Letters]

DeliveryTypeOK ==
  /\ clock \in Nat
  /\ hook \in [Hooks -> InHand]
  /\ row \in [Letters -> Rows]
  /\ redriving \subseteq Letters
  /\ answer \in [Letters -> {"none", "kept", "skipped"}]

\* A report stands in the ledger of events once a row was inserted for it, and
\* the row says PROCESSED only of a report that was dispatched.
Recorded(l) == row[l] # NoRow
Honest(l) == row[l].status = "PROCESSED" => l \in applied

\* The inductive invariant of the ingress.  Whoever is about to answer, to mark
\* or to redrive works on a row that is there, and whoever is about to mark has
\* dispatched; so an answer finds its row, and a crash leaves it for the sweep.
DeliveryInv ==
  /\ DeliveryTypeOK
  /\ \A h \in Hooks : hook[h].pc \in {"dispatch", "mark", "reply"} => Recorded(hook[h].of)
  /\ \A h \in Hooks : hook[h].pc = "mark" => hook[h].of \in applied
  /\ \A l \in redriving : Recorded(l) /\ l \in applied
  /\ \A l \in Letters : Honest(l)
  /\ \A l \in Letters : answer[l] = "kept" => Recorded(l)

\* No report is known at the start.
LEMMA DeliveryStarts == DeliveryInit => DeliveryInv
BY DEF DeliveryInit, DeliveryInv, DeliveryTypeOK, Rows, InHand, Recorded, Honest, Free, NoRow

\* A row is never removed and `applied` never shrinks.
LEMMA RowsStay ==
  ASSUME DeliveryInv, UNCHANGED <<hook, row, redriving, applied, answer>>, clock' \in Nat
  PROVE  DeliveryInv'
BY DEF DeliveryInv, DeliveryTypeOK, Recorded, Honest

\* A process dies: requests and redrives in hand are forgotten.
LEMMA DeathKeeps ==
  ASSUME DeliveryInv, Dies, UNCHANGED <<clock, row, applied, answer>>
  PROVE  DeliveryInv'
BY DEF DeliveryInv, DeliveryTypeOK, Dies, Recorded, Honest, Free, InHand

\* What a step of a handler does to the handlers.
LEMMA HookSteps ==
  ASSUME DeliveryInv, NEW h \in Hooks, NEW from \in {"insert", "dispatch", "mark", "reply"},
         NEW to \in {"dispatch", "mark", "reply", "free"}, Steps(h, from, to)
  PROVE  /\ hook[h].pc = from /\ hook[h].of \in Letters
         /\ hook' \in [Hooks -> InHand]
         /\ \A g \in Hooks : g # h => hook'[g] = hook[g]
         /\ to = "free" => hook'[h] = Free
         /\ to # "free" => hook'[h] = [pc |-> to, of |-> hook[h].of]
<1>1. hook \in [Hooks -> InHand]
  BY DEF DeliveryInv, DeliveryTypeOK
<1>2. hook[h] \in [pc : {"insert", "dispatch", "mark", "reply"}, of : Letters] /\ hook[h].pc = from
  BY <1>1 DEF Steps, InHand, Free
<1>3. [hook[h] EXCEPT !.pc = to] = [pc |-> to, of |-> hook[h].of]
  BY <1>2
<1>4. hook' = [hook EXCEPT ![h] = IF to = "free" THEN Free ELSE [pc |-> to, of |-> hook[h].of]]
  BY <1>3 DEF Steps
<1> QED BY <1>1, <1>2, <1>4 DEF InHand, Free

\* Whatever the ingress does.
LEMMA DeliveryStep == DeliveryInv /\ [DeliveryNext]_deliveryVars => DeliveryInv'
<1> SUFFICES ASSUME DeliveryInv, [DeliveryNext]_deliveryVars PROVE DeliveryInv'
  OBVIOUS
<1>t. DeliveryTypeOK
  BY DEF DeliveryInv
<1>c. clock \in Nat /\ clock + 1 \in Nat
  BY <1>t DEF DeliveryTypeOK
<1>1. CASE \/ \E env \in Environments : Start(env)
           \/ Tick \/ RotateSecret
           \/ \E l \in Letters, o \in Outcomes : SchedulePaymentOutcome(l, o)
           \/ \E l \in Letters, b \in ProviderBodies : ProviderReports(l, b)
           \/ \E l \in Letters : ProviderRetries(l) \/ CopyLost(l)
           \/ UNCHANGED deliveryVars
  <2>1. UNCHANGED <<hook, row, redriving, applied, answer>> /\ clock' \in Nat
    BY <1>1, <1>c DEF Start, Tick, RotateSecret, SchedulePaymentOutcome, ProviderReports,
                      ProviderRetries, CopyLost, deliveryVars
  <2> QED BY <2>1, RowsStay
<1>2. CASE Stop \/ \E h \in Hooks : InsertThrows(h)
  <2>1. Dies /\ UNCHANGED <<clock, row, applied, answer>>
    BY <1>2 DEF Stop, InsertThrows
  <2> QED BY <2>1, DeathKeeps
<1>3. ASSUME NEW h \in Hooks, NEW l \in Letters, Arrive(h, l) PROVE DeliveryInv'
  <2>1. UNCHANGED <<clock, row, applied>>
    BY <1>3 DEF Arrive
  <2>2. CASE UNCHANGED <<hook, redriving, answer>>
    BY <2>1, <2>2, <1>c, RowsStay
  <2>3. CASE Dies /\ UNCHANGED answer
    BY <2>1, <2>3, DeathKeeps
  <2>4. CASE Acknowledged(l, "skipped") /\ UNCHANGED <<hook, redriving>>
    <3>1. /\ answer' \in [Letters -> {"none", "kept", "skipped"}]
          /\ \A m \in Letters : answer'[m] = "kept" => answer[m] = "kept"
      BY <2>4, <1>t DEF Acknowledged, DeliveryTypeOK
    <3> QED BY <2>1, <2>4, <3>1 DEF DeliveryInv, DeliveryTypeOK, Recorded, Honest
  <2>5. CASE hook' = [hook EXCEPT ![h] = [pc |-> "insert", of |-> l]] /\ UNCHANGED <<redriving, answer>>
    BY <2>1, <2>5 DEF DeliveryInv, DeliveryTypeOK, Recorded, Honest, InHand
  <2> QED BY <1>3, <2>2, <2>3, <2>4, <2>5 DEF Arrive
<1>4. ASSUME NEW h \in Hooks, InsertFirst(h) PROVE DeliveryInv'
  <2> DEFINE l == hook[h].of
  <2>1. CASE row[l] = NoRow /\ Steps(h, "insert", "dispatch")
    <3>1. /\ row' = [row EXCEPT ![l] = [status |-> "RECEIVED", at |-> clock]]
          /\ UNCHANGED <<answer, clock, redriving, applied>>
      BY <1>4, <2>1, HookSteps DEF InsertFirst, Steps
    <3>2. l \in Letters /\ hook' \in [Hooks -> InHand] /\ hook'[h] = [pc |-> "dispatch", of |-> l]
          /\ \A g \in Hooks : g # h => hook'[g] = hook[g]
      BY <2>1, HookSteps
    <3>3. /\ row' \in [Letters -> Rows] /\ row'[l].status = "RECEIVED" /\ row'[l] # NoRow
          /\ \A m \in Letters : m # l => row'[m] = row[m]
      BY <3>1, <3>2, <1>t, <1>c DEF DeliveryTypeOK, Rows, NoRow
    <3> QED BY <3>1, <3>2, <3>3 DEF DeliveryInv, DeliveryTypeOK, Recorded, Honest
  <2>2. CASE row[l] # NoRow /\ Steps(h, "insert", "free")
    <3>1. Acknowledged(l, "kept") /\ UNCHANGED <<row, clock, redriving, applied>>
      BY <1>4, <2>2 DEF InsertFirst, Steps
    <3>2. l \in Letters /\ hook' \in [Hooks -> InHand] /\ hook'[h] = Free
          /\ \A g \in Hooks : g # h => hook'[g] = hook[g]
      BY <2>2, HookSteps
    <3>3. /\ answer' \in [Letters -> {"none", "kept", "skipped"}]
          /\ \A m \in Letters : m # l => answer'[m] = answer[m]
      BY <3>1, <3>2, <1>t DEF Acknowledged, DeliveryTypeOK
    <3> QED BY <2>2, <3>1, <3>2, <3>3 DEF DeliveryInv, DeliveryTypeOK, Recorded, Honest, Free
  <2> QED BY <1>4, <2>1, <2>2 DEF InsertFirst
<1>5. ASSUME NEW h \in Hooks, DispatchParsed(h) PROVE DeliveryInv'
  <2>1. /\ applied' = applied \union {hook[h].of} /\ UNCHANGED <<clock, row, redriving, answer>>
        /\ Steps(h, "dispatch", "mark")
    BY <1>5 DEF DispatchParsed
  <2>2. /\ hook[h].pc = "dispatch" /\ hook' \in [Hooks -> InHand]
        /\ hook'[h] = [pc |-> "mark", of |-> hook[h].of]
        /\ \A g \in Hooks : g # h => hook'[g] = hook[g]
    BY <2>1, HookSteps
  <2> QED BY <2>1, <2>2 DEF DeliveryInv, DeliveryTypeOK, Recorded, Honest
<1>6. ASSUME NEW h \in Hooks, MarkProcessed(h) PROVE DeliveryInv'
  <2> DEFINE l == hook[h].of
  <2>1. /\ row' = [row EXCEPT ![l].status = "PROCESSED"] /\ UNCHANGED <<clock, redriving, applied, answer>>
        /\ Steps(h, "mark", "reply")
    BY <1>6 DEF MarkProcessed
  <2>2. /\ hook[h].pc = "mark" /\ l \in Letters /\ hook' \in [Hooks -> InHand]
        /\ hook'[h] = [pc |-> "reply", of |-> l]
        /\ \A g \in Hooks : g # h => hook'[g] = hook[g]
    BY <2>1, HookSteps
  <2>3. l \in applied /\ row[l] # NoRow
    BY <2>2 DEF DeliveryInv, Recorded
  <2>4. /\ row' \in [Letters -> Rows] /\ row'[l] # NoRow
        /\ \A m \in Letters : m # l => row'[m] = row[m]
    BY <2>1, <2>2, <2>3, <1>t DEF DeliveryTypeOK, Rows, NoRow
  <2> QED BY <2>1, <2>2, <2>3, <2>4 DEF DeliveryInv, DeliveryTypeOK, Recorded, Honest
<1>7. ASSUME NEW h \in Hooks, DispatchFails(h) PROVE DeliveryInv'
  <2>1. PICK from \in {"dispatch", "mark"} : Steps(h, from, "reply")
    BY <1>7 DEF DispatchFails
  <2>2. /\ hook[h].pc = from /\ hook' \in [Hooks -> InHand]
        /\ hook'[h] = [pc |-> "reply", of |-> hook[h].of]
        /\ \A g \in Hooks : g # h => hook'[g] = hook[g]
    BY <2>1, HookSteps
  <2>3. UNCHANGED <<clock, row, redriving, applied, answer>>
    BY <1>7 DEF DispatchFails
  <2> QED BY <2>2, <2>3 DEF DeliveryInv, DeliveryTypeOK, Recorded, Honest
<1>8. ASSUME NEW h \in Hooks, Reply(h) PROVE DeliveryInv'
  <2> DEFINE l == hook[h].of
  <2>1. Steps(h, "reply", "free") /\ Acknowledged(l, "kept") /\ UNCHANGED <<clock, row, redriving, applied>>
    BY <1>8 DEF Reply
  <2>2. /\ hook[h].pc = "reply" /\ l \in Letters /\ hook' \in [Hooks -> InHand] /\ hook'[h] = Free
        /\ \A g \in Hooks : g # h => hook'[g] = hook[g]
    BY <2>1, HookSteps
  <2>3. /\ answer' \in [Letters -> {"none", "kept", "skipped"}]
        /\ \A m \in Letters : m # l => answer'[m] = answer[m]
    BY <2>1, <2>2, <1>t DEF Acknowledged, DeliveryTypeOK
  <2> QED BY <2>1, <2>2, <2>3 DEF DeliveryInv, DeliveryTypeOK, Recorded, Honest, Free
<1>9. ASSUME NEW l \in Letters, Redrive(l) PROVE DeliveryInv'
  <2>1. row[l] # NoRow /\ applied' = applied \union {l} /\ redriving' = redriving \union {l}
    BY <1>9 DEF Redrive, NoRow
  <2>2. UNCHANGED <<clock, hook, row, answer>>
    BY <1>9 DEF Redrive
  <2> QED BY <2>1, <2>2 DEF DeliveryInv, DeliveryTypeOK, Recorded, Honest
<1>10. ASSUME NEW l \in Letters, RedriveMarks(l) PROVE DeliveryInv'
  <2>1. UNCHANGED <<clock, hook, applied, answer>> /\ l \in redriving /\ redriving' = redriving \ {l}
    BY <1>10 DEF RedriveMarks
  <2>2. CASE row' = [row EXCEPT ![l].status = "PROCESSED"]
    <3>1. l \in applied /\ row[l] # NoRow
      BY <2>1 DEF DeliveryInv, Recorded
    <3>2. /\ row' \in [Letters -> Rows] /\ row'[l] # NoRow
          /\ \A m \in Letters : m # l => row'[m] = row[m]
      BY <2>2, <3>1, <1>t DEF DeliveryTypeOK, Rows, NoRow
    <3>3. DeliveryTypeOK'
      BY <2>1, <3>2, <1>t DEF DeliveryTypeOK
    <3>4. \A m \in Letters : Recorded(m) => Recorded(m)'
      BY <3>2 DEF Recorded
    <3>5. \A m \in Letters : Honest(m)'
      BY <2>1, <3>1, <3>2 DEF DeliveryInv, Honest
    <3>6. \A g \in Hooks : hook[g].pc \in {"dispatch", "mark", "reply"} => hook[g].of \in Letters
      BY <1>t DEF DeliveryTypeOK, InHand, Free
    <3> QED BY <2>1, <3>3, <3>4, <3>5, <3>6, <1>t DEF DeliveryInv, DeliveryTypeOK, Recorded
  <2>3. CASE UNCHANGED row
    BY <2>1, <2>3 DEF DeliveryInv, DeliveryTypeOK, Recorded, Honest
  <2> QED BY <1>10, <2>2, <2>3 DEF RedriveMarks
<1> QED BY <1>1, <1>2, <1>3, <1>4, <1>5, <1>6, <1>7, <1>8, <1>9, <1>10 DEF DeliveryNext

\* The invariant gives the property.
LEMMA KeptFollows == DeliveryInv => AckedIsKept
BY DEF DeliveryInv, DeliveryTypeOK, AckedIsKept, Recorded, Honest, Rows, NoRow

----------------------------------------------------------------------------
(* The demo control plane.                                                 *)

Recordable == {"APPROVED", "DECLINED", "ESCALATED", "FAILED", NoOutcome}
TxRows == [stage : {"ABSENT", "LIVE", "SETTLING", "AWAITING_HUMAN_APPROVAL", "TERMINAL"},
            outcome : Recordable, detail : BOOLEAN]
Shown == [status : {"RUNNING", "DONE", "ERROR"}, scenario : Scenarios,
          pc : {"claim", "poll", "judge", "over"}, left : Nat, saw : Recordable,
          detail : BOOLEAN, pass : BOOLEAN]

DemoTypeOK ==
  /\ show \in [Shows -> Shown \union {NoShow}]
  /\ tx \in [Shows -> TxRows]
  /\ approval \in [Shows -> {"NONE", "PENDING", "RESOLVED"}]
  /\ hold \in [Shows -> {"NONE", "ACTIVE", "EXPIRED"}]
  /\ decided \in [Shows -> SUBSET Recordable]

\* An outcome the pipeline or the merchant stands behind.  A failure may be the
\* reset's own writing and stands for nothing.
Backed(r, o) ==
  /\ o \notin {NoOutcome, "FAILED"} => o \in decided[r]
  /\ o = "APPROVED" => hold[r] # "NONE" \/ approval[r] = "RESOLVED"

\* What a scenario's judgement rests on, once passed.
Earned(r, s) ==
  /\ s.saw = NoOutcome => ~s.pass /\ s.left = 0
  /\ s.pass /\ s.scenario \notin ChaosShows => s.saw = ExpectedOutcome(s.scenario)
  /\ s.pass /\ s.scenario = "high_value_escalate" => approval[r] # "NONE"

\* The inductive invariant of the demo: what is in the row, and what a poll
\* took from it, is backed; a poll goes to its judge with nothing only when the
\* deadline has passed; and every verdict was earned.
DemoInv ==
  /\ DemoTypeOK
  /\ \A r \in Shows : Backed(r, tx[r].outcome)
  /\ \A r \in Shows : show[r] # NoShow => Backed(r, show[r].saw)
  /\ \A r \in Shows : Running(r, "judge") /\ show[r].saw = NoOutcome => show[r].left = 0
  /\ \A r \in Shows : show[r].status = "DONE" => Earned(r, show[r])

\* No scenario runs at the start.
LEMMA DemoStarts == DemoInit => DemoInv
BY DEF DemoInit, DemoInv, DemoTypeOK, Backed, Running, NoShow, NoOutcome, TxRows, Recordable, Shown

\* Outcomes recorded stay recorded, a hold taken and an answer given stay so:
\* what was backed stays backed, whatever a reset does.
Remembers ==
  /\ DemoTypeOK'
  /\ \A r \in Shows :
       /\ decided[r] \subseteq decided'[r]
       /\ hold[r] # "NONE" => hold'[r] # "NONE"
       /\ approval[r] = "RESOLVED" => approval'[r] = "RESOLVED"
       /\ approval[r] # "NONE" => approval'[r] # "NONE"

\* An outcome that was backed is backed after such a step.
LEMMA BackingStays ==
  ASSUME Remembers, NEW r \in Shows, NEW o, Backed(r, o)
  PROVE  Backed(r, o)'
BY DEF Remembers, Backed

\* A step that leaves every scenario where it is only has to back the rows.
LEMMA ScenariosStand ==
  ASSUME DemoInv, Remembers, UNCHANGED show,
         \A r \in Shows : tx'[r] = tx[r] \/ Backed(r, tx[r].outcome)'
  PROVE  DemoInv'
<1>1. DemoTypeOK'
  BY DEF Remembers
<1>2. \A r \in Shows : Backed(r, tx[r].outcome)'
  <2> TAKE r \in Shows
  <2>1. CASE tx'[r] = tx[r]
    <3>1. Backed(r, tx[r].outcome)
      BY DEF DemoInv
    <3> QED BY <2>1, <3>1 DEF Remembers, Backed
  <2> QED BY <2>1
<1>3. \A r \in Shows : show'[r] # NoShow => Backed(r, show[r].saw)'
  BY DEF DemoInv, Remembers, Backed
<1>4. \A r \in Shows : show'[r].status = "DONE" => Earned(r, show[r])'
  BY DEF DemoInv, Remembers, Earned
<1> QED BY <1>1, <1>2, <1>3, <1>4 DEF DemoInv, Running

\* A step of one scenario that leaves the rows alone.
LEMMA ScenarioMoves ==
  ASSUME DemoInv, UNCHANGED <<approval, hold, decided>>, DemoTypeOK',
         NEW r \in Shows, \A q \in Shows : q # r => show'[q] = show[q],
         \A q \in Shows : tx'[q].outcome = tx[q].outcome,
         show'[r] # NoShow => Backed(r, show'[r].saw),
         show'[r].status = "RUNNING" /\ show'[r].pc = "judge" /\ show'[r].saw = NoOutcome
           => show'[r].left = 0,
         show'[r].status = "DONE" => Earned(r, show'[r])
  PROVE  DemoInv'
<1>1. \A q \in Shows : Backed(q, tx[q].outcome)'
  BY DEF DemoInv, Backed
<1>2. \A q \in Shows : show'[q] # NoShow => Backed(q, show[q].saw)'
  <2> TAKE q \in Shows
  <2>1. show'[q] # NoShow => Backed(q, show'[q].saw)
    BY DEF DemoInv
  <2> QED BY <2>1 DEF Backed
<1>3. \A q \in Shows : show'[q].status = "DONE" => Earned(q, show[q])'
  <2> TAKE q \in Shows
  <2>1. show'[q].status = "DONE" => Earned(q, show'[q])
    BY DEF DemoInv
  <2> QED BY <2>1 DEF Earned
<1> QED BY <1>1, <1>2, <1>3 DEF DemoInv, Running

\* Where the deadline runs down, what is due stays due.
LEMMA DemoTickKeeps == DemoInv /\ DemoTick => DemoInv'
<1> SUFFICES ASSUME DemoInv, DemoTick PROVE DemoInv'
  OBVIOUS
<1>t. DemoTypeOK
  BY DEF DemoInv
<1>1. /\ show' = [r \in Shows |-> IF show[r] = NoShow THEN NoShow ELSE [show[r] EXCEPT !.left = Less(@)]]
      /\ UNCHANGED <<tx, approval, hold, decided>>
  BY DEF DemoTick
<1>2. \A r \in Shows : show[r] \in Shown \/ show[r] = NoShow
  BY <1>t DEF DemoTypeOK
<1>3. \A n \in Nat : Less(n) \in Nat /\ (n = 0 => Less(n) = 0)
  BY DEF Less
<1>4. ASSUME NEW r \in Shows
      PROVE  \/ show[r] = NoShow /\ show'[r] = NoShow
             \/ /\ show[r] \in Shown /\ show'[r] \in Shown
                /\ show'[r].saw = show[r].saw /\ show'[r].status = show[r].status
                /\ show'[r].pc = show[r].pc /\ show'[r].pass = show[r].pass
                /\ show'[r].scenario = show[r].scenario
                /\ show[r].left = 0 => show'[r].left = 0
  BY <1>1, <1>2, <1>3 DEF Shown
<1>5. show' \in [Shows -> Shown \union {NoShow}]
  BY <1>1, <1>4
<1>6. DemoTypeOK'
  BY <1>1, <1>5, <1>t DEF DemoTypeOK
<1>7. \A r \in Shows : show'[r] # NoShow => Backed(r, show[r].saw)'
  BY <1>1, <1>4 DEF DemoInv, Backed
<1>8. \A r \in Shows : Running(r, "judge")' /\ show'[r].saw = NoOutcome => show'[r].left = 0
  BY <1>4 DEF DemoInv, Running, NoShow
<1>9. \A r \in Shows : show'[r].status = "DONE" => Earned(r, show[r])'
  BY <1>1, <1>4 DEF DemoInv, Earned, NoShow
<1> QED BY <1>1, <1>6, <1>7, <1>8, <1>9 DEF DemoInv, Backed

\* A scenario starts with nothing seen.
LEMMA StartShowKeeps ==
  ASSUME DemoInv, NEW r \in Shows, NEW s \in Scenarios, StartShow(r, s), Timeout \in Nat
  PROVE  DemoInv'
<1> DEFINE new == [status |-> "RUNNING", scenario |-> s, pc |-> "claim", left |-> Timeout,
                   saw |-> NoOutcome, detail |-> FALSE, pass |-> FALSE]
<1>t. DemoTypeOK
  BY DEF DemoInv
<1>1. show' = [show EXCEPT ![r] = new] /\ UNCHANGED <<tx, approval, hold, decided>>
  BY DEF StartShow
<1>2. new \in Shown
  BY DEF Shown, Recordable
<1>3. DemoTypeOK' /\ show'[r] = new /\ \A q \in Shows : q # r => show'[q] = show[q]
  BY <1>1, <1>2, <1>t DEF DemoTypeOK
<1>4. Backed(r, new.saw)
  BY DEF Backed, NoOutcome
<1> QED BY <1>1, <1>3, <1>4, ScenarioMoves

\* The runner's own steps: a look is backed by the row it looked at, and a
\* judgement weighs exactly what the poll brought.
LEMMA RunnerKeeps ==
  ASSUME DemoInv, NEW r \in Shows, RunnerStep(r) \/ ShowFails(r), Timeout \in Nat
  PROVE  DemoInv'
<1>t. DemoTypeOK
  BY DEF DemoInv
<1>u. UNCHANGED <<approval, hold, decided>>
  BY DEF RunnerStep, ClaimAndEnqueue, Poll, Judge, ShowFails
<1>r. show[r].status = "RUNNING"
  BY DEF RunnerStep, ClaimAndEnqueue, Poll, Judge, ShowFails, Running
<1>s. show[r] \in Shown /\ show[r] # NoShow
  BY <1>t, <1>r DEF DemoTypeOK, NoShow
<1>b. Backed(r, show[r].saw) /\ Backed(r, tx[r].outcome)
  BY <1>s DEF DemoInv
<1>1. CASE ClaimAndEnqueue(r)
  <2>1. /\ show' = [show EXCEPT ![r] = [@ EXCEPT !.pc = "poll", !.left = Timeout]]
        /\ tx' = [tx EXCEPT ![r].stage = "LIVE"]
    BY <1>1 DEF ClaimAndEnqueue
  <2>2. /\ show'[r] \in Shown /\ show'[r].saw = show[r].saw /\ show'[r].pc = "poll"
        /\ show'[r].status = "RUNNING"
        /\ \A q \in Shows : q # r => show'[q] = show[q]
        /\ show' \in [Shows -> Shown \union {NoShow}]
    BY <2>1, <1>s, <1>r, <1>t DEF DemoTypeOK, Shown
  <2>3. tx' \in [Shows -> TxRows] /\ \A q \in Shows : tx'[q].outcome = tx[q].outcome
    BY <2>1, <1>t DEF DemoTypeOK, TxRows
  <2>4. DemoTypeOK'
    BY <2>2, <2>3, <1>u, <1>t DEF DemoTypeOK
  <2> QED BY <2>2, <2>3, <2>4, <1>u, <1>b, ScenarioMoves
<1>2. CASE Poll(r)
  <2>1. UNCHANGED tx
    BY <1>2 DEF Poll
  <2>2. \/ show' = [show EXCEPT ![r] = [@ EXCEPT !.pc = "judge", !.saw = tx[r].outcome, !.detail = tx[r].detail]]
           /\ tx[r].outcome # NoOutcome
        \/ show' = [show EXCEPT ![r] = [@ EXCEPT !.pc = "judge"]] /\ show[r].left = 0
    BY <1>2 DEF Poll, Overdue
  <2>3. tx[r].outcome \in Recordable /\ tx[r].detail \in BOOLEAN
    BY <1>t DEF DemoTypeOK, TxRows
  <2>4. /\ show'[r] \in Shown /\ show'[r].status = "RUNNING"
        /\ \/ show'[r].saw = tx[r].outcome /\ tx[r].outcome # NoOutcome
           \/ show'[r].saw = show[r].saw /\ show'[r].left = 0
        /\ \A q \in Shows : q # r => show'[q] = show[q]
        /\ show' \in [Shows -> Shown \union {NoShow}]
    <3>1. CASE /\ tx[r].outcome # NoOutcome
               /\ show' = [show EXCEPT ![r] = [@ EXCEPT !.pc = "judge", !.saw = tx[r].outcome,
                                                        !.detail = tx[r].detail]]
      BY <3>1, <2>3, <1>s, <1>r, <1>t DEF DemoTypeOK, Shown
    <3>2. CASE show' = [show EXCEPT ![r] = [@ EXCEPT !.pc = "judge"]] /\ show[r].left = 0
      BY <3>2, <1>s, <1>r, <1>t DEF DemoTypeOK, Shown
    <3> QED BY <2>2, <3>1, <3>2
  <2>5. DemoTypeOK'
    BY <2>1, <2>4, <1>u, <1>t DEF DemoTypeOK
  <2> QED BY <2>1, <2>4, <2>5, <1>u, <1>b, ScenarioMoves
<1>3. CASE Judge(r)
  <2>1. /\ UNCHANGED tx /\ Running(r, "judge")
        /\ show' = [show EXCEPT ![r] = [@ EXCEPT !.status = "DONE", !.pc = "over",
                                                 !.pass = AssertionsHold(r, show[r])]]
    BY <1>3 DEF Judge
  <2>2. AssertionsHold(r, show[r]) \in BOOLEAN
    BY DEF AssertionsHold
  <2>3. /\ show'[r] \in Shown /\ show'[r].status = "DONE"
        /\ show'[r].pass = AssertionsHold(r, show[r])
        /\ show'[r].saw = show[r].saw /\ show'[r].left = show[r].left
        /\ show'[r].scenario = show[r].scenario
        /\ \A q \in Shows : q # r => show'[q] = show[q]
        /\ show' \in [Shows -> Shown \union {NoShow}]
    BY <2>1, <2>2, <1>s, <1>t DEF DemoTypeOK, Shown
  <2>4. DemoTypeOK'
    BY <2>1, <2>3, <1>u, <1>t DEF DemoTypeOK
  <2>5. show[r].saw = NoOutcome => show[r].left = 0
    BY <2>1 DEF DemoInv
  <2>6. show[r].scenario \in Scenarios
    BY <1>s DEF Shown
  <2>7. AssertionsHold(r, show[r]) =>
          /\ show[r].saw # NoOutcome
          /\ show[r].scenario \notin ChaosShows => show[r].saw = ExpectedOutcome(show[r].scenario)
          /\ show[r].scenario = "high_value_escalate" => approval[r] # "NONE"
    BY <2>6 DEF AssertionsHold, Scenarios, ChaosShows, ExpectedOutcome
  <2>8. Earned(r, show'[r])
    BY <2>3, <2>5, <2>7 DEF Earned
  <2> QED BY <2>1, <2>3, <2>4, <2>8, <1>u, <1>b, ScenarioMoves
<1>4. CASE ShowFails(r)
  <2>1. UNCHANGED tx /\ show' = [show EXCEPT ![r] = [@ EXCEPT !.status = "ERROR", !.pc = "over"]]
    BY <1>4 DEF ShowFails
  <2>2. /\ show'[r] \in Shown /\ show'[r].saw = show[r].saw /\ show'[r].status = "ERROR"
        /\ \A q \in Shows : q # r => show'[q] = show[q]
        /\ show' \in [Shows -> Shown \union {NoShow}]
    BY <2>1, <1>s, <1>t DEF DemoTypeOK, Shown
  <2>3. DemoTypeOK'
    BY <2>1, <2>2, <1>u, <1>t DEF DemoTypeOK
  <2> QED BY <2>1, <2>2, <2>3, <1>u, <1>b, ScenarioMoves
<1> QED BY <1>1, <1>2, <1>3, <1>4 DEF RunnerStep

\* A step that changes none of what backs an outcome remembers it.
LEMMA RemembersAll ==
  ASSUME DemoTypeOK', UNCHANGED <<approval, hold, decided>>
  PROVE  Remembers
BY DEF Remembers

\* The pipeline and the merchant record an outcome with what backs it.
LEMMA PipelineKeeps ==
  ASSUME DemoInv, NEW r \in Shows,
         TakesHold(r) \/ OpensApproval(r) \/ RecordsOutcome(r) \/ MerchantResolves(r)
  PROVE  DemoInv'
<1>t. DemoTypeOK
  BY DEF DemoInv
<1>u. UNCHANGED show
  BY DEF TakesHold, OpensApproval, RecordsOutcome, MerchantResolves
<1>1. CASE TakesHold(r)
  <2>1. hold' = [hold EXCEPT ![r] = "ACTIVE"] /\ UNCHANGED <<tx, approval, decided>>
    BY <1>1 DEF TakesHold
  <2>2. Remembers
    BY <2>1, <1>u, <1>t DEF Remembers, DemoTypeOK
  <2> QED BY <2>1, <2>2, <1>u, ScenariosStand
<1>2. CASE OpensApproval(r)
  <2>1. approval' = [approval EXCEPT ![r] = "PENDING"] /\ UNCHANGED <<tx, hold, decided>> /\ approval[r] = "NONE"
    BY <1>2 DEF OpensApproval
  <2>2. Remembers
    BY <2>1, <1>u, <1>t DEF Remembers, DemoTypeOK
  <2> QED BY <2>1, <2>2, <1>u, ScenariosStand
<1>o. ASSUME NEW o \in {"APPROVED", "DECLINED", "ESCALATED", "FAILED"}, NEW line \in Closing(o)
      PROVE  line \in TxRows /\ line.outcome = o
  BY <1>o DEF Closing, TxRows, Recordable
<1>3. CASE RecordsOutcome(r)
  <2>0. PICK o \in {"APPROVED", "DECLINED", "ESCALATED", "FAILED"} : \E line \in Closing(o) :
          /\ o = "APPROVED" => hold[r] # "NONE"
          /\ tx' = [tx EXCEPT ![r] = line]
          /\ decided' = [decided EXCEPT ![r] = @ \union {o}]
    BY <1>3 DEF RecordsOutcome
  <2>1. PICK line \in Closing(o) :
          /\ o = "APPROVED" => hold[r] # "NONE"
          /\ tx' = [tx EXCEPT ![r] = line]
          /\ decided' = [decided EXCEPT ![r] = @ \union {o}]
    BY <2>0
  <2>2. UNCHANGED <<approval, hold>>
    BY <1>3 DEF RecordsOutcome
  <2>3. o \in Recordable
    BY DEF Recordable
  <2>4. /\ tx' \in [Shows -> TxRows] /\ tx'[r].outcome = o
        /\ \A q \in Shows : q # r => tx'[q] = tx[q]
    BY <2>1, <1>o, <1>t DEF DemoTypeOK
  <2>5. /\ decided' \in [Shows -> SUBSET Recordable] /\ o \in decided'[r]
        /\ \A q \in Shows : decided[q] \subseteq decided'[q]
    BY <2>1, <2>3, <1>t DEF DemoTypeOK
  <2>6. Remembers
    BY <2>2, <2>4, <2>5, <1>u, <1>t DEF Remembers, DemoTypeOK
  <2>7. Backed(r, tx[r].outcome)'
    BY <2>1, <2>2, <2>4, <2>5 DEF Backed
  <2> QED BY <2>4, <2>6, <2>7, <1>u, ScenariosStand
<1>4. CASE MerchantResolves(r)
  <2>0. PICK o \in {"APPROVED", "DECLINED", "FAILED"} : \E line \in Closing(o) :
          /\ tx' = [tx EXCEPT ![r] = line]
          /\ decided' = [decided EXCEPT ![r] = @ \union {o}]
    BY <1>4 DEF MerchantResolves
  <2>1. PICK line \in Closing(o) :
          /\ tx' = [tx EXCEPT ![r] = line]
          /\ decided' = [decided EXCEPT ![r] = @ \union {o}]
    BY <2>0
  <2>2. approval' = [approval EXCEPT ![r] = "RESOLVED"] /\ UNCHANGED hold
    BY <1>4 DEF MerchantResolves
  <2>3. o \in Recordable /\ approval'[r] = "RESOLVED"
    BY <2>2, <1>t DEF Recordable, DemoTypeOK
  <2>4. /\ tx' \in [Shows -> TxRows] /\ tx'[r].outcome = o
        /\ \A q \in Shows : q # r => tx'[q] = tx[q]
    BY <2>1, <1>o, <1>t DEF DemoTypeOK
  <2>5. /\ decided' \in [Shows -> SUBSET Recordable] /\ o \in decided'[r]
        /\ \A q \in Shows : decided[q] \subseteq decided'[q]
    BY <2>1, <2>3, <1>t DEF DemoTypeOK
  <2>6. Remembers
    BY <2>2, <2>4, <2>5, <1>u, <1>t DEF Remembers, DemoTypeOK
  <2>7. Backed(r, tx[r].outcome)'
    BY <2>3, <2>4, <2>5 DEF Backed
  <2> QED BY <2>4, <2>6, <2>7, <1>u, ScenariosStand
<1> QED BY <1>1, <1>2, <1>3, <1>4

\* A reset rewrites rows under running scenarios, but only to failures, and it
\* takes away no hold's trace and no approval's.
LEMMA ResetKeeps ==
  ASSUME DemoInv, ResetStep \/ \E force \in BOOLEAN : ResetBegins(force)
  PROVE  DemoInv'
<1>t. DemoTypeOK
  BY DEF DemoInv
<1>u. UNCHANGED <<show, decided>>
  BY DEF ResetStep, ResetBegins, ResetForces, ResetRejectsPending, ResetInventory, ResetRulesAndFlags
<1>1. CASE ResetForces
  <2>1. /\ hold' = [r \in Shows |-> IF hold[r] = "ACTIVE" THEN "EXPIRED" ELSE hold[r]]
        /\ tx' = [r \in Shows |-> IF InFlight(r)
                    THEN [stage |-> "TERMINAL", outcome |-> "FAILED", detail |-> FALSE] ELSE tx[r]]
        /\ UNCHANGED approval
    BY <1>1 DEF ResetForces
  <2>2. hold' \in [Shows -> {"NONE", "ACTIVE", "EXPIRED"}] /\ \A r \in Shows : hold[r] # "NONE" => hold'[r] # "NONE"
    BY <2>1, <1>t DEF DemoTypeOK
  <2>3. [stage |-> "TERMINAL", outcome |-> "FAILED", detail |-> FALSE] \in TxRows
    BY DEF TxRows, Recordable
  <2>4. tx' \in [Shows -> TxRows]
    BY <2>1, <2>3, <1>t DEF DemoTypeOK
  <2>5. Remembers
    BY <2>1, <2>2, <2>4, <1>u, <1>t DEF Remembers, DemoTypeOK
  <2>6. \A r \in Shows : tx'[r] = tx[r] \/ tx'[r].outcome = "FAILED"
    BY <2>1
  <2>7. \A r \in Shows : tx'[r] = tx[r] \/ Backed(r, tx[r].outcome)'
    BY <2>6 DEF Backed
  <2> QED BY <2>5, <2>7, <1>u, ScenariosStand
<1>2. CASE ResetRejectsPending
  <2>1. /\ approval' = [r \in Shows |-> IF approval[r] = "PENDING" THEN "RESOLVED" ELSE approval[r]]
        /\ UNCHANGED <<tx, hold>>
    BY <1>2 DEF ResetRejectsPending
  <2>2. Remembers
    BY <2>1, <1>u, <1>t DEF Remembers, DemoTypeOK
  <2> QED BY <2>1, <2>2, <1>u, ScenariosStand
<1>3. CASE ResetInventory \/ ResetRulesAndFlags \/ \E force \in BOOLEAN : ResetBegins(force)
  <2>1. UNCHANGED <<tx, hold, approval>>
    BY <1>3 DEF ResetInventory, ResetRulesAndFlags, ResetBegins
  <2>2. DemoTypeOK'
    BY <2>1, <1>u, <1>t DEF DemoTypeOK
  <2> QED BY <2>1, <2>2, <1>u, RemembersAll, ScenariosStand
<1> QED BY <1>1, <1>2, <1>3 DEF ResetStep

\* Whatever the demo does.
LEMMA DemoStep == DemoInv /\ [DemoNext]_demoVars => DemoInv'
<1> SUFFICES ASSUME DemoInv, [DemoNext]_demoVars PROVE DemoInv'
  OBVIOUS
<1>t. DemoTypeOK /\ Timeout \in Nat
  BY DemoAssumption DEF DemoInv
<1>1. CASE \/ DeleteChaos \/ UNCHANGED demoVars
           \/ \E f \in Flags, scope \in SUBSET Shows, ttl \in 1 .. FlagTTL : PutChaos(f, scope, ttl)
  <2>1. UNCHANGED <<show, tx, approval, hold, decided>>
    BY <1>1 DEF DeleteChaos, PutChaos, demoVars
  <2>2. DemoTypeOK'
    BY <2>1, <1>t DEF DemoTypeOK
  <2> QED BY <2>1, <2>2, RemembersAll, ScenariosStand
<1> QED BY <1>t, <1>1, DemoTickKeeps, StartShowKeeps, RunnerKeeps, PipelineKeeps, ResetKeeps DEF DemoNext

\* The invariant gives the property.
LEMMA VerdictFollows == DemoInv => VerdictIsTrue
<1> SUFFICES ASSUME DemoInv, NEW r \in Shows, show[r].status = "DONE"
             PROVE  /\ show[r].pass /\ show[r].scenario \notin ChaosShows =>
                         /\ ExpectedOutcome(show[r].scenario) \in decided[r]
                         /\ show[r].scenario = "high_value_escalate" => approval[r] # "NONE"
                         /\ show[r].scenario = "well_behaved" => hold[r] # "NONE" \/ approval[r] = "RESOLVED"
                    /\ show[r].saw = NoOutcome => ~show[r].pass /\ Overdue(r)
  BY DEF VerdictIsTrue
<1>1. show[r] \in Shown /\ Backed(r, show[r].saw) /\ Earned(r, show[r])
  BY DEF DemoInv, DemoTypeOK, NoShow
<1>2. show[r].scenario \in Scenarios
  BY <1>1 DEF Shown
<1> QED BY <1>1, <1>2 DEF Earned, Backed, ExpectedOutcome, Scenarios, ChaosShows, Overdue, NoOutcome

----------------------------------------------------------------------------
(* The assembly of a campaign set.                                         *)

\* Before is a strict total order.
LEMMA BeforeIs ==
  ASSUME NEW opps, OppSet(opps)
  PROVE  /\ \A a, b, c \in opps : Before(a, b) /\ Before(b, c) => Before(a, c)
         /\ \A a \in opps : ~Before(a, a)
         /\ \A a, b \in opps : a # b => Before(a, b) \/ Before(b, a)
         /\ \A a, b \in opps : Before(a, b) => a.weight >= b.weight
<1>1. \A o \in opps : o.weight \in Nat /\ o.id \in Nat /\ TieBreak(o.type) \in Nat
  BY DEF OppSet, OppTypes, TieBreak
<1>2. \A a, b \in opps : TieBreak(a.type) = TieBreak(b.type) => a.type = b.type
  BY DEF OppSet, OppTypes, TieBreak
<1>3. \A a, b \in opps : a.id = b.id => a = b
  BY DEF OppSet
<1>4. \A a, b, c \in opps : Before(a, b) /\ Before(b, c) => Before(a, c)
  BY <1>1 DEF Before
<1>5. \A a \in opps : ~Before(a, a)
  BY <1>1 DEF Before
<1>6. \A a, b \in opps : a # b => Before(a, b) \/ Before(b, a)
  BY <1>1, <1>2, <1>3 DEF Before
<1>7. \A a, b \in opps : Before(a, b) => a.weight >= b.weight
  BY <1>1 DEF Before
<1> QED BY <1>4, <1>5, <1>6, <1>7

InOrder(s, opps) ==
  /\ s \in [1 .. Cardinality(opps) -> opps]
  /\ \A i, j \in 1 .. Cardinality(opps) : i < j => Before(s[i], s[j])

\* How many come before an opportunity is its place.
LEMMA OrderExists ==
  ASSUME NEW opps, OppSet(opps)
  PROVE  \E s : InOrder(s, opps)
<1> DEFINE n == Cardinality(opps)
           Ahead(o) == {p \in opps : Before(p, o)}
           rank == [o \in opps |-> Cardinality(Ahead(o)) + 1]
<1>1. IsFiniteSet(opps) /\ n \in Nat
  BY FS_CardinalityType DEF OppSet
<1>2. \A o \in opps : IsFiniteSet(Ahead(o)) /\ Cardinality(Ahead(o)) \in 0 .. n - 1
  <2> TAKE o \in opps
  <2>1. Ahead(o) \in SUBSET (opps \ {o})
    BY BeforeIs
  <2>2. IsFiniteSet(opps \ {o}) /\ Cardinality(opps \ {o}) = n - 1
    BY <1>1, FS_RemoveElement
  <2> HIDE DEF Ahead, n
  <2>3. IsFiniteSet(Ahead(o)) /\ Cardinality(Ahead(o)) <= n - 1
    BY <2>1, <2>2, FS_Subset
  <2>4. Cardinality(Ahead(o)) \in Nat
    BY <2>3, FS_CardinalityType
  <2> QED BY <1>1, <2>3, <2>4
<1>3. \A a, b \in opps : Before(a, b) => Cardinality(Ahead(a)) < Cardinality(Ahead(b))
  <2> SUFFICES ASSUME NEW a \in opps, NEW b \in opps, Before(a, b)
               PROVE  Cardinality(Ahead(a)) < Cardinality(Ahead(b))
    OBVIOUS
  <2>1. Ahead(a) \in SUBSET Ahead(b) /\ Ahead(a) # Ahead(b)
    BY BeforeIs
  <2> HIDE DEF Ahead
  <2>2. Cardinality(Ahead(a)) <= Cardinality(Ahead(b)) /\ Cardinality(Ahead(a)) # Cardinality(Ahead(b))
    BY <1>2, <2>1, FS_Subset
  <2> QED BY <1>1, <1>2, <2>2
<1>4. rank \in [opps -> 1 .. n]
  <2> HIDE DEF Ahead, n
  <2> QED BY <1>1, <1>2
<1>5. \A a, b \in opps : Before(a, b) => rank[a] < rank[b]
  <2> HIDE DEF Ahead
  <2> QED BY <1>1, <1>2, <1>3
<1> HIDE DEF rank
<1>6. \A a, b \in opps : rank[a] = rank[b] => a = b
  <2>1. \A a, b \in opps : rank[a] < rank[b] => rank[a] # rank[b]
    BY <1>1, <1>4
  <2> QED BY <1>5, <2>1, BeforeIs
<1>7. \A i \in 1 .. n : \E o \in opps : rank[o] = i
  <2>1. rank \in Injection(opps, 1 .. n)
    BY <1>4, <1>6 DEF Injection, IsInjective
  <2>2. IsFiniteSet(1 .. n) /\ Cardinality(1 .. n) = n
    BY <1>1, FS_Interval
  <2>3. rank \in Surjection(opps, 1 .. n)
    BY <2>1, <2>2, FS_Injection
  <2> QED BY <2>3 DEF Surjection
<1> DEFINE s == [i \in 1 .. n |-> CHOOSE o \in opps : rank[o] = i]
<1>8. \A i \in 1 .. n : s[i] \in opps /\ rank[s[i]] = i
  BY <1>7
<1>9. s \in [1 .. n -> opps]
  BY <1>8
<1> HIDE DEF s
<1>10. ASSUME NEW i \in 1 .. n, NEW j \in 1 .. n, i < j PROVE Before(s[i], s[j])
  <2>1. s[i] # s[j] /\ ~Before(s[j], s[i])
    <3>1. ~(rank[s[j]] < rank[s[i]]) /\ rank[s[i]] # rank[s[j]]
      BY <1>1, <1>8, <1>10
    <3> QED BY <1>5, <1>8, <3>1
  <2> QED BY <1>8, <2>1, BeforeIs
<1>11. InOrder(s, opps)
  BY <1>9, <1>10 DEF InOrder
<1> QED BY <1>11

\* The ranking lists every opportunity once, the heavier first.
LEMMA RankedIs ==
  ASSUME NEW opps, OppSet(opps)
  PROVE  /\ Cardinality(opps) \in Nat /\ InOrder(Ranked(opps), opps)
         /\ \A o \in opps : \E i \in 1 .. Cardinality(opps) : Ranked(opps)[i] = o
<1> DEFINE n == Cardinality(opps)  s == Ranked(opps)
<1>1. IsFiniteSet(opps) /\ n \in Nat
  BY FS_CardinalityType DEF OppSet
<1>2. InOrder(s, opps)
  <2>1. \E x \in [1 .. n -> opps] : \A i, j \in 1 .. n : i < j => Before(x[i], x[j])
    BY OrderExists DEF InOrder
  <2> QED BY <2>1 DEF Ranked, InOrder
<1> HIDE DEF s
<1>3. \A i, j \in 1 .. n : s[i] = s[j] => i = j
  <2>1. \A i, j \in 1 .. n : i < j => s[i] # s[j]
    BY <1>2, BeforeIs DEF InOrder
  <2>2. \A i, j \in 1 .. n : i # j => i < j \/ j < i
    BY <1>1
  <2> HIDE DEF n
  <2> QED BY <2>1, <2>2
<1>4. s \in Injection(1 .. n, opps)
  BY <1>2, <1>3 DEF Injection, IsInjective, InOrder
<1>5. Cardinality(1 .. n) = n
  BY <1>1, FS_Interval
<1>6. s \in Surjection(1 .. n, opps)
  BY <1>1, <1>4, <1>5, FS_Injection
<1>7. \A o \in opps : \E i \in 1 .. n : s[i] = o
  BY <1>6 DEF Surjection
<1> QED BY <1>1, <1>2, <1>7 DEF s

Reasons == {"SET_FULL", "SKU_ALREADY_CLAIMED"}
Drafts(opps) == {Draft(o) : o \in opps}
Leftovers(opps) == [id : {o.id : o \in opps}, reason : Reasons]
Accs(opps) == [entries : Seq(Drafts(opps)), suppressed : Seq(Leftovers(opps))]
Empty == [entries |-> <<>>, suppressed |-> <<>>]

\* What a step adds to one side leaves the other.
LEMMA Grows ==
  ASSUME NEW E, NEW N, NEW a \in [entries : Seq(E), suppressed : Seq(N)]
  PROVE  /\ \A d \in E : [a EXCEPT !.entries = Append(@, d)] \in [entries : Seq(E), suppressed : Seq(N)]
         /\ \A u \in N : [a EXCEPT !.suppressed = Append(@, u)] \in [entries : Seq(E), suppressed : Seq(N)]
<1>1. a.entries \in Seq(E) /\ a.suppressed \in Seq(N)
  OBVIOUS
<1>2. ASSUME NEW d \in E PROVE [a EXCEPT !.entries = Append(@, d)] \in [entries : Seq(E), suppressed : Seq(N)]
  <2>1. Append(a.entries, d) \in Seq(E)
    BY <1>1
  <2> QED BY <2>1
<1>3. ASSUME NEW u \in N PROVE [a EXCEPT !.suppressed = Append(@, u)] \in [entries : Seq(E), suppressed : Seq(N)]
  <2>1. Append(a.suppressed, u) \in Seq(N)
    BY <1>1
  <2> QED BY <2>1
<1> QED BY <1>2, <1>3

\* The fold of the assembly, one opportunity after the other.
LEMMA AssemblySteps ==
  ASSUME NEW opps, OppSet(opps)
  PROVE  LET n == Cardinality(opps) IN
         \E g : /\ g[1 .. 0] = Empty /\ Assembly(opps) = g[1 .. n]
                /\ \A k \in 1 .. n : g[1 .. k] = Place(g[1 .. (k - 1)], Ranked(opps)[k])
<1> DEFINE n == Cardinality(opps)  r == Ranked(opps)  A == Accs(opps)
           Turn(g) == [s \in SUBSET (1 .. n) |-> IF s = {} THEN Empty ELSE Place(g[s \ {Max(s)}], r[Max(s)])]
           F == [i \in 1 .. n |-> [a \in A |-> Place(a, r[i])]]
<1>1. n \in Nat /\ r \in [1 .. n -> opps]
  BY RankedIs DEF InOrder
<1>2. DOMAIN r = 1 .. n
  BY <1>1
<1>3. Assembly(opps) = (CHOOSE g : g = Turn(g))[1 .. n]
  BY <1>2 DEF Assembly, FoldLeft, MapThenFoldSet, Empty
<1> HIDE DEF n, r
<1>4. Empty \in A
  BY DEF Empty, Accs
<1>5. \A a \in A, o \in opps : Place(a, o) \in A
  <2> SUFFICES ASSUME NEW a \in A, NEW o \in opps PROVE Place(a, o) \in A
    OBVIOUS
  <2>1. Draft(o) \in Drafts(opps) /\ \A why \in Reasons : [id |-> o.id, reason |-> why] \in Leftovers(opps)
    BY DEF Drafts, Leftovers
  <2>2. "SET_FULL" \in Reasons /\ "SKU_ALREADY_CLAIMED" \in Reasons
    BY DEF Reasons
  <2>3. ASSUME NEW why \in Reasons PROVE Suppress(a, o, why) \in A
    <3> DEFINE u == [id |-> o.id, reason |-> why]  E == Drafts(opps)  N == Leftovers(opps)
    <3>1. u \in N /\ a \in [entries : Seq(E), suppressed : Seq(N)]
      BY <2>1 DEF Accs
    <3> HIDE DEF u, E, N
    <3>2. [a EXCEPT !.suppressed = Append(@, u)] \in [entries : Seq(E), suppressed : Seq(N)]
      BY <3>1, Grows
    <3> QED BY <3>2 DEF Suppress, Accs, u, E, N
  <2>4. [a EXCEPT !.entries = Append(@, Draft(o))] \in A
    BY <2>1, Grows DEF Accs
  <2> QED BY <2>2, <2>3, <2>4 DEF Place
<1>6. F \in [1 .. n -> [A -> A]]
  BY <1>1, <1>5
<1>7. PICK f \in [SUBSET (1 .. n) -> A] : Folds(f, Empty, F, n)
  <2> HIDE DEF F, A
  <2> QED BY <1>1, <1>4, <1>6, FoldExists
<1>8. f = Turn(f)
  <2>1. ASSUME NEW s \in SUBSET (1 .. n), s # {} PROVE F[Max(s)][f[s \ {Max(s)}]] = Place(f[s \ {Max(s)}], r[Max(s)])
    <3>1. Max(s) \in 1 .. n
      BY <1>1, <2>1, MaxIs
    <3>2. f[s \ {Max(s)}] \in A
      OBVIOUS
    <3> HIDE DEF A
    <3> QED BY <3>1, <3>2
  <2>2. \A s \in SUBSET (1 .. n) : f[s] = IF s = {} THEN Empty ELSE Place(f[s \ {Max(s)}], r[Max(s)])
    <3> HIDE DEF F
    <3> QED BY <1>7, <2>1 DEF Folds
  <2> QED BY <2>2
<1> DEFINE g == CHOOSE x : x = Turn(x)
<1>9. g = Turn(g)
  <2> HIDE DEF Turn
  <2> QED BY <1>8
<1> HIDE DEF g
<1>10. \A s \in SUBSET (1 .. n) : g[s] = IF s = {} THEN Empty ELSE Place(g[s \ {Max(s)}], r[Max(s)])
  BY <1>9
<1>11. g[1 .. 0] = Empty
  <2>1. 1 .. 0 = {} /\ {} \in SUBSET (1 .. n)
    OBVIOUS
  <2> QED BY <1>10, <2>1
<1>12. ASSUME NEW k \in 1 .. n PROVE g[1 .. k] = Place(g[1 .. (k - 1)], r[k])
  <2>1. /\ 1 .. k \in SUBSET (1 .. n) /\ 1 .. k # {} /\ Max(1 .. k) = k
        /\ (1 .. k) \ {k} = 1 .. (k - 1)
    BY <1>1, PrefixIs
  <2> QED BY <1>10, <2>1
<1>13. Assembly(opps) = g[1 .. n]
  BY <1>3 DEF g
<1> QED BY <1>11, <1>12, <1>13 DEF n, r

\* Why an opportunity was left out is true of the entries ranked before it.
Told(r, b, why, e) ==
  \/ why = "SET_FULL" /\ Len(e) = MaxEntries /\ \A i \in 1 .. Len(e) : \E c \in 1 .. (b - 1) : e[i] = Draft(r[c])
  \/ /\ why = "SKU_ALREADY_CLAIMED"
     /\ \E i \in 1 .. Len(e), c \in 1 .. (b - 1) : e[i] = Draft(r[c]) /\ e[i].skus \cap r[b].skus # {}

\* The entries after k opportunities: each is the draft of one of them, no two
\* push the same sku, the heavier come first.
Chosen(r, k, e) ==
  /\ Len(e) <= MaxEntries
  /\ \A i \in 1 .. Len(e) : \E b \in 1 .. k : e[i] = Draft(r[b])
  /\ \A i, j \in 1 .. Len(e) : i < j => e[i].skus \cap e[j].skus = {} /\ e[i].weight >= e[j].weight

Accounted(r, k, e, u) ==
  /\ Len(e) + Len(u) = k
  /\ \A b \in 1 .. k : (\E i \in 1 .. Len(e) : e[i].id = r[b].id) \/ (\E m \in 1 .. Len(u) : u[m].id = r[b].id)
  /\ \A m \in 1 .. Len(u) : \E b \in 1 .. k : u[m].id = r[b].id /\ Told(r, b, u[m].reason, e)

Built(opps, k, a) ==
  /\ a \in Accs(opps)
  /\ Chosen(Ranked(opps), k, a.entries)
  /\ Accounted(Ranked(opps), k, a.entries, a.suppressed)

\* Rounding a weight keeps the order.
LEMMA RoundsAlike ==
  ASSUME NEW a \in Nat, NEW b \in Nat, a >= b
  PROVE  (a + 5) \div 10 >= (b + 5) \div 10 /\ (a + 5) \div 10 \in Nat
OBVIOUS

\* An opportunity left out for a reason that holds is accounted for.
LEMMA SuppressKeeps ==
  ASSUME NEW opps, OppSet(opps), NEW k \in Nat, k + 1 <= Cardinality(opps), NEW a, Built(opps, k, a),
         NEW why \in Reasons, Told(Ranked(opps), k + 1, why, a.entries)
  PROVE  Built(opps, k + 1, Suppress(a, Ranked(opps)[k + 1], why))
<1> DEFINE r == Ranked(opps)  o == r[k + 1]  e == a.entries  u == a.suppressed
           x == [id |-> o.id, reason |-> why]  v == Append(u, x)  z == Suppress(a, o, why)
<1>1. o \in opps /\ x \in Leftovers(opps)
  <2>1. Cardinality(opps) \in Nat /\ r \in [1 .. Cardinality(opps) -> opps]
    BY RankedIs DEF InOrder
  <2>2. o \in opps
    BY <2>1
  <2> HIDE DEF o
  <2> QED BY <2>2 DEF Leftovers
<1>2. a \in Accs(opps) /\ Chosen(r, k, e) /\ Accounted(r, k, e, u) /\ Told(r, k + 1, why, e)
  BY DEF Built
<1> HIDE DEF r, o
<1>3. z \in Accs(opps) /\ z.entries = e /\ z.suppressed = v
  <2> DEFINE E == Drafts(opps)  N == Leftovers(opps)
  <2>1. a \in [entries : Seq(E), suppressed : Seq(N)] /\ x \in N
    BY <1>1, <1>2 DEF Accs
  <2> HIDE DEF E, N, x
  <2>2. [a EXCEPT !.suppressed = Append(@, x)] \in [entries : Seq(E), suppressed : Seq(N)]
    BY <2>1, Grows
  <2>3. z = [a EXCEPT !.suppressed = Append(@, x)]
    BY DEF Suppress, x
  <2>4. z.entries = e /\ z.suppressed = v
    BY <2>1, <2>3
  <2> QED BY <2>2, <2>3, <2>4 DEF Accs, E, N
<1>4. e \in Seq(Drafts(opps)) /\ u \in Seq(Leftovers(opps))
  BY <1>2 DEF Accs
<1> HIDE DEF e, u, z
<1>5. Len(v) = Len(u) + 1 /\ v[Len(u) + 1] = x /\ \A m \in 1 .. Len(u) : v[m] = u[m]
  BY <1>1, <1>4
<1>6. x.id = o.id /\ x.reason = why
  OBVIOUS
<1> HIDE DEF v, x
<1>0. Len(e) \in Nat /\ Len(u) \in Nat
  BY <1>4
<1>7. Chosen(r, k + 1, e)
  <2>1. \A b \in 1 .. k : b \in 1 .. (k + 1)
    OBVIOUS
  <2>2. \A i \in 1 .. Len(e) : \E b \in 1 .. k : e[i] = Draft(r[b])
    BY <1>2 DEF Chosen
  <2>3. \A i \in 1 .. Len(e) : \E b \in 1 .. (k + 1) : e[i] = Draft(r[b])
    BY <2>1, <2>2
  <2> QED BY <1>2, <2>3 DEF Chosen
<1>8. Len(e) + Len(v) = k + 1
  <2>1. Len(e) + Len(u) = k
    BY <1>2 DEF Accounted
  <2> QED BY <1>0, <1>5, <2>1
<1>9. ASSUME NEW b \in 1 .. (k + 1)
      PROVE  (\E i \in 1 .. Len(e) : e[i].id = r[b].id) \/ (\E m \in 1 .. Len(v) : v[m].id = r[b].id)
  <2>1. CASE b = k + 1
    <3>1. Len(u) + 1 \in 1 .. Len(v) /\ v[Len(u) + 1].id = r[b].id
      <4>1. Len(u) + 1 \in 1 .. Len(v)
        BY <1>0, <1>5
      <4> QED BY <4>1, <1>5, <1>6, <2>1 DEF o
    <3> QED BY <3>1
  <2>2. CASE b \in 1 .. k
    <3>1. \A m \in 1 .. Len(u) : m \in 1 .. Len(v)
      BY <1>0, <1>5
    <3>2. (\E i \in 1 .. Len(e) : e[i].id = r[b].id) \/ (\E m \in 1 .. Len(u) : u[m].id = r[b].id)
      BY <1>2, <2>2 DEF Accounted
    <3>3. \A m \in 1 .. Len(u) : v[m].id = u[m].id
      BY <1>5
    <3> QED BY <3>1, <3>2, <3>3
  <2> QED BY <2>1, <2>2
<1>10. ASSUME NEW m \in 1 .. Len(v)
       PROVE  \E b \in 1 .. (k + 1) : v[m].id = r[b].id /\ Told(r, b, v[m].reason, e)
  <2>1. CASE m = Len(u) + 1
    <3>1. v[m].id = r[k + 1].id /\ Told(r, k + 1, v[m].reason, e) /\ k + 1 \in 1 .. (k + 1)
      BY <1>2, <1>5, <1>6, <2>1 DEF o
    <3> QED BY <3>1
  <2>2. CASE m \in 1 .. Len(u)
    <3>1. PICK b \in 1 .. k : u[m].id = r[b].id /\ Told(r, b, u[m].reason, e)
      BY <1>2, <2>2 DEF Accounted
    <3>2. b \in 1 .. (k + 1) /\ v[m] = u[m]
      BY <1>5, <2>2
    <3> QED BY <3>1, <3>2
  <2> QED BY <1>0, <1>5, <2>1, <2>2
<1>11. Accounted(r, k + 1, e, v)
  BY <1>8, <1>9, <1>10 DEF Accounted
<1> QED BY <1>3, <1>7, <1>11 DEF Built, z, o, r

\* An opportunity placed while there is room, its skus not claimed, is the
\* lightest of the entries and disjoint from them.
LEMMA DraftKeeps ==
  ASSUME NEW opps, OppSet(opps), NEW k \in Nat, k + 1 <= Cardinality(opps), NEW a, Built(opps, k, a),
         Len(a.entries) < MaxEntries, MaxEntries \in Nat, Ranked(opps)[k + 1].skus \cap Claimed(a.entries) = {}
  PROVE  Built(opps, k + 1, [a EXCEPT !.entries = Append(@, Draft(Ranked(opps)[k + 1]))])
<1> DEFINE n == Cardinality(opps)  r == Ranked(opps)  o == r[k + 1]  e == a.entries  u == a.suppressed
           d == Draft(o)  f == Append(e, d)  z == [a EXCEPT !.entries = Append(@, d)]
<1>1. n \in Nat /\ r \in [1 .. n -> opps] /\ \A i, j \in 1 .. n : i < j => Before(r[i], r[j])
  BY RankedIs DEF InOrder
<1>2. a \in Accs(opps) /\ Chosen(r, k, e) /\ Accounted(r, k, e, u)
  BY DEF Built
<1>3. k + 1 \in 1 .. n /\ 1 .. k \subseteq 1 .. n /\ \A b \in 1 .. k : b < k + 1 /\ b \in 1 .. (k + 1)
  BY <1>1
<1> HIDE DEF r, n
<1>4. o \in opps /\ d \in Drafts(opps)
  <2>1. o \in opps
    BY <1>1, <1>3
  <2> HIDE DEF o
  <2> QED BY <2>1 DEF Drafts
<1> HIDE DEF o
<1>5. d.id = o.id /\ d.skus = o.skus /\ d.weight = (o.weight + 5) \div 10
  BY DEF Draft
<1> HIDE DEF d
<1>6. z \in Accs(opps) /\ z.entries = f /\ z.suppressed = u
  <2> DEFINE E == Drafts(opps)  N == Leftovers(opps)
  <2>1. a \in [entries : Seq(E), suppressed : Seq(N)] /\ d \in E
    BY <1>2, <1>4 DEF Accs
  <2> HIDE DEF E, N
  <2>2. z \in [entries : Seq(E), suppressed : Seq(N)]
    BY <2>1, Grows
  <2>3. z.entries = f /\ z.suppressed = u
    BY <2>1
  <2> QED BY <2>2, <2>3 DEF Accs, E, N
<1>7. e \in Seq(Drafts(opps)) /\ u \in Seq(Leftovers(opps)) /\ Len(e) \in Nat /\ Len(u) \in Nat
  BY <1>2 DEF Accs
<1>c. Len(e) < MaxEntries /\ o.skus \cap Claimed(e) = {}
  BY DEF o, r
<1> HIDE DEF e, u, z
<1>8. Len(f) = Len(e) + 1 /\ f[Len(e) + 1] = d /\ \A i \in 1 .. Len(e) : f[i] = e[i]
  BY <1>4, <1>7
<1>9. \A i \in 1 .. Len(e) : o.skus \cap e[i].skus = {}
  <2>1. DOMAIN e = 1 .. Len(e)
    BY <1>7
  <2> QED BY <1>c, <2>1 DEF Claimed
<1> HIDE DEF f
<1>10. \A i \in 1 .. Len(e) : \E b \in 1 .. k : e[i] = Draft(r[b])
  BY <1>2 DEF Chosen
<1>11. \A i \in 1 .. Len(e) : e[i].weight >= d.weight
  <2> TAKE i \in 1 .. Len(e)
  <2>1. PICK b \in 1 .. k : e[i] = Draft(r[b])
    BY <1>10
  <2>2. r[b] \in opps /\ Before(r[b], o)
    BY <1>1, <1>3 DEF o
  <2>3. r[b].weight \in Nat /\ o.weight \in Nat /\ r[b].weight >= o.weight
    BY <1>4, <2>2, BeforeIs DEF OppSet
  <2>4. e[i].weight = (r[b].weight + 5) \div 10
    BY <2>1 DEF Draft
  <2> QED BY <1>5, <2>3, <2>4, RoundsAlike
<1>12. \A i \in 1 .. Len(f) : i = Len(e) + 1 \/ i \in 1 .. Len(e)
  BY <1>7, <1>8
<1>13. Chosen(r, k + 1, f)
  <2>1. Len(f) <= MaxEntries
    BY <1>7, <1>8, <1>c
  <2>2. ASSUME NEW i \in 1 .. Len(f) PROVE \E b \in 1 .. (k + 1) : f[i] = Draft(r[b])
    <3>1. CASE i = Len(e) + 1
      <4>1. k + 1 \in 1 .. (k + 1) /\ f[i] = Draft(r[k + 1])
        BY <1>8, <3>1 DEF d, o
      <4> QED BY <4>1
    <3>2. CASE i \in 1 .. Len(e)
      BY <1>3, <1>8, <1>10, <3>2
    <3> QED BY <1>12, <3>1, <3>2
  <2>3. ASSUME NEW i \in 1 .. Len(f), NEW j \in 1 .. Len(f), i < j
        PROVE  f[i].skus \cap f[j].skus = {} /\ f[i].weight >= f[j].weight
    <3>1. i \in 1 .. Len(e) /\ f[i] = e[i]
      BY <1>7, <1>8, <2>3
    <3>2. CASE j = Len(e) + 1
      <4>1. f[j] = d
        BY <1>8, <3>2
      <4> QED BY <1>5, <1>9, <1>11, <3>1, <4>1
    <3>3. CASE j \in 1 .. Len(e)
      BY <1>2, <1>8, <2>3, <3>1, <3>3 DEF Chosen
    <3> QED BY <1>12, <3>2, <3>3
  <2> QED BY <2>1, <2>2, <2>3 DEF Chosen
<1>14. Len(f) + Len(u) = k + 1
  <2>1. Len(e) + Len(u) = k
    BY <1>2 DEF Accounted
  <2>2. Len(e) \in Nat /\ Len(u) \in Nat /\ Len(f) = Len(e) + 1
    BY <1>7, <1>8
  <2> HIDE DEF e, f, u
  <2> QED BY <2>1, <2>2
<1>15. ASSUME NEW b \in 1 .. (k + 1)
       PROVE  (\E i \in 1 .. Len(f) : f[i].id = r[b].id) \/ (\E m \in 1 .. Len(u) : u[m].id = r[b].id)
  <2>1. CASE b = k + 1
    <3>1. Len(e) + 1 \in 1 .. Len(f)
      BY <1>7, <1>8
    <3>2. f[Len(e) + 1].id = r[b].id
      BY <1>5, <1>8, <2>1 DEF o
    <3> QED BY <3>1, <3>2
  <2>2. CASE b \in 1 .. k
    <3>1. \A i \in 1 .. Len(e) : i \in 1 .. Len(f)
      BY <1>7, <1>8
    <3>2. (\E i \in 1 .. Len(e) : e[i].id = r[b].id) \/ (\E m \in 1 .. Len(u) : u[m].id = r[b].id)
      BY <1>2, <2>2 DEF Accounted
    <3>3. \A i \in 1 .. Len(e) : f[i].id = e[i].id
      BY <1>8
    <3> QED BY <3>1, <3>2, <3>3
  <2> QED BY <2>1, <2>2
<1>16. ASSUME NEW m \in 1 .. Len(u)
       PROVE  \E b \in 1 .. (k + 1) : u[m].id = r[b].id /\ Told(r, b, u[m].reason, f)
  <2>1. PICK b \in 1 .. k : u[m].id = r[b].id /\ Told(r, b, u[m].reason, e)
    BY <1>2 DEF Accounted
  <2>2. Len(e) # MaxEntries
    BY <1>7, <1>c
  <2>3. PICK i \in 1 .. Len(e), c \in 1 .. (b - 1) : e[i] = Draft(r[c]) /\ e[i].skus \cap r[b].skus # {}
    BY <2>1, <2>2 DEF Told
  <2>4. u[m].reason = "SKU_ALREADY_CLAIMED"
    BY <2>1, <2>2 DEF Told
  <2>5. f[i] = e[i] /\ i \in 1 .. Len(f)
    BY <1>7, <1>8
  <2>6. Told(r, b, u[m].reason, f)
    BY <2>3, <2>4, <2>5 DEF Told
  <2>7. b \in 1 .. (k + 1)
    BY <1>3
  <2> QED BY <2>1, <2>6, <2>7
<1>17. Accounted(r, k + 1, f, u)
  BY <1>14, <1>15, <1>16 DEF Accounted
<1> QED BY <1>6, <1>13, <1>17 DEF Built, z, d, o, r

\* Each opportunity is placed or left out; one of the three branches holds.
LEMMA PlaceKeeps ==
  ASSUME NEW opps, OppSet(opps), NEW k \in Nat, k + 1 <= Cardinality(opps), NEW a, Built(opps, k, a)
  PROVE  Built(opps, k + 1, Place(a, Ranked(opps)[k + 1]))
<1> DEFINE r == Ranked(opps)  o == r[k + 1]  e == a.entries
<1>1. Chosen(r, k, e) /\ Len(e) \in Nat /\ MaxEntries \in Nat /\ e \in Seq(Drafts(opps))
  BY AuthorsAssumption DEF Built, Accs
<1>2. ASSUME NEW i \in 1 .. Len(e) PROVE \E c \in 1 .. ((k + 1) - 1) : e[i] = Draft(r[c])
  <2>1. (k + 1) - 1 = k
    OBVIOUS
  <2> QED BY <1>1, <2>1 DEF Chosen
<1>3. CASE Len(e) >= MaxEntries
  <2>1. Len(e) = MaxEntries
    BY <1>1, <1>3 DEF Chosen
  <2>2. Told(r, k + 1, "SET_FULL", e)
    BY <1>2, <2>1 DEF Told
  <2>3. Built(opps, k + 1, Suppress(a, o, "SET_FULL"))
    BY <2>2, SuppressKeeps DEF Reasons
  <2> QED BY <1>3, <2>3 DEF Place
<1>4. CASE ~(Len(e) >= MaxEntries) /\ o.skus \cap Claimed(e) # {}
  <2>1. PICK i \in 1 .. Len(e) : e[i].skus \cap o.skus # {}
    <3>1. DOMAIN e = 1 .. Len(e)
      BY <1>1
    <3> QED BY <1>4, <3>1 DEF Claimed
  <2>2. Told(r, k + 1, "SKU_ALREADY_CLAIMED", e)
    BY <1>2, <2>1 DEF Told
  <2>3. Built(opps, k + 1, Suppress(a, o, "SKU_ALREADY_CLAIMED"))
    BY <2>2, SuppressKeeps DEF Reasons
  <2> QED BY <1>4, <2>3 DEF Place
<1>5. CASE ~(Len(e) >= MaxEntries) /\ o.skus \cap Claimed(e) = {}
  <2>1. Len(e) < MaxEntries
    BY <1>1, <1>5
  <2>2. Built(opps, k + 1, [a EXCEPT !.entries = Append(@, Draft(o))])
    BY <1>1, <1>5, <2>1, DraftKeeps
  <2> QED BY <1>5, <2>2 DEF Place
<1> QED BY <1>3, <1>4, <1>5

\* What the assembly makes of all the opportunities.
LEMMA AssemblyIs ==
  ASSUME NEW opps, OppSet(opps)
  PROVE  Built(opps, Cardinality(opps), Assembly(opps))
<1> DEFINE n == Cardinality(opps)  r == Ranked(opps)
<1>1. n \in Nat
  BY RankedIs
<1>2. PICK g : /\ g[1 .. 0] = Empty /\ Assembly(opps) = g[1 .. n]
               /\ \A k \in 1 .. n : g[1 .. k] = Place(g[1 .. (k - 1)], r[k])
  BY AssemblySteps
<1> DEFINE T == {k \in 0 .. n : ~Built(opps, k, g[1 .. k])}
<1>3. T = {}
  <2> SUFFICES ASSUME T # {} PROVE FALSE
    OBVIOUS
  <2>1. PICK k \in T : \A m \in T : k <= m
    <3>1. T \subseteq Nat
      BY <1>1
    <3> HIDE DEF T
    <3> QED BY <3>1, LeastNat
  <2>2. k \in 0 .. n /\ ~Built(opps, k, g[1 .. k])
    OBVIOUS
  <2>3. k # 0
    <3>1. Built(opps, 0, Empty)
      <4>1. Empty \in Accs(opps) /\ Empty.entries = <<>> /\ Empty.suppressed = <<>>
        BY DEF Empty, Accs
      <4>2. Len(<<>>) = 0 /\ 0 <= MaxEntries
        BY AuthorsAssumption
      <4>3. Chosen(r, 0, <<>>) /\ Accounted(r, 0, <<>>, <<>>)
        BY <4>2 DEF Chosen, Accounted
      <4> QED BY <4>1, <4>3 DEF Built
    <3> QED BY <1>2, <2>2, <3>1
  <2>4. k - 1 \in 0 .. n /\ k - 1 \in Nat /\ k \in 1 .. n /\ k = (k - 1) + 1 /\ (k - 1) + 1 <= n
    BY <1>1, <2>2, <2>3
  <2>5. Built(opps, k - 1, g[1 .. (k - 1)])
    <3>1. k - 1 \notin T
      <4> HIDE DEF T
      <4>1. ~(k <= k - 1)
        BY <2>2, <1>1
      <4> QED BY <2>1, <4>1
    <3> QED BY <2>4, <3>1
  <2>6. Built(opps, (k - 1) + 1, Place(g[1 .. (k - 1)], r[(k - 1) + 1]))
    <3> DEFINE m == k - 1  x == g[1 .. (k - 1)]
    <3>1. m \in Nat /\ m + 1 <= Cardinality(opps) /\ Built(opps, m, x)
      BY <2>4, <2>5
    <3> HIDE DEF m, x
    <3>2. Built(opps, m + 1, Place(x, Ranked(opps)[m + 1]))
      BY <3>1, PlaceKeeps
    <3> QED BY <3>2 DEF m, x
  <2>7. Built(opps, k, Place(g[1 .. (k - 1)], r[k]))
    BY <2>4, <2>6
  <2>8. g[1 .. k] = Place(g[1 .. (k - 1)], r[k])
    BY <1>2, <2>4
  <2> QED BY <2>2, <2>7, <2>8
<1>4. Built(opps, n, g[1 .. n])
  <2>1. n \in 0 .. n /\ n \notin T
    BY <1>1, <1>3
  <2> QED BY <2>1
<1> QED BY <1>2, <1>4

\* A template says each of its metrics and no other number.
LEMMA TemplatesVerify == \A o : VerifyRationale(o, TemplateRationale(o)) = "VERIFIED"
<1> SUFFICES ASSUME NEW o PROVE VerifyRationale(o, TemplateRationale(o)) = "VERIFIED"
  OBVIOUS
<1> DEFINE text == TemplateRationale(o)
<1>1. text.shows = {m.key : m \in o.metrics} /\ text.numbers = {}
  BY DEF TemplateRationale
<1> HIDE DEF text
<1>2. \A m \in o.metrics : Spells(text, m)
  BY <1>1 DEF Spells
<1>3. NumbersIn(o, text) \subseteq AllowedNumbers(o)
  <2>1. \A m \in o.metrics : m.shown \in {m.shown, m.value}
    OBVIOUS
  <2>2. NumbersIn(o, text) \subseteq {m.shown : m \in o.metrics}
    BY <1>1 DEF NumbersIn
  <2>3. {m.shown : m \in o.metrics} \subseteq UNION {{m.shown, m.value} : m \in o.metrics}
    BY <2>1
  <2> QED BY <2>2, <2>3 DEF AllowedNumbers
<1> QED BY <1>2, <1>3 DEF VerifyRationale, text

\* An identifier names one opportunity.
LEMMA OppOfIs ==
  ASSUME NEW opps, OppSet(opps), NEW o \in opps
  PROVE  OppOf(opps, o.id) = o
<1>1. \A p \in opps : p.id = o.id => p = o
  BY DEF OppSet
<1> QED BY <1>1 DEF OppOf

\* The set of a sequence is finite, and so is what is picked from its indices.
LEMMA PickedIsFinite ==
  ASSUME NEW n \in Nat, NEW S \in SUBSET (1 .. n)
  PROVE  IsFiniteSet(S) /\ Cardinality(S) \in Nat /\ (Cardinality(S) = 0 <=> S = {})
<1>1. IsFiniteSet(S)
  <2>1. IsFiniteSet(1 .. n)
    BY FS_Interval
  <2> QED BY <2>1, FS_Subset
<1> QED BY <1>1, FS_CardinalityType, FS_EmptySet

\* Every entry keeps its draft, and what it says of it was verified.
LEMMA AppliedIs ==
  ASSUME NEW opps, NEW drafts, NEW reply, IsSequence(reply), drafts \in Seq(Drafts(opps))
  PROVE  LET p == Applied(opps, drafts, reply)  e == p.entries IN
         /\ Len(e) = Len(drafts) /\ DOMAIN e = 1 .. Len(drafts)
         /\ \A i \in 1 .. Len(drafts) :
              /\ e[i].id = drafts[i].id /\ e[i].skus = drafts[i].skus /\ e[i].weight = drafts[i].weight
              /\ VerifyRationale(OppOf(opps, drafts[i].id), e[i].text) = "VERIFIED"
              /\ p.fallbacks = 0 => e[i].provenance = "VERIFIED_LLM"
              /\ reply = <<>> => e[i].provenance = "TEMPLATE_FALLBACK"
<1> DEFINE text(i) == FirstFor(reply, i)
           opp(i) == OppOf(opps, drafts[i].id)
           good(i) == \E t \in text(i) : VerifyRationale(opp(i), t) = "VERIFIED"
           entry(i) == IF good(i) THEN Entry(drafts[i], CHOOSE t \in text(i) : TRUE, "VERIFIED_LLM")
                       ELSE Entry(drafts[i], TemplateRationale(opp(i)), "TEMPLATE_FALLBACK")
           e == [i \in DOMAIN drafts |-> entry(i)]
           bad == {i \in DOMAIN drafts : ~good(i)}
           twice == Repeats(reply, Len(drafts))
           p == Applied(opps, drafts, reply)
<1>1. p = [entries |-> e, fallbacks |-> Cardinality(bad) + Cardinality(twice)]
  BY DEF Applied
<1>2. p.entries = e /\ p.fallbacks = Cardinality(bad) + Cardinality(twice)
  BY <1>1
<1> HIDE DEF p
<1>3. Len(drafts) \in Nat /\ DOMAIN drafts = 1 .. Len(drafts)
  OBVIOUS
<1>4. Len(e) = Len(drafts) /\ DOMAIN e = 1 .. Len(drafts) /\ \A i \in 1 .. Len(drafts) : e[i] = entry(i)
  <2> HIDE DEF entry
  <2> QED BY <1>3
<1>5. p.fallbacks = 0 => bad = {}
  <2>1. bad \in SUBSET (1 .. Len(drafts))
    BY <1>3
  <2>2. Len(reply) \in Nat /\ DOMAIN reply = 1 .. Len(reply)
    BY DEF IsSequence
  <2>3. twice \in SUBSET (1 .. Len(reply))
    BY <2>2 DEF Repeats
  <2> HIDE DEF bad, twice
  <2>4. Cardinality(bad) \in Nat /\ (Cardinality(bad) = 0 <=> bad = {}) /\ Cardinality(twice) \in Nat
    BY <1>3, <2>1, <2>2, <2>3, PickedIsFinite
  <2> QED BY <1>2, <2>4
<1>6. reply = <<>> => \A i : ~good(i)
  <2>1. \A i : reply = <<>> => text(i) = {}
    BY DEF FirstFor
  <2> QED BY <2>1
<1>7. ASSUME NEW i \in 1 .. Len(drafts)
      PROVE  /\ entry(i).id = drafts[i].id /\ entry(i).skus = drafts[i].skus /\ entry(i).weight = drafts[i].weight
             /\ VerifyRationale(opp(i), entry(i).text) = "VERIFIED"
             /\ good(i) => entry(i).provenance = "VERIFIED_LLM"
             /\ ~good(i) => entry(i).provenance = "TEMPLATE_FALLBACK"
  <2>1. CASE good(i)
    <3> DEFINE said == CHOOSE t \in text(i) : TRUE
    <3>1. VerifyRationale(opp(i), said) = "VERIFIED"
      <4>1. \A x, y \in text(i) : x = y
        BY DEF FirstFor
      <4>2. said \in text(i)
        BY <2>1
      <4> HIDE DEF text, said, opp
      <4> QED BY <2>1, <4>1, <4>2
    <3>2. entry(i) = Entry(drafts[i], said, "VERIFIED_LLM")
      BY <2>1
    <3> HIDE DEF said, entry, opp
    <3>3. entry(i).text = said
      BY <3>2 DEF Entry
    <3> QED BY <2>1, <3>1, <3>2, <3>3 DEF Entry
  <2>2. CASE ~good(i)
    <3> DEFINE said == TemplateRationale(opp(i))
    <3>1. VerifyRationale(opp(i), said) = "VERIFIED"
      BY TemplatesVerify
    <3>2. entry(i) = Entry(drafts[i], said, "TEMPLATE_FALLBACK")
      BY <2>2
    <3> HIDE DEF said, entry, opp, good
    <3>3. entry(i).text = said
      BY <3>2 DEF Entry
    <3> QED BY <2>2, <3>1, <3>2, <3>3 DEF Entry
  <2> QED BY <2>1, <2>2
<1>8. ASSUME NEW i \in 1 .. Len(drafts), p.fallbacks = 0 PROVE good(i)
  BY <1>3, <1>5, <1>8
<1> HIDE DEF e, entry, good
<1>9. ASSUME NEW i \in 1 .. Len(drafts)
      PROVE  /\ e[i].id = drafts[i].id /\ e[i].skus = drafts[i].skus /\ e[i].weight = drafts[i].weight
             /\ VerifyRationale(opp(i), e[i].text) = "VERIFIED"
             /\ p.fallbacks = 0 => e[i].provenance = "VERIFIED_LLM"
             /\ reply = <<>> => e[i].provenance = "TEMPLATE_FALLBACK"
  BY <1>4, <1>6, <1>7, <1>8
<1> QED BY <1>2, <1>4, <1>9 DEF p

\* A set made of the assembly's drafts, with texts that were verified, is sound.
LEMMA SetIs ==
  ASSUME NEW t, OppSet(t.opps), NEW w, NEW e,
         Built(t.opps, Cardinality(t.opps), [entries |-> e, suppressed |-> w.suppressed]),
         Len(w.entries) = Len(e), DOMAIN w.entries = 1 .. Len(e),
         \A i \in 1 .. Len(e) :
           /\ w.entries[i].id = e[i].id /\ w.entries[i].skus = e[i].skus /\ w.entries[i].weight = e[i].weight
           /\ VerifyRationale(OppOf(t.opps, e[i].id), w.entries[i].text) = "VERIFIED"
           /\ w.status = "FRESH" => w.entries[i].provenance = "VERIFIED_LLM"
           /\ w.status = "TEMPLATE_ONLY" => w.entries[i].provenance = "TEMPLATE_FALLBACK"
  PROVE  SetIsSound(t, w)
<1> DEFINE opps == t.opps  n == Cardinality(opps)  r == Ranked(opps)  f == w.entries  u == w.suppressed
           opp(i) == OppOf(opps, f[i].id)
<1>1. /\ n \in Nat /\ r \in [1 .. n -> opps] /\ \A i, j \in 1 .. n : i < j => Before(r[i], r[j])
      /\ \A o \in opps : \E i \in 1 .. n : r[i] = o
  BY RankedIs DEF InOrder
<1>2. Chosen(r, n, e) /\ Accounted(r, n, e, u) /\ e \in Seq(Drafts(opps)) /\ u \in Seq(Leftovers(opps))
  BY DEF Built, Accs
<1>3. /\ DOMAIN f = 1 .. Len(e) /\ Len(f) = Len(e)
      /\ \A i \in 1 .. Len(e) : f[i].id = e[i].id /\ f[i].skus = e[i].skus /\ f[i].weight = e[i].weight
  OBVIOUS
<1>4. Len(e) \in Nat /\ DOMAIN u = 1 .. Len(u) /\ Len(u) \in Nat
  BY <1>2
<1> HIDE DEF n, r, f, u
\* An entry and the opportunity it is the draft of.
<1>5. \A i \in 1 .. Len(e), b \in 1 .. n : e[i] = Draft(r[b]) =>
        opp(i) = r[b] /\ e[i].id = r[b].id /\ e[i].skus = r[b].skus
  <2> TAKE i \in 1 .. Len(e), b \in 1 .. n
  <2> HAVE e[i] = Draft(r[b])
  <2>1. e[i].id = r[b].id /\ e[i].skus = r[b].skus
    BY DEF Draft
  <2>2. r[b] \in opps
    BY <1>1
  <2> QED BY <1>3, <2>1, <2>2, OppOfIs
<1>6. \A b, c \in 1 .. n : c < b => r[c].weight >= r[b].weight
  BY <1>1, BeforeIs
<1>7. {f[i].id : i \in DOMAIN f} \cup {u[m].id : m \in DOMAIN u} = {o.id : o \in opps}
  <2>1. ASSUME NEW i \in DOMAIN f PROVE \E o \in opps : f[i].id = o.id
    <3>1. PICK b \in 1 .. n : e[i] = Draft(r[b])
      BY <1>2, <1>3 DEF Chosen
    <3>2. f[i].id = r[b].id
      BY <1>3, <1>5, <3>1
    <3> QED BY <1>1, <3>2
  <2>2. ASSUME NEW m \in DOMAIN u PROVE \E o \in opps : u[m].id = o.id
    <3>1. PICK b \in 1 .. n : u[m].id = r[b].id
      BY <1>2, <1>4 DEF Accounted
    <3> QED BY <1>1, <3>1
  <2>3. ASSUME NEW o \in opps PROVE (\E i \in DOMAIN f : f[i].id = o.id) \/ (\E m \in DOMAIN u : u[m].id = o.id)
    <3>1. PICK b \in 1 .. n : r[b] = o
      BY <1>1
    <3>2. (\E i \in 1 .. Len(e) : e[i].id = o.id) \/ (\E m \in 1 .. Len(u) : u[m].id = o.id)
      BY <1>2, <3>1 DEF Accounted
    <3> QED BY <1>3, <1>4, <3>2
  <2> QED BY <2>1, <2>2, <2>3
<1> DEFINE left(m) == OppOf(opps, u[m].id)
           ahead(m) == {i \in DOMAIN f : opp(i).weight >= left(m).weight}
<1>8. ASSUME NEW m \in DOMAIN u
      PROVE  \/ u[m].reason = "SET_FULL" /\ Cardinality(ahead(m)) = MaxEntries
             \/ u[m].reason = "SKU_ALREADY_CLAIMED" /\ \E i \in ahead(m) : f[i].skus \cap left(m).skus # {}
  <2>1. PICK b \in 1 .. n : u[m].id = r[b].id /\ Told(r, b, u[m].reason, e)
    BY <1>2, <1>4 DEF Accounted
  <2>2. left(m) = r[b]
    BY <1>1, <2>1, OppOfIs
  <2>3. \A c \in 1 .. (b - 1) : c \in 1 .. n /\ r[c].weight >= r[b].weight
    <3>1. \A c \in 1 .. (b - 1) : c \in 1 .. n /\ c < b
      BY <1>1
    <3> QED BY <1>6, <3>1
  <2>4. \A i \in 1 .. Len(e), c \in 1 .. (b - 1) : e[i] = Draft(r[c]) => i \in ahead(m)
    BY <1>3, <1>5, <2>2, <2>3
  <2>5. CASE u[m].reason = "SET_FULL" /\ Len(e) = MaxEntries
             /\ \A i \in 1 .. Len(e) : \E c \in 1 .. (b - 1) : e[i] = Draft(r[c])
    <3>1. \A i \in 1 .. Len(e) : i \in ahead(m)
      <4> HIDE DEF ahead
      <4> QED BY <2>4, <2>5
    <3>2. ahead(m) = 1 .. Len(e)
      <4>1. ahead(m) \subseteq 1 .. Len(e)
        BY <1>3
      <4> HIDE DEF ahead
      <4> QED BY <3>1, <4>1
    <3> HIDE DEF ahead
    <3>3. \A k \in Nat : Cardinality(1 .. k) = k
      BY FS_Interval
    <3>4. Cardinality(1 .. Len(e)) = Len(e)
      BY <1>4, <3>3
    <3> QED BY <2>5, <3>2, <3>4
  <2>6. CASE /\ u[m].reason = "SKU_ALREADY_CLAIMED"
             /\ \E i \in 1 .. Len(e), c \in 1 .. (b - 1) : e[i] = Draft(r[c]) /\ e[i].skus \cap r[b].skus # {}
    <3>1. PICK i \in 1 .. Len(e), c \in 1 .. (b - 1) : e[i] = Draft(r[c]) /\ e[i].skus \cap r[b].skus # {}
      BY <2>6
    <3>2. i \in ahead(m)
      BY <2>4, <3>1
    <3>3. f[i].skus \cap left(m).skus # {}
      BY <1>3, <2>2, <3>1
    <3> QED BY <2>6, <3>2, <3>3
  <2> QED BY <2>1, <2>5, <2>6 DEF Told
<1>9. Len(f) <= MaxEntries /\ Len(f) + Len(u) = n
  BY <1>2, <1>3 DEF Chosen, Accounted
<1>10. \A i, j \in DOMAIN f : i < j => f[i].skus \cap f[j].skus = {} /\ f[i].weight >= f[j].weight
  BY <1>2, <1>3 DEF Chosen
<1>11. \A i \in DOMAIN f :
         /\ VerifyRationale(opp(i), f[i].text) = "VERIFIED"
         /\ w.status = "FRESH" => f[i].provenance = "VERIFIED_LLM"
         /\ w.status = "TEMPLATE_ONLY" => f[i].provenance = "TEMPLATE_FALLBACK"
  BY <1>3 DEF f
<1> QED BY <1>7, <1>8, <1>9, <1>10, <1>11 DEF SetIsSound, f, n, u

\* A campaign set that is published, by the model's answer or by templates
\* alone, is the assembly's with verified texts.
LEMMA CampaignFollows ==
  ASSUME NEW t \in Tasks, t.writer = "campaign", NEW h, h.threw = "no" => h.answer \in Answers(t),
         CampaignOutcome(t, h).kind = "PUBLISH"
  PROVE  SetIsSound(t, CampaignOutcome(t, h))
<1> DEFINE w == CampaignOutcome(t, h)  a == Assembly(t.opps)
           reply == IF h.threw = "no" THEN h.answer ELSE <<>>
           p == Applied(t.opps, a.entries, reply)
<1>1. OppSet(t.opps) /\ \A x \in Answers(t) : IsSequence(x)
  BY AuthorsAssumption
<1>2. IsSequence(reply)
  <2>1. IsSequence(<<>>)
    BY DEF IsSequence
  <2> QED BY <1>1, <2>1
<1>3. Built(t.opps, Cardinality(t.opps), a) /\ a.entries \in Seq(Drafts(t.opps))
      /\ a = [entries |-> a.entries, suppressed |-> a.suppressed]
  <2>1. Built(t.opps, Cardinality(t.opps), a)
    BY <1>1, AssemblyIs
  <2> HIDE DEF a
  <2> QED BY <2>1 DEF Built, Accs
<1> HIDE DEF a
<1>4. w.entries = p.entries /\ w.suppressed = a.suppressed
      /\ (w.status = "FRESH" => p.fallbacks = 0) /\ (w.status = "TEMPLATE_ONLY" => reply = <<>>)
  <2>1. CASE h.threw = "no"
    <3>1. w = [kind |-> "PUBLISH", entries |-> p.entries, suppressed |-> a.suppressed,
               status |-> IF p.fallbacks = 0 THEN "FRESH" ELSE "PARTIAL_TEMPLATE"]
      BY <2>1 DEF CampaignOutcome, a
    <3> HIDE DEF w, p, reply
    <3> QED BY <3>1
  <2>2. CASE h.threw # "no"
    <3>1. CASE t.previous
      <4>1. w = [kind |-> "KEEP_PREVIOUS"]
        BY <2>2, <3>1 DEF CampaignOutcome
      <4>2. w.kind = "PUBLISH"
        OBVIOUS
      <4> HIDE DEF w
      <4> QED BY <4>1, <4>2
    <3>2. CASE ~t.previous
      <4>1. w = [kind |-> "PUBLISH", entries |-> p.entries, suppressed |-> a.suppressed,
                 status |-> "TEMPLATE_ONLY"]
        BY <2>2, <3>2 DEF CampaignOutcome, a
      <4>2. reply = <<>>
        BY <2>2
      <4> HIDE DEF w, p, reply
      <4> QED BY <4>1, <4>2
    <3> QED BY <3>1, <3>2
  <2> QED BY <2>1, <2>2
<1> HIDE DEF w, reply
<1> DEFINE e == a.entries
<1>5. /\ Len(p.entries) = Len(e) /\ DOMAIN p.entries = 1 .. Len(e)
      /\ \A i \in 1 .. Len(e) :
           /\ p.entries[i].id = e[i].id /\ p.entries[i].skus = e[i].skus /\ p.entries[i].weight = e[i].weight
           /\ VerifyRationale(OppOf(t.opps, e[i].id), p.entries[i].text) = "VERIFIED"
           /\ p.fallbacks = 0 => p.entries[i].provenance = "VERIFIED_LLM"
           /\ reply = <<>> => p.entries[i].provenance = "TEMPLATE_FALLBACK"
  BY <1>2, <1>3, AppliedIs
<1> HIDE DEF p, e
<1>6. /\ Len(w.entries) = Len(e) /\ DOMAIN w.entries = 1 .. Len(e)
      /\ \A i \in 1 .. Len(e) :
           /\ w.entries[i].id = e[i].id /\ w.entries[i].skus = e[i].skus /\ w.entries[i].weight = e[i].weight
           /\ VerifyRationale(OppOf(t.opps, e[i].id), w.entries[i].text) = "VERIFIED"
           /\ w.status = "FRESH" => w.entries[i].provenance = "VERIFIED_LLM"
           /\ w.status = "TEMPLATE_ONLY" => w.entries[i].provenance = "TEMPLATE_FALLBACK"
  BY <1>4, <1>5
<1>7. Built(t.opps, Cardinality(t.opps), [entries |-> e, suppressed |-> w.suppressed])
  BY <1>3, <1>4 DEF e
<1>8. SetIsSound(t, w)
  BY <1>1, <1>6, <1>7, SetIs
<1> QED BY <1>8 DEF w

----------------------------------------------------------------------------
(* The catalogue's copy and the explainer's narrative.                     *)

\* Distinct keeps no word twice, and none that is not to be kept.
LEMMA DistinctIs ==
  ASSUME NEW s, IsSequence(s), NEW kept
  PROVE  LET d == Distinct(s, kept) IN
         /\ d \in Seq(kept) /\ \A i, j \in 1 .. Len(d) : d[i] = d[j] => i = j
<1> DEFINE n == Len(s)  A == Seq(kept)
           Turn(g) == [u \in SUBSET (1 .. n) |-> IF u = {} THEN <<>> ELSE Keep(kept, g[u \ {Max(u)}], s[Max(u)])]
           F == [i \in 1 .. n |-> [a \in A |-> Keep(kept, a, s[i])]]
           Once(a) == a \in A /\ \A i, j \in 1 .. Len(a) : a[i] = a[j] => i = j
<1>1. n \in Nat /\ DOMAIN s = 1 .. n
  BY DEF IsSequence
<1>2. Distinct(s, kept) = (CHOOSE g : g = Turn(g))[1 .. n]
  BY <1>1 DEF Distinct, FoldLeft, MapThenFoldSet
<1> HIDE DEF n
<1>3. \A a \in A : \A x : Keep(kept, a, x) \in A
  BY DEF Keep
<1>4. <<>> \in A /\ F \in [1 .. n -> [A -> A]]
  BY <1>3
<1>5. PICK f \in [SUBSET (1 .. n) -> A] : Folds(f, <<>>, F, n)
  <2> HIDE DEF F, A
  <2> QED BY <1>1, <1>4, FoldExists
<1>6. f = Turn(f)
  <2>1. ASSUME NEW u \in SUBSET (1 .. n), u # {}
        PROVE  F[Max(u)][f[u \ {Max(u)}]] = Keep(kept, f[u \ {Max(u)}], s[Max(u)])
    <3>1. Max(u) \in 1 .. n
      BY <1>1, <2>1, MaxIs
    <3>2. f[u \ {Max(u)}] \in A
      OBVIOUS
    <3> HIDE DEF A
    <3> QED BY <3>1, <3>2
  <2>2. \A u \in SUBSET (1 .. n) : f[u] = IF u = {} THEN <<>> ELSE Keep(kept, f[u \ {Max(u)}], s[Max(u)])
    <3> HIDE DEF F
    <3> QED BY <1>5, <2>1 DEF Folds
  <2> QED BY <2>2
<1> DEFINE g == CHOOSE x : x = Turn(x)
<1>7. g = Turn(g)
  <2> HIDE DEF Turn
  <2> QED BY <1>6
<1> HIDE DEF g
<1>8. \A u \in SUBSET (1 .. n) : g[u] = IF u = {} THEN <<>> ELSE Keep(kept, g[u \ {Max(u)}], s[Max(u)])
  BY <1>7
<1>9. \A a, x : Once(a) => Once(Keep(kept, a, x))
  <2> SUFFICES ASSUME NEW a, NEW x, Once(a), x \in kept, ~Contains(a, x) PROVE Once(Append(a, x))
    BY DEF Keep
  <2>1. a \in Seq(kept) /\ Len(a) \in Nat
    OBVIOUS
  <2> DEFINE b == Append(a, x)
  <2>2. /\ b \in Seq(kept) /\ Len(b) = Len(a) + 1 /\ b[Len(a) + 1] = x
        /\ \A i \in 1 .. Len(a) : b[i] = a[i] /\ a[i] # x
    BY <2>1 DEF Contains
  <2> HIDE DEF b
  <2>3. \A i \in 1 .. Len(b) : i = Len(a) + 1 \/ i \in 1 .. Len(a)
    BY <2>1, <2>2
  <2>4. \A i, j \in 1 .. Len(b) : b[i] = b[j] => i = j
    BY <2>2, <2>3
  <2> QED BY <2>2, <2>4 DEF b
<1> HIDE DEF Once
<1> DEFINE T == {k \in 0 .. n : ~Once(g[1 .. k])}
<1>10. T = {}
  <2> SUFFICES ASSUME T # {} PROVE FALSE
    OBVIOUS
  <2>1. PICK k \in T : \A m \in T : k <= m
    <3>1. T \subseteq Nat
      BY <1>1
    <3> HIDE DEF T
    <3> QED BY <3>1, LeastNat
  <2>2. k \in 0 .. n /\ ~Once(g[1 .. k])
    OBVIOUS
  <2>3. k # 0
    <3>1. 1 .. 0 = {} /\ {} \in SUBSET (1 .. n)
      OBVIOUS
    <3>2. g[1 .. 0] = <<>>
      BY <1>8, <3>1
    <3>3. Once(<<>>)
      BY DEF Once
    <3> QED BY <2>2, <3>2, <3>3
  <2>4. k \in 1 .. n /\ k - 1 \in 0 .. n /\ ~(k <= k - 1) /\ Max(1 .. k) = k
        /\ (1 .. k) \ {k} = 1 .. (k - 1) /\ 1 .. k \in SUBSET (1 .. n) /\ 1 .. k # {}
    <3>1. k \in 1 .. n
      BY <1>1, <2>2, <2>3
    <3> HIDE DEF T, g
    <3> QED BY <1>1, <3>1, PrefixIs
  <2>5. Once(g[1 .. (k - 1)])
    <3>1. k - 1 \notin T
      <4> HIDE DEF T
      <4> QED BY <2>1, <2>4
    <3> QED BY <2>4, <3>1
  <2>6. g[1 .. k] = Keep(kept, g[1 .. (k - 1)], s[k])
    BY <1>8, <2>4
  <2> QED BY <1>9, <2>2, <2>5, <2>6
<1>11. Once(g[1 .. n])
  BY <1>1, <1>10
<1> QED BY <1>2, <1>11 DEF Once, g

\* Copy that is published has known occasions, real pairings and few tags, each once.
LEMMA CopyFollows ==
  ASSUME NEW t \in Tasks, t.writer = "catalogue", NEW h, h.threw = "no" => h.answer \in Answers(t),
         EnrichmentOutcome(t, h).status = "ENRICHED"
  PROVE  CopyIsSound(t, EnrichmentOutcome(t, h))
<1> DEFINE w == EnrichmentOutcome(t, h)  a == h.answer
           d == Distinct(a.tags, ToSet(a.tags) \ {""})
           occasions == Distinct(a.occasions, ClosedOccasions)
           pairings == Distinct(a.pairings, t.catalogue)
           tags == UpTo(d, MaxTags)
<1>1. h.threw = "no" /\ ~(a.name = "" \/ a.description = "")
  <2>1. CASE h.threw # "no" \/ a.name = "" \/ a.description = ""
    <3>1. w = [status |-> "UNENRICHED"]
      BY <2>1 DEF EnrichmentOutcome
    <3>2. w.status = "ENRICHED"
      OBVIOUS
    <3> HIDE DEF w
    <3> QED BY <3>1, <3>2
  <2> QED BY <2>1
<1>2. IsSequence(a.occasions) /\ IsSequence(a.pairings) /\ IsSequence(a.tags) /\ MaxTags \in Nat
  BY <1>1, AuthorsAssumption
<1>3. w.fields.name = a.name /\ w.fields.occasions = occasions /\ w.fields.pairings = pairings /\ w.fields.tags = tags
  <2>1. w = [status |-> "ENRICHED", fields |-> NormalizeEnrichment(a, t.catalogue)]
    BY <1>1 DEF EnrichmentOutcome
  <2> HIDE DEF w
  <2>2. w.fields = NormalizeEnrichment(a, t.catalogue)
    BY <2>1
  <2>3. NormalizeEnrichment(a, t.catalogue)
          = [name |-> a.name, occasions |-> occasions, pairings |-> pairings, tags |-> tags]
    BY DEF NormalizeEnrichment
  <2> HIDE DEF occasions, pairings, tags, a
  <2> QED BY <2>2, <2>3
<1>4. /\ occasions \in Seq(ClosedOccasions) /\ pairings \in Seq(t.catalogue)
      /\ \A i, j \in 1 .. Len(occasions) : occasions[i] = occasions[j] => i = j
      /\ \A i, j \in 1 .. Len(pairings) : pairings[i] = pairings[j] => i = j
      /\ d \in Seq(ToSet(a.tags) \ {""}) /\ \A i, j \in 1 .. Len(d) : d[i] = d[j] => i = j
  BY <1>2, DistinctIs
<1> HIDE DEF w, d, occasions, pairings, a
<1>5. /\ DOMAIN occasions = 1 .. Len(occasions) /\ DOMAIN pairings = 1 .. Len(pairings)
      /\ \A i \in DOMAIN occasions : occasions[i] \in ClosedOccasions
      /\ \A i \in DOMAIN pairings : pairings[i] \in t.catalogue
  <2>1. \A S : \A s \in Seq(S) : DOMAIN s = 1 .. Len(s) /\ \A i \in DOMAIN s : s[i] \in S
    OBVIOUS
  <2> QED BY <1>4, <2>1
<1>6. Len(tags) <= MaxTags /\ \A i, j \in DOMAIN tags : tags[i] = tags[j] => i = j
  <2> DEFINE m == IF Len(d) < MaxTags THEN Len(d) ELSE MaxTags
  <2> DEFINE D == ToSet(a.tags) \ {""}
  <2>0. d \in Seq(D)
    BY <1>4
  <2> HIDE DEF D
  <2>4. Len(d) \in Nat
    BY <2>0
  <2>1. m \in Nat /\ m <= MaxTags /\ m <= Len(d)
    BY <1>2, <2>4
  <2>2. tags = SubSeq(d, 1, m)
    BY DEF UpTo
  <2> HIDE DEF m, tags
  <2>3. Len(tags) = m /\ DOMAIN tags = 1 .. m /\ \A i \in 1 .. m : tags[i] = d[i] /\ i \in 1 .. Len(d)
    BY <2>0, <2>1, <2>2, <2>4
  <2> QED BY <1>4, <2>1, <2>3
<1> HIDE DEF tags
<1>7. IsInjective(tags) /\ IsInjective(occasions) /\ IsInjective(pairings)
  BY <1>4, <1>5, <1>6 DEF IsInjective
<1>8. CopyIsSound(t, w)
  BY <1>1, <1>3, <1>5, <1>6, <1>7 DEF CopyIsSound
<1> QED BY <1>8 DEF w

NarrativeIsSound(t, w) ==
  w.kind = "NARRATIVE" => /\ w.body.grounds # {} /\ w.body.grounds \subseteq t.seqs
                          /\ \A x \in w.body.repeats : x.long => x.quoted

\* A narrative that is published is grounded and quotes what it repeats.
LEMMA NarrativeFollows == \A t, h : NarrativeIsSound(t, NarrationOutcome(t, h))
<1> SUFFICES ASSUME NEW t, NEW h, NarrationOutcome(t, h).kind = "NARRATIVE"
             PROVE  LET w == NarrationOutcome(t, h) IN
                    /\ w.body.grounds # {} /\ w.body.grounds \subseteq t.seqs
                    /\ \A x \in w.body.repeats : x.long => x.quoted
  BY DEF NarrativeIsSound
<1> DEFINE w == NarrationOutcome(t, h)
<1>1. h.threw = "no" /\ VerifyNarration(t, h.answer) = "OK"
  <2>1. CASE ~(h.threw = "no" /\ VerifyNarration(t, h.answer) = "OK")
    <3>1. \E why : w = [kind |-> "NONE", reason |-> why]
      BY <2>1 DEF NarrationOutcome
    <3>2. w.kind = "NARRATIVE"
      OBVIOUS
    <3> HIDE DEF w
    <3> QED BY <3>1, <3>2
  <2> QED BY <2>1
<1>2. w = [kind |-> "NARRATIVE", body |-> h.answer]
  BY <1>1 DEF NarrationOutcome
<1> HIDE DEF w
<1>3. w.body = h.answer
  BY <1>2
<1>4. h.answer.grounds # {} /\ h.answer.grounds \subseteq t.seqs /\ ~\E x \in h.answer.repeats : x.long /\ ~x.quoted
  BY <1>1 DEF VerifyNarration
<1> QED BY <1>3, <1>4 DEF w

----------------------------------------------------------------------------
(* The writers.                                                            *)

Sound(t, w) ==
  CASE t.writer = "campaign" -> w.kind = "PUBLISH" => SetIsSound(t, w)
    [] t.writer = "catalogue" -> w.status = "ENRICHED" => CopyIsSound(t, w)
    [] t.writer = "explainer" -> NarrativeIsSound(t, w)

\* What was heard is what the port answers to this task, or nothing.
AuthorsInv ==
  /\ task \in Tasks
  /\ heard.threw = "no" => heard.answer \in Answers(task)
  /\ IsSequence(written)
  /\ \A k \in DOMAIN written : Sound(task, written[k])

\* What any of the three writers resolves to is sound for its task.
LEMMA OutcomeIsSound ==
  ASSUME NEW t \in Tasks, NEW h, h.threw = "no" => h.answer \in Answers(t)
  PROVE  Sound(t, Outcome(t, h))
<1>1. CASE t.writer = "campaign"
  BY <1>1, CampaignFollows DEF Sound, Outcome
<1>2. CASE t.writer = "catalogue"
  BY <1>2, CopyFollows DEF Sound, Outcome
<1>3. CASE t.writer = "explainer"
  BY <1>3, NarrativeFollows DEF Sound, Outcome
<1>4. t.writer \in {"campaign", "catalogue", "explainer"}
  BY AuthorsAssumption
<1> QED BY <1>1, <1>2, <1>3, <1>4

\* Nothing is heard or written at the start.
LEMMA AuthorsStart == AuthorsInit => AuthorsInv
<1> SUFFICES ASSUME AuthorsInit PROVE AuthorsInv
  OBVIOUS
<1>1. heard.threw # "no" /\ task \in Tasks /\ written = <<>>
  BY DEF AuthorsInit, Nothing
<1>2. DOMAIN <<>> = {} /\ IsSequence(<<>>)
  BY DEF IsSequence
<1> QED BY <1>1, <1>2 DEF AuthorsInv

\* A call's answer is one the model may give to the task.
LEMMA CallKeeps == AuthorsInv /\ Call => AuthorsInv'
<1> SUFFICES ASSUME AuthorsInv, Call PROVE AuthorsInv'
  OBVIOUS
<1>1. heard'.threw = "no" => heard'.answer \in Answers(task)
  <2>1. CASE \E e \in Errors : heard' = Thrown(e)
    BY <2>1 DEF Thrown, Errors
  <2>2. CASE \E a \in Answers(task) : heard' = Returned(a)
    <3>1. PICK a \in Answers(task) : heard' = [threw |-> "no", answer |-> a]
      BY <2>2 DEF Returned
    <3>2. heard'.answer = a
      BY <3>1
    <3> QED BY <3>2
  <2> QED BY <2>1, <2>2 DEF Call
<1>2. UNCHANGED <<task, written>>
  BY DEF Call
<1> QED BY <1>1, <1>2 DEF AuthorsInv

\* What is resolved is written after the others, for the same task.
LEMMA ResolveKeeps == AuthorsInv /\ Resolve => AuthorsInv'
<1> SUFFICES ASSUME AuthorsInv, Resolve PROVE AuthorsInv'
  OBVIOUS
<1> DEFINE x == Outcome(task, heard)  S == ToSet(written) \union {x}
<1>1. written' = Append(written, x) /\ heard' = Nothing /\ UNCHANGED task
  BY DEF Resolve
<1>2. written \in Seq(ToSet(written)) /\ Sound(task, x)
  BY OutcomeIsSound DEF AuthorsInv, IsSequence
<1> HIDE DEF x
<1>3. /\ Len(written) \in Nat /\ DOMAIN written = 1 .. Len(written)
      /\ written' \in Seq(S) /\ DOMAIN written' = 1 .. (Len(written) + 1)
      /\ written'[Len(written) + 1] = x /\ \A k \in DOMAIN written : written'[k] = written[k]
  <2>1. written \in Seq(S) /\ x \in S
    BY <1>2
  <2> HIDE DEF S
  <2> QED BY <1>1, <2>1
<1>4. IsSequence(written')
  <2>1. \A k \in 1 .. Len(written') : written'[k] \in ToSet(written')
    BY <1>3 DEF ToSet
  <2> HIDE DEF S
  <2>2. Len(written') \in Nat /\ written' = [k \in 1 .. Len(written') |-> written'[k]]
    BY <1>3
  <2> QED BY <2>1, <2>2 DEF IsSequence
<1>5. ASSUME NEW k \in DOMAIN written' PROVE Sound(task, written'[k])
  <2>1. k = Len(written) + 1 \/ k \in DOMAIN written
    BY <1>3
  <2> QED BY <1>2, <1>3, <2>1 DEF AuthorsInv
<1> QED BY <1>1, <1>4, <1>5 DEF AuthorsInv, Nothing

\* Whatever a writer does.
LEMMA AuthorsStep == AuthorsInv /\ [AuthorsNext]_authorsVars => AuthorsInv'
<1> SUFFICES ASSUME AuthorsInv, [AuthorsNext]_authorsVars PROVE AuthorsInv'
  OBVIOUS
<1>1. CASE UNCHANGED authorsVars
  BY <1>1 DEF authorsVars, AuthorsInv
<1> QED BY <1>1, CallKeeps, ResolveKeeps DEF AuthorsNext

\* The invariant gives the property.
LEMMA PublishedFollows == AuthorsInv => PublishedIsSound
BY DEF AuthorsInv, PublishedIsSound, Sound, NarrativeIsSound

----------------------------------------------------------------------------
(* Sums and counts over finite sets, of the board.                         *)

LEMMA ListsExist ==
  ASSUME NEW P, IsFiniteSet(P)
  PROVE  \E order : Lists(order, P, Cardinality(P))
<1>1. PICK order : order \in Bijection(1 .. Cardinality(P), P)
  BY FS_CardinalityType DEF ExistsBijection
<1>2. Cardinality(P) \in Nat
  BY FS_CardinalityType
<1>3. order \in [1 .. Cardinality(P) -> P] /\ \A x \in P : \E i \in 1 .. Cardinality(P) : order[i] = x
  BY <1>1 DEF Bijection, Surjection
<1>4. \A i, j \in 1 .. Cardinality(P) : order[i] = order[j] => i = j
  BY <1>1 DEF Bijection, Injection, IsInjective
<1> QED BY <1>2, <1>3, <1>4 DEF Lists

\* The sum of the library, by any list of the members.
LEMMA SetSumIs ==
  ASSUME NEW w, NEW P, \A x \in P : w[x] \in Int, NEW order, NEW n, Lists(order, P, n)
  PROVE  SumFunctionOnSet(w, P) = SumSeq([i \in 1 .. n |-> w[order[i]]])
<1> DEFINE f == [x \in P |-> w[x]]
           Turn(g) == [s \in SUBSET P |-> IF s = {} THEN 0
                         ELSE w[CHOOSE x \in s : TRUE] + g[s \ {CHOOSE x \in s : TRUE}]]
           h == CHOOSE g : g = Turn(g)
<1>1. SumFunctionOnSet(w, P) = h[P]
  BY DEF SumFunctionOnSet, FoldFunctionOnSet, MapThenFoldSet
<1>2. f \in [P -> Int]
  OBVIOUS
<1>3. ASSUME NEW g PROVE Turn(g) = SetTurn(g, P, f)
  <2>1. ASSUME NEW u \in SUBSET P
        PROVE  (IF u = {} THEN 0 ELSE w[CHOOSE x \in u : TRUE] + g[u \ {CHOOSE x \in u : TRUE}])
                 = IF u = {} THEN 0 ELSE f[AnyOf(u)] + g[u \ {AnyOf(u)}]
    <3>1. u # {} => f[AnyOf(u)] = w[AnyOf(u)]
      BY AnyIsIn
    <3>2. AnyOf(u) = CHOOSE x \in u : TRUE
      BY DEF AnyOf
    <3> HIDE DEF f
    <3> QED BY <3>1, <3>2
  <2> HIDE DEF f
  <2> QED BY <2>1 DEF SetTurn
<1> HIDE DEF Turn
<1>4. \E g : g = Turn(g)
  <2>1. PartSum(P, order, f, n) = SetTurn(PartSum(P, order, f, n), P, f)
    <3> HIDE DEF f
    <3> QED BY <1>2, PartSums
  <2> HIDE DEF f
  <2> QED BY <1>3, <2>1
<1>5. h = Turn(h)
  BY <1>4
<1> HIDE DEF h
<1>6. h = SetTurn(h, P, f)
  BY <1>3, <1>5
<1>7. h[P] = SumSeq([i \in 1 .. n |-> f[order[i]]])
  <2> HIDE DEF f
  <2> QED BY <1>2, <1>6, OneSetSum
<1>8. [i \in 1 .. n |-> f[order[i]]] = [i \in 1 .. n |-> w[order[i]]]
  <2>1. \A i \in 1 .. n : order[i] \in P
    BY DEF Lists
  <2> QED BY <2>1
<1> QED BY <1>1, <1>7, <1>8

\* A subset comes to less.
LEMMA FewerSum ==
  ASSUME NEW T, IsFiniteSet(T), NEW S \in SUBSET T, NEW w, \A x \in T : w[x] \in Nat
  PROVE  SumFunctionOnSet(w, S) <= SumFunctionOnSet(w, T)
<1> DEFINE m == Cardinality(S)  n == Cardinality(T)
<1>1. PICK pick : Lists(pick, S, m)
  BY FS_Subset, ListsExist
<1>2. PICK order : Lists(order, T, n)
  BY ListsExist
<1> HIDE DEF m, n
<1> DEFINE key == [i \in 1 .. m |-> pick[i]]  qty == [i \in 1 .. m |-> 1]  f == [x \in T |-> w[x]]
           some == PerKey(f, order, key, qty, n)  all == [j \in 1 .. n |-> f[order[j]]]
<1>3. /\ m \in Nat /\ pick \in [1 .. m -> S] /\ n \in Nat /\ order \in [1 .. n -> T] /\ f \in [T -> Int]
      /\ \A j \in 1 .. n : f[order[j]] \in Nat
  BY <1>1, <1>2 DEF Lists
<1>4. Groups(T, f, order, key, qty, n, m)
  <2>1. key \in [1 .. m -> T] /\ qty \in [1 .. m -> Int]
    BY <1>3
  <2>2. \A i \in 1 .. m : \E j \in 1 .. n : order[j] = key[i]
    BY <1>2, <2>1 DEF Lists
  <2>3. \A i, j \in 1 .. n : order[i] = order[j] => i = j
    BY <1>2 DEF Lists
  <2> HIDE DEF f
  <2> QED BY <1>3, <2>1, <2>2, <2>3 DEF Groups
<1>5. SumFunctionOnSet(w, S) = SumSeq(some)
  <2>1. PerMember(f, key, qty, m) = [i \in 1 .. m |-> w[pick[i]]]
    <3>1. ASSUME NEW i \in 1 .. m PROVE f[key[i]] * qty[i] = w[pick[i]]
      <4>1. pick[i] \in S /\ qty[i] = 1 /\ f[key[i]] = w[pick[i]] /\ w[pick[i]] \in Int
        BY <1>3
      <4> HIDE DEF key, qty, f
      <4> QED BY <4>1
    <3> HIDE DEF key, qty, f
    <3> QED BY <3>1 DEF PerMember
  <2>2. SumFunctionOnSet(w, S) = SumSeq([i \in 1 .. m |-> w[pick[i]]])
    BY <1>1, SetSumIs
  <2> HIDE DEF key, qty, f
  <2>3. SumSeq(PerKey(f, order, key, qty, n)) = SumSeq(PerMember(f, key, qty, m))
    BY <1>4, GroupSums
  <2> QED BY <2>1, <2>2, <2>3, Zenon
<1>6. SumFunctionOnSet(w, T) = SumSeq(all)
  <2>1. all = [j \in 1 .. n |-> w[order[j]]]
    BY <1>3
  <2>2. SumFunctionOnSet(w, T) = SumSeq([j \in 1 .. n |-> w[order[j]]])
    BY <1>2, SetSumIs
  <2> HIDE DEF all
  <2> QED BY <2>1, <2>2
<1>7. ASSUME NEW j \in 1 .. n PROVE Part(key, qty, order[j]) \in {0, 1}
  <2> DEFINE hit == [i \in 1 .. m |-> IF key[i] = order[j] THEN 1 ELSE 0]
  <2>1. Part(key, qty, order[j]) = SumSeq(hit)
    <3>1. [i \in DOMAIN key |-> IF key[i] = order[j] THEN qty[i] ELSE 0] = hit
      OBVIOUS
    <3> QED BY <3>1 DEF Part
  <2>2. hit \in [1 .. m -> Int]
    OBVIOUS
  <2>3. CASE \E i \in 1 .. m : pick[i] = order[j]
    <3>1. PICK i \in 1 .. m : pick[i] = order[j]
      BY <2>3
    <3>2. ASSUME NEW k \in 1 .. m, k # i PROVE pick[k] # order[j]
      BY <1>1, <3>1, <3>2 DEF Lists
    <3>3. hit[i] = 1
      BY <3>1
    <3>4. \A k \in 1 .. m : k # i => hit[k] = 0
      BY <3>2
    <3> HIDE DEF hit
    <3>5. SumSeq(hit) = hit[i]
      BY <1>3, <2>2, <3>4, SumOfOne
    <3> HIDE DEF key, qty
    <3> QED BY <2>1, <3>3, <3>5, Zenon
  <2>4. CASE ~\E i \in 1 .. m : pick[i] = order[j]
    <3>1. \A i \in 1 .. m : hit[i] = 0
      BY <2>4
    <3> HIDE DEF hit
    <3> QED BY <1>3, <2>1, <2>2, <3>1, SumOfZeros
  <2> QED BY <2>3, <2>4
<1>8. ASSUME NEW j \in 1 .. n PROVE some[j] \in Int /\ some[j] <= all[j]
  <2> DEFINE p == Part(key, qty, order[j])  v == f[order[j]]
  <2>1. some[j] = v * p /\ all[j] = v
    BY DEF PerKey
  <2>2. v \in Nat /\ p \in {0, 1}
    BY <1>3, <1>7
  <2> HIDE DEF p, v, some, all
  <2> QED BY <2>1, <2>2
<1>9. some \in [1 .. n -> Int] /\ all \in [1 .. n -> Int]
  <2>1. some = [j \in 1 .. n |-> some[j]]
    BY DEF PerKey
  <2> HIDE DEF some
  <2> QED BY <1>3, <1>8, <2>1
<1> HIDE DEF some, all
<1>10. \A j \in 1 .. n : some[j] <= all[j]
  BY <1>8
<1>11. SumSeq(some) <= SumSeq(all)
  BY <1>3, <1>9, <1>10, SumCompares
<1> QED BY <1>5, <1>6, <1>11

\* Members counted key by key.
LEMMA CountsAdd ==
  ASSUME NEW X, IsFiniteSet(X), NEW K, IsFiniteSet(K), NEW key
  PROVE  SumFunction([k \in K |-> Cardinality({x \in X : key[x] = k})]) = Cardinality({x \in X : key[x] \in K})
<1> DEFINE Y == {x \in X : key[x] \in K}  n == Cardinality(Y)  m == Cardinality(K)
           counts == [k \in K |-> Cardinality({x \in X : key[x] = k})]
<1>1. IsFiniteSet(Y)
  BY FS_Subset
<1>2. PICK members : Lists(members, Y, n)
  BY <1>1, ListsExist
<1>3. PICK order : Lists(order, K, m)
  BY ListsExist
<1> HIDE DEF n, m
<1> DEFINE of == [i \in 1 .. n |-> key[members[i]]]  qty == [i \in 1 .. n |-> 1]  w == [k \in K |-> 1]
<1>4. n \in Nat /\ members \in [1 .. n -> Y] /\ m \in Nat /\ order \in [1 .. m -> K]
  BY <1>2, <1>3 DEF Lists
<1>5. Groups(K, w, order, of, qty, m, n)
  <2>1. of \in [1 .. n -> K] /\ qty \in [1 .. n -> Int] /\ w \in [K -> Int]
    BY <1>4
  <2>2. \A i \in 1 .. n : \E j \in 1 .. m : order[j] = of[i]
    BY <1>3, <2>1 DEF Lists
  <2>3. \A i, j \in 1 .. m : order[i] = order[j] => i = j
    BY <1>3 DEF Lists
  <2> HIDE DEF of, qty, w
  <2> QED BY <1>4, <2>1, <2>2, <2>3 DEF Groups
<1>6. ASSUME NEW j \in 1 .. m PROVE w[order[j]] * Part(of, qty, order[j]) = counts[order[j]] /\ counts[order[j]] \in Int
  <2> DEFINE k == order[j]  hit == [i \in 1 .. n |-> IF of[i] = k THEN 1 ELSE 0]
             I == {i \in 1 .. n : hit[i] = 1}  C == {x \in X : key[x] = k}
  <2>1. k \in K /\ w[k] = 1
    BY <1>4
  <2>2. Part(of, qty, k) = SumSeq(hit)
    <3>1. [i \in DOMAIN of |-> IF of[i] = k THEN qty[i] ELSE 0] = hit
      OBVIOUS
    <3> QED BY <3>1 DEF Part
  <2>3. SumSeq(hit) = Cardinality(I)
    <3>1. hit \in [1 .. n -> {0, 1}]
      OBVIOUS
    <3> HIDE DEF hit
    <3> QED BY <1>4, <3>1, SumCounts
  <2>4. I = {i \in 1 .. n : key[members[i]] = k}
    OBVIOUS
  <2>5. Cardinality(C) = Cardinality(I) /\ Cardinality(I) \in Nat
    <3> HIDE DEF I, C, k
    <3> DEFINE f == [i \in I |-> members[i]]
    <3>1. IsFiniteSet(I)
      <4>1. I \in SUBSET (1 .. n) /\ IsFiniteSet(1 .. n)
        BY <1>4, <2>4, FS_Interval
      <4> QED BY <4>1, FS_Subset
    <3>2. f \in [I -> C]
      BY <1>4, <2>4 DEF C
    <3>3. \A i, j2 \in I : f[i] = f[j2] => i = j2
      BY <1>2, <2>4 DEF Lists
    <3>4. \A x \in C : \E i \in I : f[i] = x
      <4> TAKE x \in C
      <4>1. x \in Y
        BY <2>1 DEF C
      <4>2. PICK i \in 1 .. n : members[i] = x
        BY <1>2, <4>1 DEF Lists
      <4>3. i \in I
        BY <2>4, <4>2 DEF C
      <4> QED BY <4>2, <4>3
    <3> HIDE DEF f
    <3>5. f \in Bijection(I, C)
      BY <3>2, <3>3, <3>4 DEF Bijection, Injection, IsInjective, Surjection
    <3> QED BY <3>1, <3>5, FS_Bijection, FS_CardinalityType DEF ExistsBijection
  <2>6. counts[k] = Cardinality(C)
    BY <2>1
  <2> HIDE DEF hit, I, C, k, counts, w, of, qty
  <2> QED BY <2>1, <2>2, <2>3, <2>5, <2>6 DEF k
<1>7. SumFunction(counts) = SumSeq(PerKey(w, order, of, qty, m))
  <2>1. PerKey(w, order, of, qty, m) = [j \in 1 .. m |-> counts[order[j]]]
    <3> HIDE DEF w, of, qty, counts
    <3> QED BY <1>6 DEF PerKey
  <2>2. \A k \in K : counts[k] \in Int
    <3> TAKE k \in K
    <3>1. PICK j \in 1 .. m : order[j] = k
      BY <1>3 DEF Lists
    <3> HIDE DEF counts
    <3> QED BY <1>6, <3>1
  <2>3. DOMAIN counts = K
    OBVIOUS
  <2> HIDE DEF counts, w, of, qty
  <2>4. SumFunctionOnSet(counts, K) = SumSeq([j \in 1 .. m |-> counts[order[j]]])
    BY <1>3, <2>2, SetSumIs
  <2> QED BY <2>1, <2>3, <2>4 DEF SumFunction
<1>8. SumSeq(PerMember(w, of, qty, n)) = n
  <2>1. PerMember(w, of, qty, n) = qty
    <3>1. \A i \in 1 .. n : w[of[i]] = 1 /\ qty[i] = 1 /\ w[of[i]] * qty[i] = 1
      BY <1>4
    <3> QED BY <3>1 DEF PerMember
  <2>2. SumSeq(qty) = Cardinality({i \in 1 .. n : qty[i] = 1})
    <3>1. qty \in [1 .. n -> {0, 1}]
      OBVIOUS
    <3> HIDE DEF qty
    <3> QED BY <1>4, <3>1, SumCounts
  <2>3. {i \in 1 .. n : qty[i] = 1} = 1 .. n /\ Cardinality(1 .. n) = n
    BY <1>4, FS_Interval
  <2> QED BY <2>1, <2>2, <2>3
<1>9. SumSeq(PerKey(w, order, of, qty, m)) = SumSeq(PerMember(w, of, qty, n))
  <2> HIDE DEF w, of, qty
  <2> QED BY <1>5, GroupSums
<1> HIDE DEF counts, w, of, qty, Y
<1> QED BY <1>7, <1>8, <1>9 DEF counts, n, Y

----------------------------------------------------------------------------
(* What the board's tables are at any moment.                              *)

RunRow ==
  [stage : {"ABSENT", "PROPOSING", "GATE_CHECKING", "AWAITING_HUMAN_APPROVAL", "SETTLING", "TERMINAL"},
   created : Int, outcome : {"NONE"} \cup Verdicts,
   why : {"NONE", "A_RULE", "ORDER_CREATE_FAILED", "PIPELINE_STALLED", "ESCALATION_REJECTED_BY_HUMAN"}]
PayRow == [state : {"ABSENT"} \cup AllStates, recent : BOOLEAN, ok : BOOLEAN]
AskRow == [decision : {"ABSENT", "PENDING", "APPROVED", "REJECTED"}, recent : BOOLEAN]
Row ==
  [event : {"stage_started", "stage_completed", "gatekeeper_rule_result", "degraded"},
   stage : {"NONE", "GATEKEEPER", "EXPLAIN"},
   what : {"NONE", "PASS", "FAIL", "BAND", "OK", "FAILED", "DEGRADED"}, recent : BOOLEAN]
Snapshot ==
  [now : Nat, run : [Carts -> RunRow], pay : [Carts -> PayRow], ask : [Carts -> AskRow],
   trail : [Carts -> Seq(Row)]]

\* A run's stage, outcome and reason come together.
Fated(r) ==
  \/ r = NoRun
  \/ r.stage \in {"PROPOSING", "GATE_CHECKING"} /\ r.outcome = "NONE" /\ r.why = "NONE"
  \/ r.stage \in {"AWAITING_HUMAN_APPROVAL", "SETTLING"} /\ r.outcome = "ESCALATED" /\ r.why = "NONE"
  \/ r.stage = "SETTLING" /\ r.outcome = "APPROVED" /\ r.why = "NONE"
  \/ r.stage = "SETTLING" /\ r.outcome = "FAILED" /\ r.why = "ORDER_CREATE_FAILED"
  \/ r.stage = "TERMINAL" /\ r.outcome = "FAILED" /\ r.why = "PIPELINE_STALLED"
  \/ r.stage = "TERMINAL" /\ r.outcome = "DECLINED" /\ r.why \in {"A_RULE", "ESCALATION_REJECTED_BY_HUMAN"}

\* So do a run and its trail.
RowIs(r, event, stage, what) == r.event = event /\ r.stage = stage /\ r.what = what

Trailed(log) ==
  /\ Len(log) \in {0, 1, 2, 3, 6}
  /\ Len(log) # 0 => RowIs(log[1], "stage_started", "GATEKEEPER", "NONE")
  /\ Len(log) = 2 => RowIs(log[2], "stage_completed", "GATEKEEPER", "FAILED")
  /\ Len(log) \in {3, 6} => /\ \E status \in {"PASS", "FAIL", "BAND"} : RowIs(log[2], "gatekeeper_rule_result", "NONE", status)
                            /\ RowIs(log[3], "stage_completed", "GATEKEEPER", "OK")
  /\ Len(log) = 6 => /\ RowIs(log[4], "stage_started", "EXPLAIN", "NONE") /\ RowIs(log[5], "degraded", "EXPLAIN", "NONE")
                     /\ RowIs(log[6], "stage_completed", "EXPLAIN", "DEGRADED")

TrailTells(r, a, log) ==
  /\ r.stage = "ABSENT" <=> Len(log) = 0
  /\ r.stage = "PROPOSING" => Len(log) = 1
  /\ r.stage = "GATE_CHECKING" => Len(log) \in {2, 3}
  /\ r.outcome # "NONE" => Len(log) \in {3, 6} \/ (r.why = "PIPELINE_STALLED" /\ Len(log) \in {1, 2, 3})
  /\ r.why = "A_RULE" => log[2].what = "FAIL"
  /\ a # NoAsk => Len(log) \in {3, 6}

Paired(r, p, a) ==
  /\ p = NoPay \/ p.state \in AllStates
  /\ a = NoAsk \/ a.decision \in {"PENDING", "APPROVED", "REJECTED"}
  /\ r.stage = "ABSENT" => p = NoPay /\ a = NoAsk
  /\ r.outcome = "APPROVED" => p # NoPay
  /\ r.outcome = "ESCALATED" => a # NoAsk
  /\ r.why = "ESCALATION_REJECTED_BY_HUMAN" => a.decision = "REJECTED"

\* What follows a recent run is recent.
Dated(r, p, a, log, t) ==
  r.stage # "ABSENT" =>
    /\ r.created \in 0 .. t
    /\ r.created >= From => /\ p # NoPay => p.recent
                            /\ a # NoAsk => a.recent
                            /\ \A i \in DOMAIN log : log[i].recent

SaneCart(r, p, a, log, t) == Fated(r) /\ Trailed(log) /\ TrailTells(r, a, log) /\ Paired(r, p, a) /\ Dated(r, p, a, log, t)

Sane(s) == s \in Snapshot /\ \A c \in Carts : SaneCart(s.run[c], s.pay[c], s.ask[c], s.trail[c], s.now)

----------------------------------------------------------------------------
(* The tables only go forward, each cart's by ranks.                       *)

RunRank(r) ==
  IF r.stage = "ABSENT" THEN 0 ELSE IF r.stage = "PROPOSING" THEN 1
  ELSE IF r.stage = "GATE_CHECKING" THEN 2 ELSE IF r.stage = "AWAITING_HUMAN_APPROVAL" THEN 3
  ELSE IF r.stage = "SETTLING" /\ r.outcome = "ESCALATED" THEN 4 ELSE 5
PayRank(p) ==
  IF p.state = "ABSENT" THEN 0 ELSE IF p.state = "COMPLETED" THEN 3
  ELSE IF p.state \in {"PAID", "EXPIRED"} THEN 2 ELSE 1
AskRank(a) == IF a.decision = "ABSENT" THEN 0 ELSE IF a.decision = "PENDING" THEN 1 ELSE 2

Forward(x, y, i, j) == x = y \/ i < j

RunLater(r, q) ==
  /\ Forward(r, q, RunRank(r), RunRank(q))
  /\ r.stage # "ABSENT" => q.stage # "ABSENT" /\ q.created = r.created
  /\ r.outcome # "NONE" => q.outcome # "NONE"

CartLater(s, u, c) ==
  /\ RunLater(s.run[c], u.run[c])
  /\ Forward(s.pay[c], u.pay[c], PayRank(s.pay[c]), PayRank(u.pay[c]))
  /\ Forward(s.ask[c], u.ask[c], AskRank(s.ask[c]), AskRank(u.ask[c]))
  /\ Forward(s.trail[c], u.trail[c], Len(s.trail[c]), Len(u.trail[c]))

Later(s, u) == s.now <= u.now /\ \A c \in Carts : CartLater(s, u, c)

BoardInv ==
  /\ Sane(Tables)
  /\ loading # <<>> =>
       /\ loading \in Seq(Snapshot) /\ Latest = Tables
       /\ \A i \in DOMAIN loading : Sane(loading[i])
       /\ \A i, j \in DOMAIN loading : i <= j => Later(loading[i], loading[j])

----------------------------------------------------------------------------
(* What the panels count.                                                  *)

LEMMA WindowIs == From \in Int /\ BucketTicks \in Nat \ {0} /\ IsFiniteSet(Carts)
BY DashboardAssumption DEF From

LEMMA TimesGrow ==
  ASSUME NEW b \in Nat \ {0}, NEW p \in Int, NEW q \in Int, b * p < b * q + b
  PROVE  p <= q
<1> SUFFICES ASSUME q < p PROVE FALSE
  OBVIOUS
<1>1. PICK d \in Nat : p = q + 1 + d
  <2>1. p - q - 1 \in Nat /\ p = q + 1 + (p - q - 1)
    OBVIOUS
  <2> QED BY <2>1
<1>2. b * p = b * q + b + b * d
  BY <1>1
<1>3. b * d \in Nat /\ b * q \in Int
  OBVIOUS
<1> QED BY <1>2, <1>3

LEMMA Divides ==
  ASSUME NEW b \in Nat \ {0}, NEW x \in Int
  PROVE  x \div b \in Int /\ x % b \in 0 .. b - 1 /\ x = b * (x \div b) + (x % b)
OBVIOUS

\* The bucket an instant falls in, and no other.
LEMMA TruncIs ==
  ASSUME NEW t \in Int
  PROVE  /\ t \div BucketTicks \in Int /\ Trunc(t) \in Int
         /\ Trunc(t) <= t /\ t < Trunc(t) + BucketTicks /\ Trunc(t) % BucketTicks = 0
<1> DEFINE b == BucketTicks  q == t \div b
<1>1. b \in Nat \ {0}
  BY WindowIs
<1> HIDE DEF b
<1>2. q \in Int /\ b * q <= t /\ t < b * q + b
  BY <1>1
<1>3. (b * q) % b = 0
  <2> HIDE DEF q
  <2>1. b * q \in Int
    BY <1>1, <1>2
  <2> DEFINE d == (b * q) \div b  r == (b * q) % b
  <2>2. r \in 0 .. b - 1 /\ d \in Int /\ b * q = b * d + r
    BY <1>1, <2>1, Divides
  <2> HIDE DEF d, r
  <2>3. q <= d
    <3>1. b * q < b * d + b
      BY <1>1, <2>2
    <3> QED BY <1>1, <1>2, <2>2, <3>1, TimesGrow
  <2>4. d <= q
    <3>1. b * d < b * q + b
      BY <1>1, <2>2
    <3> QED BY <1>1, <1>2, <2>2, <3>1, TimesGrow
  <2>5. d = q
    BY <1>2, <2>2, <2>3, <2>4
  <2>6. r = 0
    BY <1>1, <1>2, <2>2, <2>5
  <2> QED BY <2>6 DEF r
<1> QED BY <1>1, <1>2, <1>3 DEF Trunc, b

LEMMA SpineHolds ==
  ASSUME NEW s, s.now \in Nat, NEW t \in Int, From <= t, t <= s.now
  PROVE  Trunc(t) \in Spine(s)
<1> DEFINE b == BucketTicks  f == From \div b  q == t \div b
<1>1. /\ b \in Nat \ {0} /\ From \in Int /\ f \in Int /\ q \in Int /\ b * f <= From /\ t < b * q + b
      /\ b * q <= t /\ (b * q) % b = 0 /\ Trunc(From) = b * f /\ Trunc(t) = b * q
  BY WindowIs, TruncIs DEF Trunc
<1>2. f <= q
  <2> HIDE DEF b, f, q
  <2>1. b * f < b * q + b
    BY <1>1
  <2> QED BY <1>1, <2>1, TimesGrow
<1>3. b * f <= b * q
  <2> HIDE DEF b, f, q
  <2>1. PICK d \in Nat : q = f + d
    <3>1. q - f \in Nat /\ q = f + (q - f)
      BY <1>1, <1>2
    <3> QED BY <3>1
  <2>2. b * q = b * f + b * d /\ b * d \in Nat /\ b * f \in Int
    BY <1>1, <2>1
  <2> QED BY <2>2
<1>4. Trunc(From) \in Int /\ Trunc(t) \in Int
  BY <1>1, TruncIs
<1>5. Trunc(t) \in Trunc(From) .. s.now
  <2> HIDE DEF b, f, q
  <2> QED BY <1>1, <1>3, <1>4
<1> QED BY <1>1, <1>5 DEF Spine, b

LEMMA SpineIsFinite ==
  ASSUME NEW s, s.now \in Nat
  PROVE  IsFiniteSet(Spine(s))
<1>1. Spine(s) \subseteq Trunc(From) .. s.now
  BY DEF Spine
<1>2. IsFiniteSet(Trunc(From) .. s.now)
  <2>1. Trunc(From) \in Int /\ s.now \in Int
    BY WindowIs, TruncIs
  <2> QED BY <2>1, FS_Interval
<1> QED BY <1>1, <1>2, FS_Subset

LEMMA CartIs ==
  ASSUME NEW s, Sane(s), NEW c \in Carts
  PROVE  /\ s.run[c] \in RunRow
         /\ s.pay[c] \in PayRow
         /\ s.ask[c] \in AskRow
         /\ s.trail[c] \in Seq(Row) /\ s.now \in Nat
         /\ SaneCart(s.run[c], s.pay[c], s.ask[c], s.trail[c], s.now)
BY DEF Sane, Snapshot

LEMMA OutcomesAre ==
  ASSUME NEW s, Sane(s), NEW c \in Carts
  PROVE  /\ s.run[c].outcome \in Verdicts <=> s.run[c].outcome # "NONE"
         /\ s.run[c].outcome = "NONE" => s.run[c].stage # "TERMINAL"
         /\ s.run[c].stage = "ABSENT" <=> s.run[c] = NoRun
         /\ s.run[c].outcome # "NONE" => s.run[c].stage # "ABSENT"
BY CartIs DEF SaneCart, Fated, Verdicts, NoRun

LEMMA SinceIs ==
  ASSUME NEW s, Sane(s)
  PROVE  /\ Since(s) \subseteq Carts /\ IsFiniteSet(Since(s))
         /\ \A c \in Since(s) : /\ s.run[c].stage # "ABSENT" /\ s.run[c].created >= From
                                /\ s.run[c].created \in 0 .. s.now
<1>1. Since(s) \subseteq Carts
  BY DEF Since
<1>2. IsFiniteSet(Since(s))
  BY <1>1, WindowIs, FS_Subset
<1>3. ASSUME NEW c \in Since(s)
      PROVE  s.run[c].stage # "ABSENT" /\ s.run[c].created >= From /\ s.run[c].created \in 0 .. s.now
  <2>1. c \in Carts /\ s.run[c] # NoRun /\ s.run[c].created >= From
    BY DEF Since
  <2> QED BY <2>1, CartIs, OutcomesAre DEF SaneCart, Dated
<1> QED BY <1>1, <1>2, <1>3

LEMMA EndedSum ==
  ASSUME NEW s, Sane(s), NEW cs \in SUBSET Carts
  PROVE  SumFunction([o \in Verdicts |-> Ended(s, cs, o)]) = Cardinality({c \in cs : s.run[c].outcome # "NONE"})
<1> DEFINE key == [c \in cs |-> s.run[c].outcome]
<1>1. IsFiniteSet(cs) /\ IsFiniteSet(Verdicts)
  <2>1. IsFiniteSet(cs)
    BY WindowIs, FS_Subset
  <2>2. IsFiniteSet({"APPROVED"} \cup {"ESCALATED"}) /\ IsFiniteSet({"DECLINED"} \cup {"FAILED"})
    BY FS_Singleton, FS_Union
  <2>3. Verdicts = ({"APPROVED"} \cup {"ESCALATED"}) \cup ({"DECLINED"} \cup {"FAILED"})
    BY DEF Verdicts
  <2>4. IsFiniteSet(({"APPROVED"} \cup {"ESCALATED"}) \cup ({"DECLINED"} \cup {"FAILED"}))
    BY <2>2, FS_Union
  <2> QED BY <2>1, <2>3, <2>4
<1>2. ASSUME NEW o PROVE Ended(s, cs, o) = Cardinality({c \in cs : key[c] = o})
  <2>1. {c \in cs : s.run[c].outcome = o} = {c \in cs : key[c] = o}
    OBVIOUS
  <2> QED BY <2>1 DEF Ended
<1>3. {c \in cs : key[c] \in Verdicts} = {c \in cs : s.run[c].outcome # "NONE"}
  <2>1. \A c \in cs : key[c] \in Verdicts <=> s.run[c].outcome # "NONE"
    BY OutcomesAre
  <2> HIDE DEF key
  <2> QED BY <2>1
<1> HIDE DEF key
<1>4. SumFunction([o \in Verdicts |-> Cardinality({c \in cs : key[c] = o})]) = Cardinality({c \in cs : key[c] \in Verdicts})
  BY <1>1, CountsAdd
<1>5. [o \in Verdicts |-> Ended(s, cs, o)] = [o \in Verdicts |-> Cardinality({c \in cs : key[c] = o})]
  BY <1>2
<1> QED BY <1>3, <1>4, <1>5

\* Every verdict is counted once, whatever is counted by.
LEMMA TotalsAdd ==
  ASSUME NEW s, Sane(s)
  PROVE  VerdictsIn(Totals(s)) = Closings(s)
<1>1. Totals(s).ended = [o \in Verdicts |-> Ended(s, Since(s), o)]
  BY DEF Totals
<1> QED BY <1>1, SinceIs, EndedSum DEF VerdictsIn, Closings

\* Every run of the window is in a bucket.
LEMMA BucketsAdd ==
  ASSUME NEW s, Sane(s), NEW cs \in SUBSET Since(s)
  PROVE  SumFunction([k \in Spine(s) |-> Cardinality({c \in cs : Trunc(s.run[c].created) = k})]) = Cardinality(cs)
<1> DEFINE key == [c \in cs |-> Trunc(s.run[c].created)]
<1>1. IsFiniteSet(cs) /\ IsFiniteSet(Spine(s)) /\ s.now \in Nat
  <2>1. s.now \in Nat
    BY DEF Sane, Snapshot
  <2> QED BY <2>1, SinceIs, SpineIsFinite, FS_Subset
<1>2. ASSUME NEW k PROVE {c \in cs : Trunc(s.run[c].created) = k} = {c \in cs : key[c] = k}
  OBVIOUS
<1>3. {c \in cs : key[c] \in Spine(s)} = cs
  <2>1. ASSUME NEW c \in cs PROVE key[c] \in Spine(s)
    <3>1. s.run[c].created \in Int /\ From <= s.run[c].created /\ s.run[c].created <= s.now
      BY <1>1, SinceIs, WindowIs
    <3>2. Trunc(s.run[c].created) \in Spine(s)
      BY <1>1, <3>1, SpineHolds
    <3> QED BY <3>2
  <2> HIDE DEF key
  <2> QED BY <2>1
<1> HIDE DEF key
<1>4. SumFunction([k \in Spine(s) |-> Cardinality({c \in cs : key[c] = k})]) = Cardinality({c \in cs : key[c] \in Spine(s)})
  BY <1>1, CountsAdd
<1>5. [k \in Spine(s) |-> Cardinality({c \in cs : Trunc(s.run[c].created) = k})]
        = [k \in Spine(s) |-> Cardinality({c \in cs : key[c] = k})]
  BY <1>2
<1> QED BY <1>3, <1>4, <1>5

LEMMA VolumeAdds ==
  ASSUME NEW v, Sane(v)
  PROVE  /\ SumFunction([k \in DOMAIN Volume(v) |-> SumFunction(Volume(v)[k])]) = Closings(v)
         /\ \A o \in Verdicts : SumFunction([k \in DOMAIN Volume(v) |-> Volume(v)[k][o]]) = Ended(v, Since(v), o)
<1> DEFINE cell(k) == {c \in Since(v) : Trunc(v.run[c].created) = k}
           done == {c \in Since(v) : v.run[c].outcome # "NONE"}
<1>1. DOMAIN Volume(v) = Spine(v) /\ \A k \in Spine(v) : Volume(v)[k] = [o \in Verdicts |-> Ended(v, cell(k), o)]
  BY DEF Volume
<1>2. SumFunction([k \in DOMAIN Volume(v) |-> SumFunction(Volume(v)[k])]) = Closings(v)
  <2>1. ASSUME NEW k \in Spine(v)
        PROVE  SumFunction(Volume(v)[k]) = Cardinality({c \in done : Trunc(v.run[c].created) = k})
    <3>1. cell(k) \in SUBSET Carts
      BY SinceIs
    <3>2. SumFunction(Volume(v)[k]) = Cardinality({c \in cell(k) : v.run[c].outcome # "NONE"})
      <4> HIDE DEF cell
      <4> QED BY <1>1, <3>1, EndedSum
    <3>3. {c \in cell(k) : v.run[c].outcome # "NONE"} = {c \in done : Trunc(v.run[c].created) = k}
      OBVIOUS
    <3> QED BY <3>2, <3>3
  <2>2. [k \in DOMAIN Volume(v) |-> SumFunction(Volume(v)[k])]
          = [k \in Spine(v) |-> Cardinality({c \in done : Trunc(v.run[c].created) = k})]
    <3> HIDE DEF done, cell
    <3> QED BY <1>1, <2>1
  <2>3. done \in SUBSET Since(v) /\ Cardinality(done) = Closings(v)
    BY DEF Closings
  <2> HIDE DEF done
  <2> QED BY <2>2, <2>3, BucketsAdd
<1>3. ASSUME NEW o \in Verdicts
      PROVE  SumFunction([k \in DOMAIN Volume(v) |-> Volume(v)[k][o]]) = Ended(v, Since(v), o)
  <2> DEFINE of == {c \in Since(v) : v.run[c].outcome = o}
  <2>1. ASSUME NEW k \in Spine(v)
        PROVE  Volume(v)[k][o] = Cardinality({c \in of : Trunc(v.run[c].created) = k})
    <3>1. Volume(v)[k][o] = Ended(v, cell(k), o)
      <4> HIDE DEF cell
      <4> QED BY <1>1
    <3>2. {c \in cell(k) : v.run[c].outcome = o} = {c \in of : Trunc(v.run[c].created) = k}
      OBVIOUS
    <3> QED BY <3>1, <3>2 DEF Ended
  <2>2. [k \in DOMAIN Volume(v) |-> Volume(v)[k][o]]
          = [k \in Spine(v) |-> Cardinality({c \in of : Trunc(v.run[c].created) = k})]
    <3> HIDE DEF of, cell
    <3> QED BY <1>1, <2>1
  <2>3. of \in SUBSET Since(v) /\ Cardinality(of) = Ended(v, Since(v), o)
    BY DEF Ended
  <2> HIDE DEF of
  <2> QED BY <2>2, <2>3, BucketsAdd
<1> QED BY <1>2, <1>3

\* As the tables go forward, runs are closed and none is opened again.
LEMMA ClosingsGrow ==
  ASSUME NEW s, NEW u, Sane(s), Sane(u), Later(s, u)
  PROVE  Closings(s) <= Closings(u)
<1> DEFINE S == {c \in Since(s) : s.run[c].outcome # "NONE"}
           U == {c \in Since(u) : u.run[c].outcome # "NONE"}
<1>1. ASSUME NEW c \in S PROVE c \in U
  <2>1. c \in Carts /\ s.run[c].outcome # "NONE" /\ s.run[c].created >= From
    BY DEF Since
  <2>2. s.run[c].stage # "ABSENT"
    BY <2>1, OutcomesAre
  <2>3. u.run[c].outcome # "NONE" /\ u.run[c].created = s.run[c].created /\ u.run[c].stage # "ABSENT"
    BY <2>1, <2>2 DEF Later, CartLater, RunLater
  <2>4. u.run[c] # NoRun
    BY <2>1, <2>3, OutcomesAre
  <2> QED BY <2>1, <2>3, <2>4 DEF Since
<1>2. S \subseteq U
  BY <1>1
<1>3. IsFiniteSet(U)
  BY SinceIs, FS_Subset
<1> HIDE DEF S, U
<1>4. Cardinality(S) <= Cardinality(U)
  BY <1>2, <1>3, FS_Subset
<1> QED BY <1>4 DEF Closings, S, U

LEMMA ProposalsAdd ==
  ASSUME NEW s, Sane(s)
  PROVE  Totals(s).proposals <= VerdictsIn(Totals(s)) + Totals(s).in_flight
<1> DEFINE S == Since(s)  D == {c \in S : s.run[c].outcome # "NONE"}  F == {c \in S : s.run[c].stage # "TERMINAL"}
<1>1. S \subseteq D \cup F
  BY SinceIs, OutcomesAre
<1>2. IsFiniteSet(D) /\ IsFiniteSet(F)
  BY SinceIs, FS_Subset
<1>3. Totals(s).proposals = Cardinality(S) /\ Totals(s).in_flight = Cardinality(F) /\ VerdictsIn(Totals(s)) = Cardinality(D)
  BY TotalsAdd DEF Totals, Closings
<1> HIDE DEF S, D, F
<1>4. IsFiniteSet(D \cup F) /\ Cardinality(D \cup F) = Cardinality(D) + Cardinality(F) - Cardinality(D \cap F)
  BY <1>2, FS_Union
<1>5. IsFiniteSet(D \cap F)
  BY <1>2, FS_Subset
<1>6. Cardinality(S) <= Cardinality(D \cup F)
  BY <1>1, <1>4, FS_Subset
<1>7. Cardinality(D) \in Nat /\ Cardinality(F) \in Nat /\ Cardinality(D \cap F) \in Nat /\ Cardinality(S) \in Nat
  <2>1. IsFiniteSet(S)
    BY <1>1, <1>4, FS_Subset
  <2> QED BY <1>2, <1>5, <2>1, FS_CardinalityType
<1> QED BY <1>3, <1>4, <1>6, <1>7

LEMMA SettlementsAdd ==
  ASSUME NEW s, Sane(s)
  PROVE  LET b == Settlements(s) IN
         /\ b.completed <= b.paid /\ b.paid + b.failed <= b.opened /\ b.settled_value <= b.approved_value
<1> DEFINE A == Opened(s, AllStates)  P == Opened(s, PaidStates)  C == Opened(s, {"COMPLETED"})
           F == Opened(s, FailedStates)
<1>1. /\ A \subseteq Carts /\ P \subseteq A /\ C \subseteq P /\ C \subseteq A /\ F \subseteq A /\ P \cap F = {}
  BY DEF Opened, AllStates, PaidStates, FailedStates
<1>2. LET b == Settlements(s) IN
      /\ b.completed = Cardinality(C) /\ b.paid = Cardinality(P) /\ b.failed = Cardinality(F) /\ b.opened = Cardinality(A)
      /\ b.settled_value = Sold(C) /\ b.approved_value = Sold(A)
  BY DEF Settlements
<1> HIDE DEF A, P, C, F
<1>3. IsFiniteSet(A) /\ IsFiniteSet(P) /\ IsFiniteSet(C) /\ IsFiniteSet(F)
  <2>1. IsFiniteSet(A)
    BY <1>1, WindowIs, FS_Subset
  <2>2. IsFiniteSet(P) /\ IsFiniteSet(F)
    BY <1>1, <2>1, FS_Subset
  <2> QED BY <1>1, <2>1, <2>2, FS_Subset
<1>4. Cardinality(C) <= Cardinality(P)
  BY <1>1, <1>3, FS_Subset
<1>5. Cardinality(P) + Cardinality(F) <= Cardinality(A)
  <2>1. Cardinality(P \cup F) = Cardinality(P) + Cardinality(F) - Cardinality({})
    BY <1>1, <1>3, FS_Union
  <2>2. P \cup F \subseteq A
    BY <1>1
  <2>3. Cardinality(P \cup F) <= Cardinality(A)
    BY <1>3, <2>2, FS_Subset
  <2>4. Cardinality(P) \in Nat /\ Cardinality(F) \in Nat /\ Cardinality({}) = 0
    BY <1>3, FS_CardinalityType, FS_EmptySet
  <2> QED BY <2>1, <2>3, <2>4
<1>6. Sold(C) <= Sold(A)
  <2>1. \A c \in A : Worth[c] \in Nat
    BY <1>1, DashboardAssumption
  <2> QED BY <1>1, <1>3, <2>1, FewerSum DEF Sold
<1> QED BY <1>2, <1>4, <1>5, <1>6

LEMMA InboxAdds ==
  ASSUME NEW s, Sane(s)
  PROVE  SumFunction(Inbox(s)) = Cardinality({c \in Carts : s.ask[c].recent /\ s.ask[c].decision # "ABSENT"})
<1> DEFINE X == {c \in Carts : s.ask[c].recent}  K == {"PENDING", "APPROVED", "REJECTED"}
           key == [c \in X |-> s.ask[c].decision]
<1>1. IsFiniteSet(X) /\ IsFiniteSet(K)
  <2>1. IsFiniteSet(X)
    BY WindowIs, FS_Subset
  <2>2. IsFiniteSet({"PENDING"} \cup {"APPROVED"})
    BY FS_Singleton, FS_Union
  <2>3. IsFiniteSet(({"PENDING"} \cup {"APPROVED"}) \cup {"REJECTED"})
    BY <2>2, FS_Singleton, FS_Union
  <2>4. K = ({"PENDING"} \cup {"APPROVED"}) \cup {"REJECTED"}
    OBVIOUS
  <2> QED BY <2>1, <2>3, <2>4
<1>2. ASSUME NEW d PROVE {c \in Carts : s.ask[c].decision = d /\ s.ask[c].recent} = {c \in X : key[c] = d}
  OBVIOUS
<1>3. {c \in X : key[c] \in K} = {c \in Carts : s.ask[c].recent /\ s.ask[c].decision # "ABSENT"}
  <2>1. ASSUME NEW c \in Carts
        PROVE  s.ask[c].decision \in K <=> s.ask[c].decision # "ABSENT"
    BY CartIs DEF SaneCart, Paired, NoAsk
  <2> QED BY <2>1
<1>4. Inbox(s) = [d \in K |-> Cardinality({c \in X : key[c] = d})]
  <2>1. Inbox(s) = [d \in K |-> Cardinality({c \in Carts : s.ask[c].decision = d /\ s.ask[c].recent})]
    BY DEF Inbox
  <2> HIDE DEF X, K, key
  <2> QED BY <1>2, <2>1
<1> HIDE DEF X, K, key
<1>5. SumFunction([d \in K |-> Cardinality({c \in X : key[c] = d})]) = Cardinality({c \in X : key[c] \in K})
  BY <1>1, CountsAdd
<1> QED BY <1>3, <1>4, <1>5

\* At one moment, an approved run has its payment and an escalated one its row
\* of the inbox.
LEMMA ApprovalsAreOpened ==
  ASSUME NEW s, Sane(s)
  PROVE  Ended(s, Since(s), "APPROVED") <= Settlements(s).opened
<1> DEFINE S == {c \in Since(s) : s.run[c].outcome = "APPROVED"}  A == Opened(s, AllStates)
<1>1. ASSUME NEW c \in S PROVE c \in A
  <2>1. c \in Carts /\ s.run[c].stage # "ABSENT" /\ s.run[c].created >= From /\ s.run[c].outcome = "APPROVED"
    BY SinceIs
  <2>2. s.pay[c] # NoPay /\ (s.pay[c] = NoPay \/ s.pay[c].state \in AllStates) /\ s.pay[c].recent
    BY <2>1, CartIs DEF SaneCart, Paired, Dated
  <2> QED BY <2>1, <2>2 DEF Opened
<1>2. S \subseteq A /\ IsFiniteSet(A)
  <2>1. A \subseteq Carts
    BY DEF Opened
  <2>2. S \subseteq A
    BY <1>1
  <2> QED BY <2>1, <2>2, WindowIs, FS_Subset
<1>3. Ended(s, Since(s), "APPROVED") = Cardinality(S) /\ Settlements(s).opened = Cardinality(A)
  BY DEF Ended, Settlements
<1> HIDE DEF S, A
<1> QED BY <1>2, <1>3, FS_Subset

LEMMA EscalationsAreAsked ==
  ASSUME NEW s, Sane(s)
  PROVE  Ended(s, Since(s), "ESCALATED") <= SumFunction(Inbox(s))
<1> DEFINE S == {c \in Since(s) : s.run[c].outcome = "ESCALATED"}
           A == {c \in Carts : s.ask[c].recent /\ s.ask[c].decision # "ABSENT"}
<1>1. ASSUME NEW c \in S PROVE c \in A
  <2>1. c \in Carts /\ s.run[c].stage # "ABSENT" /\ s.run[c].created >= From /\ s.run[c].outcome = "ESCALATED"
    BY SinceIs
  <2>2. s.ask[c] # NoAsk /\ s.ask[c].recent
        /\ (s.ask[c] = NoAsk \/ s.ask[c].decision \in {"PENDING", "APPROVED", "REJECTED"})
    BY <2>1, CartIs DEF SaneCart, Paired, Dated
  <2> QED BY <2>1, <2>2
<1>2. S \subseteq A /\ IsFiniteSet(A)
  <2>1. S \subseteq A
    BY <1>1
  <2>2. A \subseteq Carts
    OBVIOUS
  <2> HIDE DEF S, A
  <2> QED BY <2>1, <2>2, WindowIs, FS_Subset
<1>3. Ended(s, Since(s), "ESCALATED") = Cardinality(S) /\ SumFunction(Inbox(s)) = Cardinality(A)
  BY InboxAdds DEF Ended
<1> HIDE DEF S, A
<1> QED BY <1>2, <1>3, FS_Subset

\* A decline is a rule's, in the trail, or a person's, in the inbox.
LEMMA DeclinesHaveReasons ==
  ASSUME NEW s, Sane(s)
  PROVE  Ended(s, Since(s), "DECLINED") <= Findings(s).fail + Inbox(s)["REJECTED"]
<1> DEFINE S == {c \in Since(s) : s.run[c].outcome = "DECLINED"}
           D == {c \in S : s.run[c].why = "A_RULE"}
           P == {c \in S : s.run[c].why = "ESCALATION_REJECTED_BY_HUMAN"}
           R == {r \in LogRows(s) : /\ s.trail[r[1]][r[2]].event = "gatekeeper_rule_result"
                                    /\ s.trail[r[1]][r[2]].what \in {"FAIL"}}
           A == {c \in Carts : s.ask[c].decision = "REJECTED" /\ s.ask[c].recent}
<1>1. ASSUME NEW c \in S
      PROVE  c \in Carts /\ s.run[c].stage # "ABSENT" /\ s.run[c].created >= From /\ s.run[c].outcome = "DECLINED"
  BY SinceIs
<1>2. S \subseteq D \cup P
  <2>1. ASSUME NEW c \in S PROVE s.run[c].why \in {"A_RULE", "ESCALATION_REJECTED_BY_HUMAN"}
    BY <1>1, CartIs DEF SaneCart, Fated, NoRun
  <2> QED BY <2>1
<1>3. P \subseteq A
  <2>1. ASSUME NEW c \in P PROVE c \in A
    <3>1. c \in Carts /\ s.run[c].stage # "ABSENT" /\ s.run[c].created >= From
          /\ s.run[c].why = "ESCALATION_REJECTED_BY_HUMAN"
      BY <1>1
    <3>2. s.ask[c].decision = "REJECTED" /\ (s.ask[c] # NoAsk => s.ask[c].recent)
      BY <3>1, CartIs DEF SaneCart, Paired, Dated
    <3> QED BY <3>1, <3>2 DEF NoAsk
  <2> QED BY <2>1
<1>4. ASSUME NEW c \in D PROVE <<c, 2>> \in R
  <2>1. /\ c \in Carts /\ s.run[c].stage # "ABSENT" /\ s.run[c].created >= From /\ s.run[c].why = "A_RULE"
        /\ s.run[c].outcome = "DECLINED"
    BY <1>1
  <2>2. Len(s.trail[c]) \in {3, 6} /\ s.trail[c][2].what = "FAIL"
    <3>1. TrailTells(s.run[c], s.ask[c], s.trail[c])
      BY <2>1, CartIs DEF SaneCart
    <3> QED BY <2>1, <3>1 DEF TrailTells
  <2>3. s.trail[c][2].event = "gatekeeper_rule_result"
    <3>1. Trailed(s.trail[c])
      BY <2>1, CartIs DEF SaneCart
    <3> QED BY <2>2, <3>1 DEF Trailed, RowIs
  <2>4. s.trail[c] \in Seq(Row) /\ 2 \in DOMAIN s.trail[c]
    BY <2>1, <2>2, CartIs
  <2>5. s.trail[c][2].recent
    BY <2>1, <2>4, CartIs DEF SaneCart, Dated
  <2>6. <<c, 2>> \in LogRows(s)
    BY <2>1, <2>4, <2>5 DEF LogRows
  <2> QED BY <2>2, <2>3, <2>6
<1>5. IsFiniteSet(R)
  <2>1. ASSUME NEW r \in LogRows(s) PROVE r \in Carts \X (1 .. 6)
    <3>1. PICK c \in Carts : \E i \in DOMAIN s.trail[c] : r = <<c, i>>
      BY DEF LogRows
    <3>2. PICK i \in DOMAIN s.trail[c] : r = <<c, i>>
      BY <3>1
    <3>3. s.trail[c] \in Seq(Row) /\ Trailed(s.trail[c])
      BY CartIs DEF SaneCart
    <3>4. Len(s.trail[c]) \in {0, 1, 2, 3, 6}
      BY <3>3 DEF Trailed
    <3>5. i \in 1 .. 6
      BY <3>2, <3>3, <3>4
    <3> QED BY <3>2, <3>5
  <2>2. R \subseteq Carts \X (1 .. 6)
    BY <2>1
  <2>3. IsFiniteSet(Carts \X (1 .. 6))
    <3> DEFINE places == 1 .. 6
    <3>1. \A n \in Int : IsFiniteSet(1 .. n)
      BY FS_Interval
    <3>2. 6 \in Int
      OBVIOUS
    <3>3. IsFiniteSet(places)
      BY <3>1, <3>2, Zenon
    <3> HIDE DEF places
    <3>4. IsFiniteSet(Carts \X places)
      BY <3>3, WindowIs, FS_Product
    <3> QED BY <3>4 DEF places
  <2> HIDE DEF R
  <2> QED BY <2>2, <2>3, FS_Subset
<1>6. IsFiniteSet(S) /\ IsFiniteSet(A) /\ IsFiniteSet(D) /\ IsFiniteSet(P)
  <2>1. S \subseteq Carts /\ A \subseteq Carts /\ D \subseteq Carts /\ P \subseteq Carts
    BY <1>1
  <2> HIDE DEF S, A, D, P
  <2> QED BY <2>1, WindowIs, FS_Subset
<1>7. Cardinality(D) <= Cardinality(R)
  <2> DEFINE f == [c \in D |-> <<c, 2>>]
  <2>1. f \in [D -> R]
    BY <1>4
  <2>2. \A c, d \in D : f[c] = f[d] => c = d
    OBVIOUS
  <2> HIDE DEF f, D, R
  <2>3. f \in Injection(D, R)
    BY <2>1, <2>2 DEF Injection, IsInjective
  <2> QED BY <1>5, <2>3, FS_Injection DEF ExistsInjection
<1>8. Ended(s, Since(s), "DECLINED") = Cardinality(S) /\ Findings(s).fail = Cardinality(R) /\ Inbox(s)["REJECTED"] = Cardinality(A)
  BY DEF Ended, Findings, Logs, Inbox
<1> HIDE DEF S, A, D, P, R
<1>9. Cardinality(S) <= Cardinality(D) + Cardinality(P)
  <2>1. IsFiniteSet(D \cup P) /\ Cardinality(D \cup P) = Cardinality(D) + Cardinality(P) - Cardinality(D \cap P)
    BY <1>6, FS_Union
  <2>2. Cardinality(S) <= Cardinality(D \cup P)
    BY <1>2, <2>1, FS_Subset
  <2>3. IsFiniteSet(D \cap P)
    BY <1>6, FS_Subset
  <2>4. Cardinality(D) \in Nat /\ Cardinality(P) \in Nat /\ Cardinality(D \cap P) \in Nat /\ Cardinality(S) \in Nat
    BY <1>6, <2>3, FS_CardinalityType
  <2> QED BY <2>1, <2>2, <2>4
<1>10. Cardinality(P) <= Cardinality(A)
  BY <1>3, <1>6, FS_Subset
<1>11. /\ Cardinality(D) \in Nat /\ Cardinality(P) \in Nat /\ Cardinality(S) \in Nat
       /\ Cardinality(R) \in Nat /\ Cardinality(A) \in Nat
  BY <1>5, <1>6, FS_CardinalityType
<1> QED BY <1>7, <1>8, <1>9, <1>10, <1>11

----------------------------------------------------------------------------
(* What the list and the replay tell of one moment.                        *)

LEMMA LinesAre ==
  ASSUME Sane(Tables)
  PROVE  LinesExplained(Tables)
<1>1. Tables.run = run /\ Tables.pay = pay /\ Tables.ask = ask /\ Tables.trail = trail
  BY DEF Tables
<1>2. ASSUME NEW wanted \in {"ALL"} \cup Verdicts, NEW c \in Carts, c \in Listed(Tables, wanted)
      PROVE  LET l == ListLine(Tables, c) IN
             /\ wanted \in {"ALL", l.outcome}
             /\ (l.reason = "NONE") <=> (l.outcome \in {"NONE", "APPROVED"})
             /\ l.reason = "A_RULE" => Gate(c, "FAIL")
             /\ l.reason = "ESCALATION_REJECTED_BY_HUMAN" => ask[c].decision = "REJECTED"
  <2> DEFINE l == ListLine(Tables, c)  r == run[c]
  <2>1. /\ Fated(r) /\ Trailed(trail[c]) /\ TrailTells(r, ask[c], trail[c]) /\ Paired(r, pay[c], ask[c])
        /\ trail[c] \in Seq(Row) /\ r.stage # "ABSENT"
    BY <1>1, <1>2, CartIs DEF SaneCart, Listed
  <2>2. l.outcome = r.outcome /\ wanted \in {"ALL", r.outcome}
    BY <1>1, <1>2 DEF ListLine, Listed
  <2>3. l.reason = IF r.outcome = "ESCALATED" /\ ask[c] # NoAsk THEN "ASKED"
                     ELSE IF r.outcome \in {"DECLINED", "FAILED"} THEN r.why ELSE "NONE"
    BY <1>1 DEF ListLine, ReasonOf
  <2> HIDE DEF l
  <2>4. (l.reason = "NONE") <=> (l.outcome \in {"NONE", "APPROVED"})
    <3>1. r.outcome = "ESCALATED" => ask[c] # NoAsk
      BY <2>1 DEF Paired
    <3> HIDE DEF r
    <3> QED BY <2>1, <2>2, <2>3, <3>1 DEF Fated, NoRun
  <2>5. ASSUME l.reason = "A_RULE" PROVE Gate(c, "FAIL")
    <3>1. r.why = "A_RULE" /\ r.outcome = "DECLINED"
      <4> HIDE DEF r
      <4> QED BY <2>1, <2>3, <2>5 DEF Fated, NoRun
    <3>2. Len(trail[c]) \in {3, 6} /\ trail[c][2].what = "FAIL"
      <4> HIDE DEF r
      <4> QED BY <2>1, <3>1 DEF TrailTells
    <3>3. 2 \in DOMAIN trail[c]
      BY <2>1, <3>2
    <3> QED BY <3>2, <3>3 DEF Gate
  <2>6. ASSUME l.reason = "ESCALATION_REJECTED_BY_HUMAN" PROVE ask[c].decision = "REJECTED"
    <3>1. r.why = "ESCALATION_REJECTED_BY_HUMAN"
      <4> HIDE DEF r
      <4> QED BY <2>3, <2>6
    <3> QED BY <2>1, <3>1 DEF Paired
  <2> QED BY <2>2, <2>4, <2>5, <2>6 DEF l
<1>3. ASSUME NEW wanted \in {"ALL"} \cup Verdicts, NEW limit, NEW page \in Pages(Tables, wanted, limit), NEW c \in page
      PROVE  c \in Carts /\ c \in Listed(Tables, wanted)
  BY DEF Pages, Listed
<1>4. ASSUME NEW wanted \in {"ALL"} \cup Verdicts, NEW limit \in 1 .. Cardinality(Carts),
             NEW page \in Pages(Tables, wanted, limit), NEW c \in page
      PROVE  LET l == ListLine(Tables, c) IN
             /\ wanted \in {"ALL", l.outcome}
             /\ (l.reason = "NONE") = (l.outcome \in {"NONE", "APPROVED"})
             /\ l.reason = "A_RULE" => Gate(c, "FAIL")
             /\ l.reason = "ESCALATION_REJECTED_BY_HUMAN" => ask[c].decision = "REJECTED"
  <2>1. c \in Carts /\ c \in Listed(Tables, wanted)
    BY <1>3
  <2> HIDE DEF ListLine
  <2> QED BY <1>2, <2>1
<1> QED BY <1>4 DEF LinesExplained

LEMMA TrailRowsAre ==
  ASSUME NEW log \in Seq(Row), Trailed(log), NEW i \in DOMAIN log
  PROVE  /\ log[i].event = "stage_started" /\ log[i].stage = "GATEKEEPER" => i = 1
         /\ log[i].event = "stage_started" /\ log[i].stage = "EXPLAIN" => i = 4 /\ Len(log) = 6
         /\ log[i].event = "stage_completed" /\ log[i].stage = "GATEKEEPER" /\ Len(log) = 6 => i = 3
<1> DEFINE n == Len(log)
<1>1. n \in {0, 1, 2, 3, 6}
  BY DEF Trailed
<1>2. i \in 1 .. n
  OBVIOUS
<1>3. /\ log[1].event = "stage_started" /\ log[1].stage = "GATEKEEPER"
      /\ n = 2 => log[2].event = "stage_completed"
      /\ n \in {3, 6} => /\ log[2].event = "gatekeeper_rule_result"
                         /\ log[3].event = "stage_completed" /\ log[3].stage = "GATEKEEPER"
      /\ n = 6 => /\ log[4].event = "stage_started" /\ log[4].stage = "EXPLAIN" /\ log[5].event = "degraded"
                  /\ log[6].event = "stage_completed" /\ log[6].stage = "EXPLAIN"
  <2>1. n # 0
    BY <1>1, <1>2
  <2> QED BY <2>1 DEF Trailed, RowIs
<1> HIDE DEF n
<1>4. i \in {1, 2, 3, 4, 5, 6} /\ i <= n
  BY <1>1, <1>2
<1>5. CASE i = 1
  BY <1>3, <1>5
<1>6. CASE i = 2
  BY <1>1, <1>3, <1>4, <1>6 DEF n
<1>7. CASE i = 3
  BY <1>1, <1>3, <1>4, <1>7
<1>8. CASE i = 4 \/ i = 5 \/ i = 6
  <2>1. n = 6
    BY <1>1, <1>4, <1>8
  <2> QED BY <1>3, <1>8, <2>1 DEF n
<1> QED BY <1>4, <1>5, <1>6, <1>7, <1>8

\* A trail has one stage of the gate and, if it is whole, one of the explainer,
\* which starts when the gate's is over.
LEMMA TrailsAre ==
  ASSUME NEW s, Sane(s)
  PROVE  ReplayInOrder(s)
<1> SUFFICES ASSUME NEW c \in Carts, NEW g \in RebuiltStages(s.trail[c]), NEW h \in RebuiltStages(s.trail[c]), g # h
             PROVE  \/ g.exited # Never /\ g.exited < h.entered
                    \/ h.exited # Never /\ h.exited < g.entered
  BY DEF ReplayInOrder, Replay
<1> DEFINE log == s.trail[c]  gate == "GATEKEEPER"
           Exit(stage) == IF Ends(log, stage) = {} THEN Never ELSE CHOOSE e \in Ends(log, stage) : TRUE
           Stage(stage, i) == [stage |-> stage, entered |-> i, exited |-> Exit(stage)]
<1>1. log \in Seq(Row) /\ Trailed(log)
  BY CartIs DEF SaneCart
<1> HIDE DEF log
<1>2. ASSUME NEW x \in RebuiltStages(log)
      PROVE  \E stage \in {"GATEKEEPER", "EXPLAIN"} : \E i \in Starts(log, stage) : x = Stage(stage, i)
  BY DEF RebuiltStages
<1>3. Starts(log, "GATEKEEPER") \subseteq {1}
  BY <1>1, TrailRowsAre DEF Starts
<1>4. Starts(log, "EXPLAIN") \subseteq {4} /\ (Starts(log, "EXPLAIN") # {} => Len(log) = 6)
  BY <1>1, TrailRowsAre DEF Starts
<1>5. Len(log) = 6 => Ends(log, "GATEKEEPER") = {3}
  <2>1. Len(log) = 6 => Ends(log, "GATEKEEPER") \subseteq {3}
    BY <1>1, TrailRowsAre DEF Ends
  <2>2. Len(log) = 6 => 3 \in Ends(log, "GATEKEEPER")
    <3> SUFFICES ASSUME Len(log) = 6 PROVE 3 \in Ends(log, "GATEKEEPER")
      OBVIOUS
    <3>1. log[3].event = "stage_completed" /\ log[3].stage = "GATEKEEPER"
      BY <1>1 DEF Trailed, RowIs
    <3>2. 3 \in DOMAIN log
      BY <1>1
    <3> QED BY <3>1, <3>2 DEF Ends
  <2> QED BY <2>1, <2>2
<1>6. Len(log) = 6 => Exit("GATEKEEPER") = 3
  BY <1>5
<1> HIDE DEF Exit
<1>7. ASSUME NEW x \in RebuiltStages(log), NEW y \in RebuiltStages(log), x # y
      PROVE  \/ x.entered = 4 /\ y.exited = 3 /\ Len(log) = 6
             \/ y.entered = 4 /\ x.exited = 3 /\ Len(log) = 6
  <2>1. PICK p \in {"GATEKEEPER", "EXPLAIN"} : \E i \in Starts(log, p) : x = Stage(p, i)
    BY <1>2
  <2>2. PICK i \in Starts(log, p) : x = Stage(p, i)
    BY <2>1
  <2>3. PICK q \in {"GATEKEEPER", "EXPLAIN"} : \E j \in Starts(log, q) : y = Stage(q, j)
    BY <1>2
  <2>4. PICK j \in Starts(log, q) : y = Stage(q, j)
    BY <2>3
  <2>5. p # q
    <3> SUFFICES ASSUME p = q PROVE FALSE
      OBVIOUS
    <3>1. i = j
      BY <1>3, <1>4, <2>1, <2>2, <2>4
    <3> QED BY <1>7, <2>2, <2>4, <3>1
  <2>6. CASE p = "EXPLAIN" /\ q = "GATEKEEPER"
    BY <1>4, <1>6, <2>2, <2>4, <2>6
  <2>7. CASE q = "EXPLAIN" /\ p = "GATEKEEPER"
    BY <1>4, <1>6, <2>2, <2>4, <2>7
  <2> QED BY <2>5, <2>6, <2>7
<1>8. g \in RebuiltStages(log) /\ h \in RebuiltStages(log)
  BY DEF log
<1>9. (g.entered = 4 /\ h.exited = 3) \/ (h.entered = 4 /\ g.exited = 3)
  BY <1>7, <1>8
<1> QED BY <1>9 DEF Never

----------------------------------------------------------------------------
(* Every write keeps the tables sane and takes them forward.               *)

LEMMA SaneStarts == DashboardInit => Sane(Tables)
<1> SUFFICES ASSUME DashboardInit PROVE Sane(Tables)
  OBVIOUS
<1>1. /\ Tables.now = 0 /\ Tables.run = [c \in Carts |-> NoRun] /\ Tables.pay = [c \in Carts |-> NoPay]
      /\ Tables.ask = [c \in Carts |-> NoAsk] /\ Tables.trail = [c \in Carts |-> <<>>]
  BY DEF DashboardInit, Tables
<1>2. /\ NoRun \in RunRow
      /\ NoPay \in PayRow
      /\ NoAsk \in AskRow
  <2>1. NoRun \in RunRow
    BY DEF NoRun, Never, RunRow
  <2>2. NoPay \in PayRow
    BY DEF NoPay, PayRow
  <2>3. NoAsk \in AskRow
    BY DEF NoAsk, AskRow
  <2> QED BY <2>1, <2>2, <2>3
<1>3. Tables \in Snapshot
  <2>1. <<>> \in Seq(Row)
    OBVIOUS
  <2>2. DOMAIN Tables = {"now", "run", "pay", "ask", "trail"}
    BY DEF Tables
  <2>3. /\ now = 0 /\ run = [c \in Carts |-> NoRun] /\ pay = [c \in Carts |-> NoPay] /\ ask = [c \in Carts |-> NoAsk]
        /\ trail = [c \in Carts |-> <<>>]
    BY DEF DashboardInit
  <2> QED BY <1>2, <2>1, <2>3 DEF Tables, Snapshot
<1>4. SaneCart(NoRun, NoPay, NoAsk, <<>>, 0)
  <2>1. Fated(NoRun)
    BY DEF Fated
  <2>2. Trailed(<<>>)
    BY DEF Trailed
  <2>3. TrailTells(NoRun, NoAsk, <<>>)
    BY DEF TrailTells, NoRun
  <2>4. Paired(NoRun, NoPay, NoAsk)
    BY DEF Paired, NoRun
  <2>5. Dated(NoRun, NoPay, NoAsk, <<>>, 0)
    BY DEF Dated, NoRun
  <2> QED BY <2>1, <2>2, <2>3, <2>4, <2>5 DEF SaneCart
<1> QED BY <1>1, <1>3, <1>4 DEF Sane

\* What one cart's rows become.
Becomes(c, r, p, a, log) ==
  /\ run' = [run EXCEPT ![c] = r] /\ pay' = [pay EXCEPT ![c] = p]
  /\ ask' = [ask EXCEPT ![c] = a] /\ trail' = [trail EXCEPT ![c] = log]

RowsTyped(r, p, a, log) ==
  /\ r \in RunRow
  /\ p \in PayRow
  /\ a \in AskRow /\ log \in Seq(Row)

RowsLater(c, r, p, a, log) ==
  /\ RunLater(run[c], r) /\ Forward(pay[c], p, PayRank(pay[c]), PayRank(p))
  /\ Forward(ask[c], a, AskRank(ask[c]), AskRank(a)) /\ Forward(trail[c], log, Len(trail[c]), Len(log))

Goes(c) ==
  \E r, p, a, log : /\ Becomes(c, r, p, a, log) /\ RowsTyped(r, p, a, log)
                    /\ SaneCart(r, p, a, log, now) /\ RowsLater(c, r, p, a, log)

LEMMA StaysLater ==
  ASSUME NEW c \in Carts
  PROVE  CartLater(Tables, Tables, c) /\ RowsLater(c, run[c], pay[c], ask[c], trail[c])
BY DEF CartLater, RowsLater, RunLater, Forward

LEMMA GoesKeeps ==
  ASSUME Sane(Tables), NEW c \in Carts, Goes(c), UNCHANGED now
  PROVE  Sane(Tables') /\ Later(Tables, Tables')
<1>1. PICK r, p, a, log : /\ Becomes(c, r, p, a, log) /\ RowsTyped(r, p, a, log)
                          /\ SaneCart(r, p, a, log, now) /\ RowsLater(c, r, p, a, log)
  BY DEF Goes
<1>2. /\ now \in Nat /\ run \in [Carts -> RunRow]
      /\ pay \in [Carts -> PayRow]
      /\ ask \in [Carts -> AskRow] /\ trail \in [Carts -> Seq(Row)]
      /\ \A d \in Carts : SaneCart(run[d], pay[d], ask[d], trail[d], now)
  BY DEF Sane, Snapshot, Tables
<1>3. /\ Tables'.now = now /\ Tables'.run = run' /\ Tables'.pay = pay' /\ Tables'.ask = ask' /\ Tables'.trail = trail'
      /\ Tables.now = now /\ Tables.run = run /\ Tables.pay = pay /\ Tables.ask = ask /\ Tables.trail = trail
  BY DEF Tables
<1>4. /\ run'[c] = r /\ pay'[c] = p /\ ask'[c] = a /\ trail'[c] = log
      /\ \A d \in Carts : d # c => run'[d] = run[d] /\ pay'[d] = pay[d] /\ ask'[d] = ask[d] /\ trail'[d] = trail[d]
  BY <1>1, <1>2 DEF Becomes
<1>5. Tables' \in Snapshot
  <2>1. /\ run' \in [Carts -> RunRow]
        /\ pay' \in [Carts -> PayRow]
        /\ ask' \in [Carts -> AskRow] /\ trail' \in [Carts -> Seq(Row)]
    BY <1>1, <1>2 DEF Becomes, RowsTyped
  <2> QED BY <1>2, <2>1 DEF Tables, Snapshot
<1>6. ASSUME NEW d \in Carts PROVE SaneCart(run'[d], pay'[d], ask'[d], trail'[d], now)
  <2>1. CASE d = c
    BY <1>1, <1>4, <2>1
  <2>2. CASE d # c
    BY <1>2, <1>4, <2>2
  <2> QED BY <2>1, <2>2
<1>7. ASSUME NEW d \in Carts PROVE CartLater(Tables, Tables', d)
  <2>1. CASE d = c
    BY <1>1, <1>3, <1>4, <2>1 DEF RowsLater, CartLater
  <2>2. CASE d # c
    BY <1>3, <1>4, <2>2 DEF CartLater, RunLater, Forward
  <2> QED BY <2>1, <2>2
<1> QED BY <1>2, <1>3, <1>5, <1>6, <1>7 DEF Sane, Later

\* Whoever the cart is, its rows are these.
LEMMA CartNow ==
  ASSUME Sane(Tables), NEW c \in Carts
  PROVE  /\ SaneCart(run[c], pay[c], ask[c], trail[c], now) /\ RowsTyped(run[c], pay[c], ask[c], trail[c])
         /\ now \in Nat /\ Recent \in BOOLEAN
         /\ \A r : [run EXCEPT ![c] = r][c] = r
         /\ run = [run EXCEPT ![c] = run[c]] /\ pay = [pay EXCEPT ![c] = pay[c]]
         /\ ask = [ask EXCEPT ![c] = ask[c]] /\ trail = [trail EXCEPT ![c] = trail[c]]
<1>1. /\ Tables.now = now /\ Tables.run = run /\ Tables.pay = pay /\ Tables.ask = ask /\ Tables.trail = trail
  BY DEF Tables
<1>2. /\ now \in Nat /\ run \in [Carts -> RunRow]
      /\ pay \in [Carts -> PayRow]
      /\ ask \in [Carts -> AskRow] /\ trail \in [Carts -> Seq(Row)]
  BY <1>1 DEF Sane, Snapshot
<1>3. SaneCart(run[c], pay[c], ask[c], trail[c], now)
  BY <1>1 DEF Sane
<1> QED BY <1>2, <1>3 DEF RowsTyped, Recent

\* A run rewritten in place: its stage, its start or its end.
LEMMA Restaged ==
  ASSUME Sane(Tables), NEW c \in Carts, NEW stage, Touched(c, stage)
  PROVE  run' = [run EXCEPT ![c] = [stage |-> stage, created |-> run[c].created, outcome |-> run[c].outcome, why |-> run[c].why]]
<1> DEFINE f == [run EXCEPT ![c].stage = stage]
           v == [stage |-> stage, created |-> run[c].created, outcome |-> run[c].outcome, why |-> run[c].why]
           g == [run EXCEPT ![c] = v]
<1>1. run \in [Carts -> RunRow] /\ run[c] \in RunRow
  BY DEF Sane, Snapshot, Tables
<1>2. f[c] = v
  BY <1>1 DEF RunRow
<1>3. (\A d \in Carts : d # c => f[d] = run[d]) /\ f = [d \in Carts |-> f[d]]
  BY <1>1
<1>4. run' = f
  BY DEF Touched
<1> HIDE DEF f, v
<1>5. g[c] = v /\ (\A d \in Carts : d # c => g[d] = run[d]) /\ g = [d \in Carts |-> g[d]]
  BY <1>1
<1> HIDE DEF g
<1>6. f = g
  BY <1>2, <1>3, <1>5
<1> QED BY <1>4, <1>6 DEF f, g, v

LEMMA Started ==
  ASSUME Sane(Tables), NEW c \in Carts, Submitted(c)
  PROVE  run' = [run EXCEPT ![c] = [stage |-> "PROPOSING", created |-> now, outcome |-> run[c].outcome, why |-> run[c].why]]
<1> DEFINE f == [run EXCEPT ![c].stage = "PROPOSING", ![c].created = now]
           v == [stage |-> "PROPOSING", created |-> now, outcome |-> run[c].outcome, why |-> run[c].why]
           g == [run EXCEPT ![c] = v]
<1>1. run \in [Carts -> RunRow] /\ run[c] \in RunRow
  BY DEF Sane, Snapshot, Tables
<1>2. f[c] = v
  BY <1>1 DEF RunRow
<1>3. (\A d \in Carts : d # c => f[d] = run[d]) /\ f = [d \in Carts |-> f[d]]
  BY <1>1
<1>4. run' = f
  BY DEF Submitted
<1> HIDE DEF f, v
<1>5. g[c] = v /\ (\A d \in Carts : d # c => g[d] = run[d]) /\ g = [d \in Carts |-> g[d]]
  BY <1>1
<1> HIDE DEF g
<1>6. f = g
  BY <1>2, <1>3, <1>5
<1> QED BY <1>4, <1>6 DEF f, g, v

LEMMA ClosedAs ==
  ASSUME Sane(Tables), NEW c \in Carts, NEW stage, NEW outcome, NEW why, Closed(c, stage, outcome, why)
  PROVE  run' = [run EXCEPT ![c] = [stage |-> stage, created |-> run[c].created, outcome |-> outcome, why |-> why]]
<1> DEFINE f == [run EXCEPT ![c].stage = stage, ![c].outcome = outcome, ![c].why = why]
           v == [stage |-> stage, created |-> run[c].created, outcome |-> outcome, why |-> why]
           g == [run EXCEPT ![c] = v]
<1>1. run \in [Carts -> RunRow] /\ run[c] \in RunRow
  BY DEF Sane, Snapshot, Tables
<1>2. f[c] = v
  BY <1>1 DEF RunRow
<1>3. (\A d \in Carts : d # c => f[d] = run[d]) /\ f = [d \in Carts |-> f[d]]
  BY <1>1
<1>4. run' = f
  BY DEF Closed
<1> HIDE DEF f, v
<1>5. g[c] = v /\ (\A d \in Carts : d # c => g[d] = run[d]) /\ g = [d \in Carts |-> g[d]]
  BY <1>1
<1> HIDE DEF g
<1>6. f = g
  BY <1>2, <1>3, <1>5
<1> QED BY <1>4, <1>6 DEF f, g, v

LEMMA FirstRow ==
  ASSUME NEW log, Len(log) = 1, RowIs(log[1], "stage_started", "GATEKEEPER", "NONE")
  PROVE  Trailed(log)
BY DEF Trailed

LEMMA SubmittedGoes ==
  ASSUME Sane(Tables), NEW c \in Carts, Submitted(c), UNCHANGED now
  PROVE  Goes(c)
<1> DEFINE r == [stage |-> "PROPOSING", created |-> now, outcome |-> "NONE", why |-> "NONE"]
           entry == LogRow("stage_started", "GATEKEEPER", "NONE")  log == trail[c] \o <<entry>>
<1>1. /\ run[c] = NoRun /\ SaneCart(run[c], pay[c], ask[c], trail[c], now) /\ now \in Nat
      /\ RowsTyped(run[c], pay[c], ask[c], trail[c]) /\ Recent \in BOOLEAN
  BY CartNow DEF Submitted
<1>2. Becomes(c, r, pay[c], ask[c], log)
  <2>1. run' = [run EXCEPT ![c] = r]
    <3>1. run' = [run EXCEPT ![c] = [stage |-> "PROPOSING", created |-> now,
                                     outcome |-> run[c].outcome, why |-> run[c].why]]
      BY Started
    <3>2. run[c].outcome = "NONE" /\ run[c].why = "NONE"
      BY <1>1 DEF NoRun
    <3> QED BY <3>1, <3>2
  <2>2. trail' = [trail EXCEPT ![c] = log]
    BY DEF Submitted, Logged
  <2> QED BY <2>1, <2>2, CartNow DEF Becomes, Submitted
<1>3. trail[c] = <<>>
  BY <1>1 DEF SaneCart, TrailTells, RowsTyped, NoRun
<1>4. entry \in Row /\ log = <<entry>>
  BY <1>1, <1>3 DEF LogRow, Row
<1>5. RowIs(entry, "stage_started", "GATEKEEPER", "NONE") /\ (now >= From => entry.recent)
  BY DEF RowIs, LogRow, Recent
<1> HIDE DEF entry, log
<1>6. log \in Seq(Row) /\ Len(log) = 1 /\ log[1] = entry /\ Len(trail[c]) = 0
  BY <1>3, <1>4
<1>7. RowsTyped(r, pay[c], ask[c], log)
  BY <1>1, <1>6 DEF RowsTyped, RunRow
<1>8. SaneCart(r, pay[c], ask[c], log, now)
  <2>1. Fated(r)
    BY DEF Fated
  <2>2. Trailed(log)
    <3>1. RowIs(log[1], "stage_started", "GATEKEEPER", "NONE")
      BY <1>5, <1>6
    <3> QED BY <1>6, <3>1, FirstRow
  <2>3. pay[c] = NoPay /\ ask[c] = NoAsk
    BY <1>1 DEF SaneCart, Paired, NoRun
  <2>4. TrailTells(r, ask[c], log)
    BY <1>6, <2>3 DEF TrailTells
  <2>5. Paired(r, pay[c], ask[c])
    BY <2>3 DEF Paired
  <2>6. Dated(r, pay[c], ask[c], log, now)
    <3>1. \A i \in DOMAIN log : log[i] = entry
      BY <1>6
    <3>2. r.created = now /\ now \in 0 .. now
      BY <1>1
    <3>3. now >= From => \A i \in DOMAIN log : log[i].recent
      BY <1>5, <3>1
    <3> HIDE DEF r
    <3> QED BY <2>3, <3>2, <3>3 DEF Dated
  <2> QED BY <2>1, <2>2, <2>4, <2>5, <2>6 DEF SaneCart
<1>9. RowsLater(c, r, pay[c], ask[c], log)
  BY <1>1, <1>6 DEF RowsLater, RunLater, Forward, NoRun, RunRank
<1> QED BY <1>2, <1>7, <1>8, <1>9 DEF Goes

\* A run goes on and nothing else is written.
LEMMA RunGoes ==
  ASSUME Sane(Tables), NEW c \in Carts, UNCHANGED <<pay, ask, trail>>, run[c].stage # "ABSENT",
         NEW r \in RunRow, run' = [run EXCEPT ![c] = r],
         r.stage # "ABSENT", r.created = run[c].created, run[c].outcome # "NONE" => r.outcome # "NONE",
         RunRank(run[c]) < RunRank(r), Fated(r), TrailTells(r, ask[c], trail[c]), Paired(r, pay[c], ask[c])
  PROVE  Goes(c)
<1>1. SaneCart(run[c], pay[c], ask[c], trail[c], now) /\ RowsTyped(run[c], pay[c], ask[c], trail[c])
  BY CartNow
<1>2. Becomes(c, r, pay[c], ask[c], trail[c])
  BY CartNow DEF Becomes
<1>3. RowsTyped(r, pay[c], ask[c], trail[c])
  BY <1>1 DEF RowsTyped
<1>4. SaneCart(r, pay[c], ask[c], trail[c], now)
  <2>1. Dated(r, pay[c], ask[c], trail[c], now)
    BY <1>1 DEF SaneCart, Dated
  <2> QED BY <1>1, <2>1 DEF SaneCart
<1>5. RowsLater(c, r, pay[c], ask[c], trail[c])
  BY DEF RowsLater, RunLater, Forward
<1> QED BY <1>2, <1>3, <1>4, <1>5 DEF Goes

LEMMA PayGoes ==
  ASSUME Sane(Tables), NEW c \in Carts, UNCHANGED <<run, ask, trail>>, NEW p \in PayRow, pay' = [pay EXCEPT ![c] = p],
         PayRank(pay[c]) < PayRank(p), Paired(run[c], p, ask[c]), p.recent \/ ~(now >= From) \/ (pay[c] # NoPay /\ p.recent = pay[c].recent)
  PROVE  Goes(c)
<1>1. SaneCart(run[c], pay[c], ask[c], trail[c], now) /\ RowsTyped(run[c], pay[c], ask[c], trail[c])
      /\ now \in Nat /\ From \in Int
  BY CartNow, WindowIs
<1>2. Becomes(c, run[c], p, ask[c], trail[c])
  BY CartNow DEF Becomes
<1>3. RowsTyped(run[c], p, ask[c], trail[c])
  BY <1>1 DEF RowsTyped
<1>4. SaneCart(run[c], p, ask[c], trail[c], now)
  <2>1. Dated(run[c], p, ask[c], trail[c], now)
    BY <1>1 DEF SaneCart, Dated
  <2> QED BY <1>1, <2>1 DEF SaneCart
<1>5. RowsLater(c, run[c], p, ask[c], trail[c])
  BY DEF RowsLater, RunLater, Forward
<1> QED BY <1>2, <1>3, <1>4, <1>5 DEF Goes

LEMMA AskGoes ==
  ASSUME Sane(Tables), NEW c \in Carts, UNCHANGED <<run, pay, trail>>, NEW a \in AskRow, ask' = [ask EXCEPT ![c] = a],
         AskRank(ask[c]) < AskRank(a), Paired(run[c], pay[c], a), TrailTells(run[c], a, trail[c]),
         a.recent \/ ~(now >= From) \/ (ask[c] # NoAsk /\ a.recent = ask[c].recent)
  PROVE  Goes(c)
<1>1. SaneCart(run[c], pay[c], ask[c], trail[c], now) /\ RowsTyped(run[c], pay[c], ask[c], trail[c])
      /\ now \in Nat /\ From \in Int
  BY CartNow, WindowIs
<1>2. Becomes(c, run[c], pay[c], a, trail[c])
  BY CartNow DEF Becomes
<1>3. RowsTyped(run[c], pay[c], a, trail[c])
  BY <1>1 DEF RowsTyped
<1>4. SaneCart(run[c], pay[c], a, trail[c], now)
  <2>1. Dated(run[c], pay[c], a, trail[c], now)
    BY <1>1 DEF SaneCart, Dated
  <2> QED BY <1>1, <2>1 DEF SaneCart
<1>5. RowsLater(c, run[c], pay[c], a, trail[c])
  BY DEF RowsLater, RunLater, Forward
<1> QED BY <1>2, <1>3, <1>4, <1>5 DEF Goes

\* What the gate found is in the second row of a whole trail.
LEMMA GateSays ==
  ASSUME Sane(Tables), NEW c \in Carts, run[c].stage = "GATE_CHECKING", NEW status \in {"PASS", "FAIL", "BAND"},
         Gate(c, status)
  PROVE  Len(trail[c]) = 3 /\ trail[c][2].what = status
<1> DEFINE log == trail[c]
<1>1. log \in Seq(Row) /\ Trailed(log) /\ Len(log) \in {2, 3}
  BY CartNow DEF SaneCart, RowsTyped, TrailTells
<1>2. PICK i \in DOMAIN log : log[i].what = status
  BY DEF Gate
<1> HIDE DEF log
<1>3. log[1].what = "NONE"
  BY <1>1 DEF Trailed, RowIs
<1>4. Len(log) = 2 => log[2].what = "FAILED"
  BY <1>1 DEF Trailed, RowIs
<1>5. Len(log) = 3 => log[3].what = "OK"
  BY <1>1 DEF Trailed, RowIs
<1>6. i \in {1, 2, 3} /\ i <= Len(log)
  BY <1>1, <1>2
<1>7. i # 1 /\ ~(i = 2 /\ Len(log) = 2) /\ i # 3
  BY <1>1, <1>2, <1>3, <1>4, <1>5, <1>6
<1>8. i = 2 /\ Len(log) = 3
  BY <1>1, <1>6, <1>7
<1> QED BY <1>2, <1>8 DEF log

LEMMA AbandonedGoes ==
  ASSUME Sane(Tables), NEW c \in Carts, Abandoned(c), UNCHANGED now
  PROVE  Goes(c)
<1> DEFINE r == [stage |-> "TERMINAL", created |-> run[c].created, outcome |-> "FAILED", why |-> "PIPELINE_STALLED"]
<1>1. run' = [run EXCEPT ![c] = r]
  BY ClosedAs DEF Abandoned
<1>2. /\ run[c] \in RunRow /\ Fated(run[c]) /\ TrailTells(run[c], ask[c], trail[c]) /\ Paired(run[c], pay[c], ask[c])
      /\ run[c].stage # "ABSENT" /\ run[c].outcome = "NONE" /\ UNCHANGED <<pay, ask, trail>>
  BY CartNow DEF SaneCart, RowsTyped, Abandoned
<1>3. run[c].stage \in {"PROPOSING", "GATE_CHECKING"}
  BY <1>2 DEF Fated, NoRun
<1>4. r \in RunRow
  BY <1>2 DEF RunRow, Verdicts
<1>5. /\ r.stage = "TERMINAL" /\ r.outcome = "FAILED" /\ r.why = "PIPELINE_STALLED" /\ r.created = run[c].created
  OBVIOUS
<1> HIDE DEF r
<1>6. RunRank(run[c]) < RunRank(r)
  BY <1>3, <1>5 DEF RunRank
<1>7. Fated(r)
  BY <1>5 DEF Fated
<1>8. TrailTells(r, ask[c], trail[c])
  BY <1>2, <1>3, <1>5 DEF TrailTells
<1>9. Paired(r, pay[c], ask[c])
  BY <1>2, <1>5 DEF Paired
<1> QED BY <1>1, <1>2, <1>4, <1>5, <1>6, <1>7, <1>8, <1>9, RunGoes

\* Who goes on to settle was let through by the gate or asked about.
LEMMA SettlesAre ==
  ASSUME Sane(Tables), NEW c \in Carts, ToSettle(c)
  PROVE  /\ run[c].stage \in {"GATE_CHECKING", "SETTLING"} /\ Len(trail[c]) \in {3, 6}
         /\ run[c].stage = "SETTLING" => run[c].outcome = "ESCALATED"
<1>1. TrailTells(run[c], ask[c], trail[c])
  BY CartNow DEF SaneCart
<1>2. CASE Undecided(c) /\ Gate(c, "PASS")
  <2>1. run[c].stage = "GATE_CHECKING"
    BY <1>2 DEF Undecided
  <2>2. Len(trail[c]) = 3
    BY <1>2, <2>1, GateSays
  <2> QED BY <2>1, <2>2
<1>3. CASE run[c].stage = "SETTLING" /\ run[c].outcome = "ESCALATED"
  <2>1. run[c].why # "PIPELINE_STALLED"
    BY <1>3, CartNow DEF SaneCart, Fated, NoRun
  <2> QED BY <1>1, <1>3, <2>1 DEF TrailTells
<1> QED BY <1>2, <1>3 DEF ToSettle

LEMMA SettleEndsGoes ==
  ASSUME Sane(Tables), NEW c \in Carts, SettleEnds(c), UNCHANGED now
  PROVE  Goes(c)
<1>1. PICK outcome \in {"APPROVED", "FAILED"}, why \in {"NONE", "ORDER_CREATE_FAILED"} :
        /\ Closed(c, "SETTLING", outcome, why) /\ (outcome = "APPROVED" => why = "NONE" /\ pay[c].ok)
        /\ (outcome = "FAILED" => why = "ORDER_CREATE_FAILED")
  BY DEF SettleEnds
<1> DEFINE r == [stage |-> "SETTLING", created |-> run[c].created, outcome |-> outcome, why |-> why]
<1>2. run' = [run EXCEPT ![c] = r]
  BY <1>1, ClosedAs
<1>3. /\ run[c] \in RunRow /\ TrailTells(run[c], ask[c], trail[c]) /\ Paired(run[c], pay[c], ask[c])
      /\ UNCHANGED <<pay, ask, trail>>
  BY CartNow DEF SaneCart, RowsTyped, SettleEnds
<1>4. /\ run[c].stage \in {"GATE_CHECKING", "SETTLING"} /\ Len(trail[c]) \in {3, 6}
      /\ run[c].stage = "SETTLING" => run[c].outcome = "ESCALATED"
  BY SettlesAre DEF SettleEnds
<1>5. r \in RunRow
  BY <1>1, <1>3 DEF RunRow, Verdicts
<1>6. /\ r.stage = "SETTLING" /\ r.outcome = outcome /\ r.why = why /\ r.created = run[c].created
  OBVIOUS
<1> HIDE DEF r
<1>7. RunRank(run[c]) < RunRank(r)
  BY <1>1, <1>4, <1>6 DEF RunRank
<1>8. Fated(r)
  BY <1>1, <1>6 DEF Fated
<1>9. TrailTells(r, ask[c], trail[c])
  BY <1>1, <1>3, <1>4, <1>6 DEF TrailTells
<1>10. Paired(r, pay[c], ask[c])
  <2>1. outcome = "APPROVED" => pay[c] # NoPay
    BY <1>1 DEF NoPay
  <2> QED BY <1>1, <1>3, <1>6, <2>1 DEF Paired
<1> QED BY <1>1, <1>2, <1>3, <1>4, <1>5, <1>6, <1>7, <1>8, <1>9, <1>10, RunGoes

LEMMA DeclinedGoes ==
  ASSUME Sane(Tables), NEW c \in Carts, Declined(c), UNCHANGED now
  PROVE  Goes(c)
<1> DEFINE r == [stage |-> "TERMINAL", created |-> run[c].created, outcome |-> "DECLINED", why |-> "A_RULE"]
<1>1. run' = [run EXCEPT ![c] = r]
  BY ClosedAs DEF Declined
<1>2. /\ run[c] \in RunRow /\ TrailTells(run[c], ask[c], trail[c]) /\ Paired(run[c], pay[c], ask[c])
      /\ run[c].stage = "GATE_CHECKING" /\ run[c].outcome = "NONE" /\ UNCHANGED <<pay, ask, trail>>
  BY CartNow DEF SaneCart, RowsTyped, Declined, Undecided
<1>3. Len(trail[c]) = 3 /\ trail[c][2].what = "FAIL"
  BY <1>2, GateSays DEF Declined
<1>4. r \in RunRow
  BY <1>2 DEF RunRow, Verdicts
<1>5. /\ r.stage = "TERMINAL" /\ r.outcome = "DECLINED" /\ r.why = "A_RULE" /\ r.created = run[c].created
  OBVIOUS
<1> HIDE DEF r
<1>6. RunRank(run[c]) < RunRank(r)
  BY <1>2, <1>5 DEF RunRank
<1>7. Fated(r)
  BY <1>5 DEF Fated
<1>8. TrailTells(r, ask[c], trail[c])
  BY <1>2, <1>3, <1>5 DEF TrailTells
<1>9. Paired(r, pay[c], ask[c])
  BY <1>2, <1>5 DEF Paired
<1> QED BY <1>1, <1>2, <1>4, <1>5, <1>6, <1>7, <1>8, <1>9, RunGoes

LEMMA EscalatedGoes ==
  ASSUME Sane(Tables), NEW c \in Carts, Escalated(c), UNCHANGED now
  PROVE  Goes(c)
<1> DEFINE r == [stage |-> "AWAITING_HUMAN_APPROVAL", created |-> run[c].created, outcome |-> "ESCALATED", why |-> "NONE"]
<1>1. run' = [run EXCEPT ![c] = r]
  BY ClosedAs DEF Escalated
<1>2. /\ run[c] \in RunRow /\ TrailTells(run[c], ask[c], trail[c]) /\ Paired(run[c], pay[c], ask[c])
      /\ run[c].stage = "GATE_CHECKING" /\ run[c].outcome = "NONE" /\ UNCHANGED <<pay, ask, trail>> /\ ask[c] # NoAsk
  BY CartNow DEF SaneCart, RowsTyped, Escalated, Undecided
<1>3. r \in RunRow
  BY <1>2 DEF RunRow, Verdicts
<1>4. /\ r.stage = "AWAITING_HUMAN_APPROVAL" /\ r.outcome = "ESCALATED" /\ r.why = "NONE" /\ r.created = run[c].created
  OBVIOUS
<1> HIDE DEF r
<1>5. RunRank(run[c]) < RunRank(r)
  BY <1>2, <1>4 DEF RunRank
<1>6. Fated(r)
  BY <1>4 DEF Fated
<1>7. TrailTells(r, ask[c], trail[c])
  BY <1>2, <1>4 DEF TrailTells
<1>8. Paired(r, pay[c], ask[c])
  BY <1>2, <1>4 DEF Paired
<1> QED BY <1>1, <1>2, <1>3, <1>4, <1>5, <1>6, <1>7, <1>8, RunGoes

LEMMA AnswerGoes ==
  ASSUME Sane(Tables), NEW c \in Carts, AnswerHeeded(c), UNCHANGED now
  PROVE  Goes(c)
<1>1. /\ run[c] \in RunRow /\ Fated(run[c]) /\ TrailTells(run[c], ask[c], trail[c]) /\ Paired(run[c], pay[c], ask[c])
      /\ run[c].stage = "AWAITING_HUMAN_APPROVAL" /\ UNCHANGED <<pay, ask, trail>>
  BY CartNow DEF SaneCart, RowsTyped, AnswerHeeded, Waiting
<1>2. run[c].outcome = "ESCALATED" /\ run[c].why = "NONE"
  BY <1>1 DEF Fated, NoRun
<1>3. Len(trail[c]) \in {3, 6}
  BY <1>1, <1>2 DEF TrailTells
<1>4. CASE Touched(c, "SETTLING")
  <2> DEFINE r == [stage |-> "SETTLING", created |-> run[c].created, outcome |-> run[c].outcome, why |-> run[c].why]
  <2>1. run' = [run EXCEPT ![c] = r]
    BY <1>4, Restaged
  <2>2. r \in RunRow
    BY <1>1 DEF RunRow
  <2>3. /\ r.stage = "SETTLING" /\ r.outcome = "ESCALATED" /\ r.why = "NONE" /\ r.created = run[c].created
    BY <1>2
  <2> HIDE DEF r
  <2>4. RunRank(run[c]) < RunRank(r)
    BY <1>1, <2>3 DEF RunRank
  <2>5. Fated(r)
    BY <2>3 DEF Fated
  <2>6. TrailTells(r, ask[c], trail[c])
    BY <1>1, <1>3, <2>3 DEF TrailTells
  <2>7. Paired(r, pay[c], ask[c])
    BY <1>1, <1>2, <2>3 DEF Paired
  <2> QED BY <1>1, <2>1, <2>2, <2>3, <2>4, <2>5, <2>6, <2>7, RunGoes
<1>5. CASE ask[c].decision = "REJECTED" /\ Closed(c, "TERMINAL", "DECLINED", "ESCALATION_REJECTED_BY_HUMAN")
  <2> DEFINE r == [stage |-> "TERMINAL", created |-> run[c].created, outcome |-> "DECLINED",
                   why |-> "ESCALATION_REJECTED_BY_HUMAN"]
  <2>1. run' = [run EXCEPT ![c] = r]
    BY <1>5, ClosedAs
  <2>2. r \in RunRow
    BY <1>1 DEF RunRow, Verdicts
  <2>3. /\ r.stage = "TERMINAL" /\ r.outcome = "DECLINED" /\ r.why = "ESCALATION_REJECTED_BY_HUMAN"
        /\ r.created = run[c].created
    OBVIOUS
  <2> HIDE DEF r
  <2>4. RunRank(run[c]) < RunRank(r)
    BY <1>1, <2>3 DEF RunRank
  <2>5. Fated(r)
    BY <2>3 DEF Fated
  <2>6. TrailTells(r, ask[c], trail[c])
    BY <1>1, <1>3, <2>3 DEF TrailTells
  <2>7. Paired(r, pay[c], ask[c])
    BY <1>1, <1>5, <2>3 DEF Paired
  <2> QED BY <1>1, <2>1, <2>2, <2>3, <2>4, <2>5, <2>6, <2>7, RunGoes
<1> QED BY <1>4, <1>5 DEF AnswerHeeded

LEMMA SettleOpensGoes ==
  ASSUME Sane(Tables), NEW c \in Carts, NEW ok \in BOOLEAN, SettleOpens(c, ok), UNCHANGED now
  PROVE  Goes(c)
<1> DEFINE p == [state |-> IF ok THEN "AWAITING_PAYMENT" ELSE "FAILED", recent |-> Recent, ok |-> ok]
<1>1. pay' = [pay EXCEPT ![c] = p] /\ pay[c] = NoPay /\ UNCHANGED <<run, ask, trail>>
  BY DEF SettleOpens
<1>2. Paired(run[c], pay[c], ask[c]) /\ Recent \in BOOLEAN
  BY CartNow DEF SaneCart
<1>3. run[c].stage \in {"GATE_CHECKING", "SETTLING"}
  BY SettlesAre DEF SettleOpens
<1>4. p.state \in {"AWAITING_PAYMENT", "FAILED"} /\ p.recent = Recent
  OBVIOUS
<1>5. p \in PayRow
  BY <1>2 DEF PayRow, AllStates, PaidStates, FailedStates
<1> HIDE DEF p
<1>6. PayRank(pay[c]) < PayRank(p)
  BY <1>1, <1>4 DEF PayRank, NoPay
<1>7. Paired(run[c], p, ask[c])
  <2>1. p.state \in AllStates /\ p # NoPay
    BY <1>4 DEF AllStates, PaidStates, FailedStates, NoPay
  <2> QED BY <1>2, <1>3, <2>1 DEF Paired
<1>8. p.recent \/ ~(now >= From)
  BY <1>4 DEF Recent
<1> QED BY <1>1, <1>5, <1>6, <1>7, <1>8, PayGoes

\* A payment moved in place.
LEMMA Repaid ==
  ASSUME Sane(Tables), NEW c \in Carts, NEW to, pay' = [pay EXCEPT ![c].state = to]
  PROVE  pay' = [pay EXCEPT ![c] = [state |-> to, recent |-> pay[c].recent, ok |-> pay[c].ok]]
<1> DEFINE f == [pay EXCEPT ![c].state = to]
           v == [state |-> to, recent |-> pay[c].recent, ok |-> pay[c].ok]
           g == [pay EXCEPT ![c] = v]
<1>1. pay \in [Carts -> PayRow] /\ pay[c] \in PayRow
  BY DEF Sane, Snapshot, Tables
<1>2. f[c] = v
  BY <1>1 DEF PayRow
<1>3. (\A d \in Carts : d # c => f[d] = pay[d]) /\ f = [d \in Carts |-> f[d]]
  BY <1>1
<1>4. pay' = f
  OBVIOUS
<1> HIDE DEF f, v
<1>5. g[c] = v /\ (\A d \in Carts : d # c => g[d] = pay[d]) /\ g = [d \in Carts |-> g[d]]
  BY <1>1
<1> HIDE DEF g
<1>6. f = g
  BY <1>2, <1>3, <1>5
<1> QED BY <1>4, <1>6 DEF f, g, v

LEMMA CollectedGoes ==
  ASSUME Sane(Tables), NEW c \in Carts, Collected(c), UNCHANGED now
  PROVE  Goes(c)
<1>1. PICK to \in {"PAID", "EXPIRED", "COMPLETED"} :
        /\ pay' = [pay EXCEPT ![c].state = to]
        /\ (pay[c].state = "AWAITING_PAYMENT" /\ to # "COMPLETED") \/ (pay[c].state = "PAID" /\ to = "COMPLETED")
  BY DEF Collected
<1> DEFINE p == [state |-> to, recent |-> pay[c].recent, ok |-> pay[c].ok]
<1>2. pay' = [pay EXCEPT ![c] = p] /\ UNCHANGED <<run, ask, trail>>
  BY <1>1, Repaid DEF Collected
<1>3. Paired(run[c], pay[c], ask[c]) /\ pay[c] \in PayRow /\ pay[c] # NoPay
  BY <1>1, CartNow DEF SaneCart, RowsTyped, NoPay
<1>4. p \in PayRow
  BY <1>1, <1>3 DEF PayRow, AllStates, PaidStates, FailedStates
<1>5. p.state = to /\ p.recent = pay[c].recent
  OBVIOUS
<1> HIDE DEF p
<1>6. PayRank(pay[c]) < PayRank(p)
  BY <1>1, <1>5 DEF PayRank
<1>7. Paired(run[c], p, ask[c])
  <2>1. p.state \in AllStates /\ p # NoPay
    BY <1>1, <1>5 DEF AllStates, PaidStates, FailedStates, NoPay
  <2> QED BY <1>3, <2>1 DEF Paired
<1> QED BY <1>2, <1>3, <1>4, <1>5, <1>6, <1>7, PayGoes

LEMMA AskedGoes ==
  ASSUME Sane(Tables), NEW c \in Carts, Asked(c), UNCHANGED now
  PROVE  Goes(c)
<1> DEFINE a == [decision |-> "PENDING", recent |-> Recent]
<1>1. /\ ask' = [ask EXCEPT ![c] = a] /\ ask[c] = NoAsk /\ UNCHANGED <<run, pay, trail>>
      /\ run[c].stage = "GATE_CHECKING" /\ run[c].outcome = "NONE"
  BY DEF Asked, Undecided
<1>2. /\ Paired(run[c], pay[c], ask[c]) /\ TrailTells(run[c], ask[c], trail[c]) /\ Fated(run[c]) /\ Recent \in BOOLEAN
  BY CartNow DEF SaneCart
<1>3. Len(trail[c]) = 3
  BY <1>1, GateSays DEF Asked
<1>4. run[c].why = "NONE"
  BY <1>1, <1>2 DEF Fated, NoRun
<1>5. a \in AskRow
  BY <1>2 DEF AskRow
<1>6. a.decision = "PENDING" /\ a.recent = Recent
  OBVIOUS
<1> HIDE DEF a
<1>7. AskRank(ask[c]) < AskRank(a)
  BY <1>1, <1>6 DEF AskRank, NoAsk
<1>8. Paired(run[c], pay[c], a)
  <2>1. a # NoAsk
    BY <1>6 DEF NoAsk
  <2> QED BY <1>1, <1>2, <1>4, <1>6, <2>1 DEF Paired
<1>9. TrailTells(run[c], a, trail[c])
  BY <1>2, <1>3 DEF TrailTells
<1>10. a.recent \/ ~(now >= From)
  BY <1>6 DEF Recent
<1> QED BY <1>1, <1>5, <1>7, <1>8, <1>9, <1>10, AskGoes

\* An inbox row answered in place.
LEMMA Reanswered ==
  ASSUME Sane(Tables), NEW c \in Carts, NEW decision, MerchantAnswers(c, decision)
  PROVE  ask' = [ask EXCEPT ![c] = [decision |-> decision, recent |-> ask[c].recent]]
<1> DEFINE f == [ask EXCEPT ![c].decision = decision]
           v == [decision |-> decision, recent |-> ask[c].recent]
           g == [ask EXCEPT ![c] = v]
<1>1. ask \in [Carts -> AskRow] /\ ask[c] \in AskRow
  BY DEF Sane, Snapshot, Tables
<1>2. f[c] = v
  BY <1>1 DEF AskRow
<1>3. (\A d \in Carts : d # c => f[d] = ask[d]) /\ f = [d \in Carts |-> f[d]]
  BY <1>1
<1>4. ask' = f
  BY DEF MerchantAnswers
<1> HIDE DEF f, v
<1>5. g[c] = v /\ (\A d \in Carts : d # c => g[d] = ask[d]) /\ g = [d \in Carts |-> g[d]]
  BY <1>1
<1> HIDE DEF g
<1>6. f = g
  BY <1>2, <1>3, <1>5
<1> QED BY <1>4, <1>6 DEF f, g, v

LEMMA MerchantAnswersGoes ==
  ASSUME Sane(Tables), NEW c \in Carts, NEW decision \in {"APPROVED", "REJECTED"}, MerchantAnswers(c, decision),
         UNCHANGED now
  PROVE  Goes(c)
<1> DEFINE a == [decision |-> decision, recent |-> ask[c].recent]
<1>1. /\ ask' = [ask EXCEPT ![c] = a] /\ UNCHANGED <<run, pay, trail>>
      /\ run[c].stage = "AWAITING_HUMAN_APPROVAL" /\ ask[c].decision = "PENDING"
  BY Reanswered DEF MerchantAnswers, Waiting
<1>2. /\ Paired(run[c], pay[c], ask[c]) /\ TrailTells(run[c], ask[c], trail[c]) /\ Fated(run[c])
      /\ ask[c] \in AskRow /\ ask[c] # NoAsk
  BY <1>1, CartNow DEF SaneCart, RowsTyped, NoAsk
<1>3. run[c].why = "NONE"
  BY <1>1, <1>2 DEF Fated, NoRun
<1>4. a \in AskRow
  BY <1>2 DEF AskRow
<1>5. a.decision = decision /\ a.recent = ask[c].recent
  OBVIOUS
<1> HIDE DEF a
<1>6. AskRank(ask[c]) < AskRank(a)
  BY <1>1, <1>5 DEF AskRank
<1>7. Paired(run[c], pay[c], a)
  <2>1. a # NoAsk
    BY <1>5 DEF NoAsk
  <2> QED BY <1>1, <1>2, <1>3, <1>5, <2>1 DEF Paired
<1>8. TrailTells(run[c], a, trail[c])
  BY <1>2 DEF TrailTells
<1> QED BY <1>1, <1>2, <1>4, <1>5, <1>6, <1>7, <1>8, AskGoes

\* Rows of the present moment, behind those the trail has.
LEMMA LoggedNow ==
  ASSUME Sane(Tables), NEW c \in Carts, NEW rows \in Seq(Row), Logged(c, rows), run[c].stage # "ABSENT",
         \A i \in DOMAIN rows : rows[i].recent = Recent, NEW r, r.stage # "ABSENT", r.created = run[c].created
  PROVE  /\ trail' = [trail EXCEPT ![c] = trail[c] \o rows] /\ trail[c] \o rows \in Seq(Row)
         /\ Len(trail[c] \o rows) = Len(trail[c]) + Len(rows)
         /\ \A i \in 1 .. Len(trail[c]) : (trail[c] \o rows)[i] = trail[c][i]
         /\ \A i \in 1 .. Len(rows) : (trail[c] \o rows)[Len(trail[c]) + i] = rows[i]
         /\ Dated(r, pay[c], ask[c], trail[c] \o rows, now)
<1> DEFINE log == trail[c]  both == log \o rows
<1>1. /\ log \in Seq(Row) /\ run[c].created \in Int /\ now \in Nat /\ From \in Int
      /\ Dated(run[c], pay[c], ask[c], log, now)
  BY CartNow, WindowIs DEF SaneCart, RowsTyped, RunRow
<1>2. trail' = [trail EXCEPT ![c] = both]
  BY DEF Logged
<1> HIDE DEF log
<1>3. /\ both \in Seq(Row) /\ Len(both) = Len(log) + Len(rows) /\ Len(log) \in Nat /\ Len(rows) \in Nat
      /\ \A i \in 1 .. Len(log) : both[i] = log[i]
      /\ \A i \in 1 .. Len(rows) : both[Len(log) + i] = rows[i]
  BY <1>1
<1> HIDE DEF both
<1>4. ASSUME run[c].created >= From PROVE \A i \in DOMAIN both : both[i].recent
  <2>1. Recent /\ \A i \in DOMAIN log : log[i].recent
    BY <1>1, <1>4 DEF Dated, Recent
  <2>2. TAKE i \in DOMAIN both
  <2>3. i \in 1 .. Len(log) \/ (i - Len(log) \in 1 .. Len(rows) /\ Len(log) + (i - Len(log)) = i)
    BY <1>3
  <2>4. DOMAIN log = 1 .. Len(log) /\ DOMAIN rows = 1 .. Len(rows)
    BY <1>1
  <2>5. CASE i \in 1 .. Len(log)
    BY <1>3, <2>1, <2>4, <2>5
  <2>6. CASE i - Len(log) \in 1 .. Len(rows) /\ Len(log) + (i - Len(log)) = i
    <3>1. both[Len(log) + (i - Len(log))] = rows[i - Len(log)]
      BY <1>3, <2>6
    <3>2. both[i] = rows[i - Len(log)] /\ rows[i - Len(log)].recent = Recent
      BY <2>4, <2>6, <3>1
    <3> QED BY <2>1, <3>2
  <2> QED BY <2>3, <2>5, <2>6
<1>5. Dated(r, pay[c], ask[c], both, now)
  BY <1>1, <1>4 DEF Dated
<1> QED BY <1>1, <1>2, <1>3, <1>5 DEF both, log

\* A run goes on and its trail grows.
LEMMA TrailGoes ==
  ASSUME Sane(Tables), NEW c \in Carts, UNCHANGED <<pay, ask>>, run[c].stage # "ABSENT",
         NEW rows \in Seq(Row), Len(rows) > 0, Logged(c, rows), \A i \in DOMAIN rows : rows[i].recent = Recent,
         NEW r \in RunRow, run' = [run EXCEPT ![c] = r], r.stage # "ABSENT", r.created = run[c].created,
         RunLater(run[c], r), Fated(r), Trailed(trail[c] \o rows), TrailTells(r, ask[c], trail[c] \o rows),
         Paired(r, pay[c], ask[c])
  PROVE  Goes(c)
<1> DEFINE log == trail[c] \o rows
<1>1. /\ trail' = [trail EXCEPT ![c] = log] /\ log \in Seq(Row) /\ Len(log) = Len(trail[c]) + Len(rows)
      /\ Dated(r, pay[c], ask[c], log, now)
  BY LoggedNow
<1>2. RowsTyped(run[c], pay[c], ask[c], trail[c]) /\ Trailed(log) /\ TrailTells(r, ask[c], log)
  BY CartNow
<1>3. Len(trail[c]) \in Nat /\ Len(rows) \in Nat
  BY <1>2 DEF RowsTyped
<1> HIDE DEF log
<1>4. Becomes(c, r, pay[c], ask[c], log)
  BY <1>1, CartNow DEF Becomes
<1>5. RowsTyped(r, pay[c], ask[c], log)
  BY <1>1, <1>2 DEF RowsTyped
<1>6. SaneCart(r, pay[c], ask[c], log, now)
  BY <1>1, <1>2 DEF SaneCart
<1>7. RowsLater(c, r, pay[c], ask[c], log)
  <2>1. Len(trail[c]) < Len(log)
    BY <1>1, <1>3
  <2> QED BY <2>1 DEF RowsLater, Forward
<1> QED BY <1>4, <1>5, <1>6, <1>7 DEF Goes

\* A trail, and it with more rows; what the gate and the explainer add.
Joined(log, rows, both) ==
  /\ Len(both) = Len(log) + Len(rows)
  /\ \A i \in 1 .. Len(log) : both[i] = log[i]
  /\ \A i \in 1 .. Len(rows) : both[Len(log) + i] = rows[i]

GateRows(rows) ==
  \/ Len(rows) = 1 /\ RowIs(rows[1], "stage_completed", "GATEKEEPER", "FAILED")
  \/ /\ Len(rows) = 2 /\ \E status \in {"PASS", "FAIL", "BAND"} : RowIs(rows[1], "gatekeeper_rule_result", "NONE", status)
     /\ RowIs(rows[2], "stage_completed", "GATEKEEPER", "OK")

ExplainerRows(rows) ==
  /\ Len(rows) = 3 /\ RowIs(rows[1], "stage_started", "EXPLAIN", "NONE")
  /\ RowIs(rows[2], "degraded", "EXPLAIN", "NONE") /\ RowIs(rows[3], "stage_completed", "EXPLAIN", "DEGRADED")

LEMMA JoinedNow ==
  ASSUME Sane(Tables), NEW c \in Carts, NEW rows \in Seq(Row)
  PROVE  Joined(trail[c], rows, trail[c] \o rows)
<1>1. trail[c] \in Seq(Row)
  BY CartNow DEF RowsTyped
<1> DEFINE log == trail[c]
<1> HIDE DEF log
<1>2. log \in Seq(Row)
  BY <1>1 DEF log
<1>3. Joined(log, rows, log \o rows)
  BY <1>2 DEF Joined
<1> QED BY <1>3 DEF log

LEMMA GateLogged ==
  ASSUME NEW log, NEW rows, NEW both, Trailed(log), Len(log) = 1, Joined(log, rows, both), GateRows(rows)
  PROVE  Trailed(both) /\ Len(both) \in {2, 3}
<1>1. RowIs(log[1], "stage_started", "GATEKEEPER", "NONE") /\ both[1] = log[1]
  BY DEF Trailed, Joined
<1>2. CASE Len(rows) = 1 /\ RowIs(rows[1], "stage_completed", "GATEKEEPER", "FAILED")
  <2>1. Len(both) = 2 /\ both[2] = rows[1]
    BY <1>2 DEF Joined
  <2> QED BY <1>1, <1>2, <2>1 DEF Trailed
<1>3. CASE Len(rows) = 2 /\ (\E status \in {"PASS", "FAIL", "BAND"} : RowIs(rows[1], "gatekeeper_rule_result", "NONE", status))
           /\ RowIs(rows[2], "stage_completed", "GATEKEEPER", "OK")
  <2>1. Len(both) = 3 /\ both[2] = rows[1] /\ both[3] = rows[2]
    BY <1>3 DEF Joined
  <2> QED BY <1>1, <1>3, <2>1 DEF Trailed
<1> QED BY <1>2, <1>3 DEF GateRows

LEMMA CheckingTells ==
  ASSUME NEW r, NEW log, r.stage = "GATE_CHECKING", r.outcome = "NONE", r.why = "NONE", Len(log) \in {2, 3}
  PROVE  TrailTells(r, NoAsk, log)
BY DEF TrailTells

LEMMA GateEndsGoes ==
  ASSUME Sane(Tables), NEW c \in Carts, NEW status \in {"PASS", "FAIL", "BAND", "THROWS"}, GateEnds(c, status),
         UNCHANGED now
  PROVE  Goes(c)
<1> DEFINE r == [stage |-> "GATE_CHECKING", created |-> run[c].created, outcome |-> run[c].outcome, why |-> run[c].why]
           x == LogRow("stage_completed", "GATEKEEPER", "FAILED")
           y == LogRow("gatekeeper_rule_result", "NONE", status)
           z == LogRow("stage_completed", "GATEKEEPER", "OK")
           rows == IF status = "THROWS" THEN <<x>> ELSE <<y, z>>
           log == trail[c]  both == log \o rows
<1>1. /\ run' = [run EXCEPT ![c] = r] /\ Logged(c, rows) /\ UNCHANGED <<pay, ask>> /\ run[c].stage = "PROPOSING"
  BY Restaged DEF GateEnds
<1>2. /\ Paired(run[c], pay[c], ask[c]) /\ TrailTells(run[c], ask[c], log) /\ Fated(run[c]) /\ Trailed(log)
      /\ RowsTyped(run[c], pay[c], ask[c], log) /\ Recent \in BOOLEAN
  BY CartNow DEF SaneCart
<1>3. Len(log) = 1 /\ run[c].outcome = "NONE" /\ run[c].why = "NONE" /\ ask[c] = NoAsk
  BY <1>1, <1>2 DEF TrailTells, Fated, NoRun
<1>4. /\ r \in RunRow /\ r.stage = "GATE_CHECKING" /\ r.created = run[c].created /\ r.outcome = "NONE" /\ r.why = "NONE"
  BY <1>2, <1>3 DEF RowsTyped, RunRow
<1>5. /\ x \in Row /\ x.recent = Recent /\ RowIs(x, "stage_completed", "GATEKEEPER", "FAILED")
      /\ z \in Row /\ z.recent = Recent /\ RowIs(z, "stage_completed", "GATEKEEPER", "OK")
  BY <1>2 DEF LogRow, Row, RowIs
<1>6. ASSUME status # "THROWS" PROVE y \in Row /\ y.recent = Recent /\ RowIs(y, "gatekeeper_rule_result", "NONE", status)
  BY <1>2, <1>6 DEF LogRow, Row, RowIs
<1> HIDE DEF r, x, y, z
<1>7. /\ rows \in Seq(Row) /\ Len(rows) > 0 /\ (\A i \in DOMAIN rows : rows[i].recent = Recent)
      /\ GateRows(rows)
  <2>1. CASE status = "THROWS"
    <3>1. rows = <<x>>
      BY <2>1
    <3> HIDE DEF rows
    <3> QED BY <1>5, <3>1 DEF GateRows
  <2>2. CASE status # "THROWS"
    <3>1. rows = <<y, z>> /\ status \in {"PASS", "FAIL", "BAND"}
      BY <2>2
    <3> HIDE DEF rows
    <3>2. RowIs(rows[1], "gatekeeper_rule_result", "NONE", status)
      BY <1>6, <2>2, <3>1
    <3>3. /\ rows \in Seq(Row) /\ Len(rows) = 2 /\ (\A i \in DOMAIN rows : rows[i].recent = Recent)
          /\ RowIs(rows[2], "stage_completed", "GATEKEEPER", "OK")
      BY <1>5, <1>6, <2>2, <3>1
    <3> QED BY <3>1, <3>2, <3>3 DEF GateRows
  <2> QED BY <2>1, <2>2
<1> HIDE DEF rows
<1>8. Joined(log, rows, both)
  BY <1>7, JoinedNow
<1> HIDE DEF both, log
<1>9. Trailed(both) /\ Len(both) \in {2, 3}
  BY <1>2, <1>3, <1>7, <1>8, GateLogged
<1>10. TrailTells(r, ask[c], both)
  BY <1>3, <1>4, <1>9, CheckingTells
<1>11. Paired(r, pay[c], ask[c])
  BY <1>2, <1>3, <1>4 DEF Paired
<1>12. Fated(r)
  BY <1>4 DEF Fated
<1>13. RunLater(run[c], r)
  <2>1. RunRank(run[c]) < RunRank(r)
    BY <1>1, <1>4 DEF RunRank
  <2> QED BY <1>3, <1>4, <2>1 DEF RunLater, Forward
<1>14. Trailed(trail[c] \o rows) /\ TrailTells(r, ask[c], trail[c] \o rows)
  BY <1>9, <1>10 DEF both, log
<1> QED BY <1>1, <1>4, <1>7, <1>11, <1>12, <1>13, <1>14, TrailGoes

LEMMA ExplainerLogged ==
  ASSUME NEW log, NEW rows, NEW both, Trailed(log), Len(log) = 3, Joined(log, rows, both), ExplainerRows(rows)
  PROVE  Trailed(both) /\ Len(both) = 6 /\ both[2] = log[2]
<1>1. /\ Len(both) = 6 /\ both[1] = log[1] /\ both[2] = log[2] /\ both[3] = log[3]
      /\ both[4] = rows[1] /\ both[5] = rows[2] /\ both[6] = rows[3]
  BY DEF Joined, ExplainerRows
<1> QED BY <1>1 DEF Trailed, ExplainerRows

LEMMA ExplainedTells ==
  ASSUME NEW r, NEW a, NEW log, NEW both, TrailTells(r, a, log), r.outcome # "NONE", r.stage # "GATE_CHECKING", r.why # "PIPELINE_STALLED",
         Len(log) = 3, Len(both) = 6, both[2] = log[2]
  PROVE  TrailTells(r, a, both)
BY DEF TrailTells

LEMMA ExplainerGoes ==
  ASSUME Sane(Tables), NEW c \in Carts, ExplainerCloses(c), UNCHANGED now
  PROVE  Goes(c)
<1> DEFINE x == LogRow("stage_started", "EXPLAIN", "NONE")
           y == LogRow("degraded", "EXPLAIN", "NONE")
           z == LogRow("stage_completed", "EXPLAIN", "DEGRADED")
           rows == <<x, y, z>>  log == trail[c]  both == log \o rows  r == run[c]
<1>1. /\ Logged(c, rows) /\ UNCHANGED <<run, pay, ask>> /\ r.outcome # "NONE" /\ r.why # "PIPELINE_STALLED"
      /\ ~ Has(c, "stage_started", "EXPLAIN")
  BY DEF ExplainerCloses
<1>2. /\ Paired(r, pay[c], ask[c]) /\ TrailTells(r, ask[c], log) /\ Fated(r) /\ Trailed(log)
      /\ RowsTyped(r, pay[c], ask[c], log) /\ Recent \in BOOLEAN /\ run = [run EXCEPT ![c] = r]
  BY CartNow DEF SaneCart
<1>3. r.stage # "ABSENT" /\ r \in RunRow /\ log \in Seq(Row)
  BY <1>1, <1>2 DEF Fated, NoRun, RowsTyped
<1>4. Len(log) = 3
  <2>1. Len(log) \in {3, 6}
    BY <1>1, <1>2 DEF TrailTells
  <2>2. ASSUME Len(log) = 6 PROVE FALSE
    <3>1. 4 \in DOMAIN log /\ log[4].event = "stage_started" /\ log[4].stage = "EXPLAIN"
      BY <1>2, <1>3, <2>2 DEF Trailed, RowIs
    <3> QED BY <1>1, <3>1 DEF Has
  <2> QED BY <2>1, <2>2
<1>5. /\ x \in Row /\ x.recent = Recent /\ RowIs(x, "stage_started", "EXPLAIN", "NONE")
      /\ y \in Row /\ y.recent = Recent /\ RowIs(y, "degraded", "EXPLAIN", "NONE")
      /\ z \in Row /\ z.recent = Recent /\ RowIs(z, "stage_completed", "EXPLAIN", "DEGRADED")
  BY <1>2 DEF LogRow, Row, RowIs
<1> HIDE DEF x, y, z
<1>6. /\ rows \in Seq(Row) /\ Len(rows) = 3 /\ (\A i \in DOMAIN rows : rows[i].recent = Recent)
      /\ ExplainerRows(rows)
  BY <1>5 DEF ExplainerRows
<1> HIDE DEF rows
<1>7. Joined(log, rows, both)
  BY <1>6, JoinedNow
<1> HIDE DEF both, log
<1>8. Trailed(both) /\ Len(both) = 6 /\ both[2] = log[2]
  BY <1>2, <1>4, <1>6, <1>7, ExplainerLogged
<1>9. TrailTells(r, ask[c], both)
  <2>1. r.stage # "GATE_CHECKING"
    BY <1>1, <1>2 DEF Fated, NoRun
  <2> QED BY <1>1, <1>2, <1>4, <1>8, <2>1, ExplainedTells
<1>10. Trailed(trail[c] \o rows) /\ TrailTells(run[c], ask[c], trail[c] \o rows)
  BY <1>8, <1>9 DEF both, log
<1>11. RunLater(run[c], run[c])
  BY DEF RunLater, Forward
<1>12. run' = [run EXCEPT ![c] = run[c]] /\ Len(rows) > 0
  BY <1>1, <1>2, <1>6
<1> QED BY <1>1, <1>2, <1>3, <1>6, <1>10, <1>11, <1>12, TrailGoes

----------------------------------------------------------------------------
(* The board's invariant is kept.                                          *)

LEMMA RunWritesGoes ==
  ASSUME Sane(Tables), NEW c \in Carts, RunWrites(c), UNCHANGED now
  PROVE  Goes(c)
<1>1. CASE Submitted(c)
  BY <1>1, SubmittedGoes
<1>2. CASE Abandoned(c)
  BY <1>2, AbandonedGoes
<1>3. CASE SettleEnds(c)
  BY <1>3, SettleEndsGoes
<1>4. CASE Declined(c)
  BY <1>4, DeclinedGoes
<1>5. CASE Asked(c)
  BY <1>5, AskedGoes
<1>6. CASE Escalated(c)
  BY <1>6, EscalatedGoes
<1>7. CASE AnswerHeeded(c)
  BY <1>7, AnswerGoes
<1>8. CASE ExplainerCloses(c)
  BY <1>8, ExplainerGoes
<1>9. CASE Collected(c)
  BY <1>9, CollectedGoes
<1>10. ASSUME NEW status \in {"PASS", "FAIL", "BAND", "THROWS"}, GateEnds(c, status) PROVE Goes(c)
  BY <1>10, GateEndsGoes
<1>11. ASSUME NEW ok \in BOOLEAN, SettleOpens(c, ok) PROVE Goes(c)
  BY <1>11, SettleOpensGoes
<1>12. ASSUME NEW decision \in {"APPROVED", "REJECTED"}, MerchantAnswers(c, decision) PROVE Goes(c)
  BY <1>12, MerchantAnswersGoes
<1> QED BY <1>1, <1>2, <1>3, <1>4, <1>5, <1>6, <1>7, <1>8, <1>9, <1>10, <1>11, <1>12 DEF RunWrites

LEMMA TickKeeps ==
  ASSUME Sane(Tables), now' = now + 1, UNCHANGED <<run, pay, ask, trail>>
  PROVE  Sane(Tables') /\ Later(Tables, Tables')
<1>1. /\ Tables'.now = now + 1 /\ Tables'.run = run /\ Tables'.pay = pay /\ Tables'.ask = ask /\ Tables'.trail = trail
      /\ Tables.now = now /\ Tables.run = run /\ Tables.pay = pay /\ Tables.ask = ask /\ Tables.trail = trail
  BY DEF Tables
<1>2. /\ now \in Nat /\ run \in [Carts -> RunRow]
      /\ pay \in [Carts -> PayRow]
      /\ ask \in [Carts -> AskRow] /\ trail \in [Carts -> Seq(Row)]
  BY <1>1 DEF Sane, Snapshot
<1>3. Tables' \in Snapshot
  BY <1>2 DEF Tables, Snapshot
<1>4. ASSUME NEW c \in Carts PROVE SaneCart(run[c], pay[c], ask[c], trail[c], now + 1) /\ CartLater(Tables, Tables', c)
  <2>1. SaneCart(run[c], pay[c], ask[c], trail[c], now)
    BY CartNow
  <2>2. Dated(run[c], pay[c], ask[c], trail[c], now + 1)
    <3>1. run[c].created \in 0 .. now => run[c].created \in 0 .. (now + 1)
      BY <1>2
    <3> QED BY <2>1, <3>1 DEF SaneCart, Dated
  <2>3. CartLater(Tables, Tables', c)
    BY <1>1 DEF CartLater, RunLater, Forward
  <2> QED BY <2>1, <2>2, <2>3 DEF SaneCart
<1> QED BY <1>1, <1>2, <1>3, <1>4 DEF Sane, Later

LEMMA ForwardGoesOn ==
  ASSUME NEW x, NEW y, NEW z, NEW i \in Int, NEW j \in Int, NEW k \in Int, Forward(x, y, i, j), Forward(y, z, j, k),
         x = y => i = j, y = z => j = k
  PROVE  Forward(x, z, i, k)
BY DEF Forward

LEMMA RanksAre ==
  ASSUME NEW s, Sane(s), NEW c \in Carts
  PROVE  RunRank(s.run[c]) \in Int /\ PayRank(s.pay[c]) \in Int /\ AskRank(s.ask[c]) \in Int /\ Len(s.trail[c]) \in Int
<1>1. s.trail[c] \in Seq(Row)
  BY DEF Sane, Snapshot
<1>2. Len(s.trail[c]) \in Int
  BY <1>1
<1> QED BY <1>2 DEF RunRank, PayRank, AskRank

LEMMA LaterGoesOn ==
  ASSUME NEW s, NEW u, NEW w, Sane(s), Sane(u), Sane(w), Later(s, u), Later(u, w)
  PROVE  Later(s, w)
<1>1. s.now \in Nat /\ u.now \in Nat /\ w.now \in Nat
  BY DEF Sane, Snapshot
<1>2. s.now <= w.now
  BY <1>1 DEF Later
<1>3. ASSUME NEW c \in Carts PROVE CartLater(s, w, c)
  <2>1. CartLater(s, u, c) /\ CartLater(u, w, c)
    BY DEF Later
  <2>2. \A x \in {s, u, w} : /\ RunRank(x.run[c]) \in Int /\ PayRank(x.pay[c]) \in Int
                             /\ AskRank(x.ask[c]) \in Int /\ Len(x.trail[c]) \in Int
    BY RanksAre
  <2>3. Forward(s.run[c], w.run[c], RunRank(s.run[c]), RunRank(w.run[c]))
    BY <2>1, <2>2, ForwardGoesOn DEF CartLater, RunLater
  <2>4. Forward(s.pay[c], w.pay[c], PayRank(s.pay[c]), PayRank(w.pay[c]))
    BY <2>1, <2>2, ForwardGoesOn DEF CartLater
  <2>5. Forward(s.ask[c], w.ask[c], AskRank(s.ask[c]), AskRank(w.ask[c]))
    BY <2>1, <2>2, ForwardGoesOn DEF CartLater
  <2>6. Forward(s.trail[c], w.trail[c], Len(s.trail[c]), Len(w.trail[c]))
    <3> DEFINE x == s.trail[c]  y == u.trail[c]  z == w.trail[c]  i == Len(x)  j == Len(y)  k == Len(z)
    <3>1. Forward(x, y, i, j) /\ Forward(y, z, j, k)
      BY <2>1 DEF CartLater
    <3>2. (x = y => i = j) /\ (y = z => j = k) /\ i \in Int /\ j \in Int /\ k \in Int
      BY <2>2
    <3> HIDE DEF x, y, z, i, j, k
    <3>3. Forward(x, z, i, k)
      BY <3>1, <3>2, ForwardGoesOn
    <3> QED BY <3>3 DEF x, z, i, k
  <2>7. RunLater(s.run[c], w.run[c])
    BY <2>1, <2>3 DEF CartLater, RunLater
  <2> QED BY <2>4, <2>5, <2>6, <2>7 DEF CartLater
<1> QED BY <1>2, <1>3 DEF Later

LEMMA LaterItself ==
  ASSUME NEW s, Sane(s)
  PROVE  Later(s, s)
<1>1. s.now \in Nat
  BY DEF Sane, Snapshot
<1> QED BY <1>1 DEF Later, CartLater, RunLater, Forward

LEMMA BoardStarts == DashboardInit => BoardInv
<1> SUFFICES ASSUME DashboardInit PROVE BoardInv
  OBVIOUS
<1>1. Sane(Tables)
  BY SaneStarts
<1>2. loading = <<>>
  BY DEF DashboardInit
<1> QED BY <1>1, <1>2 DEF BoardInv

\* One more moment, later than those there are.
LEMMA MomentAdded ==
  ASSUME NEW ms \in Seq(Snapshot), ms # <<>>, NEW u \in Snapshot, Sane(u),
         \A i \in DOMAIN ms : Sane(ms[i]), \A i, j \in DOMAIN ms : i <= j => Later(ms[i], ms[j]),
         Later(ms[Len(ms)], u), NEW more, more = Append(ms, u)
  PROVE  /\ more \in Seq(Snapshot) /\ more[Len(more)] = u /\ more # <<>>
         /\ \A i \in DOMAIN more : Sane(more[i])
         /\ \A i, j \in DOMAIN more : i <= j => Later(more[i], more[j])
<1> DEFINE n == Len(ms)
<1>1. /\ n \in Nat /\ n >= 1 /\ DOMAIN ms = 1 .. n /\ Len(more) = n + 1 /\ DOMAIN more = 1 .. (n + 1)
      /\ more \in Seq(Snapshot) /\ more[n + 1] = u /\ \A i \in 1 .. n : more[i] = ms[i]
  OBVIOUS
<1>2. more # <<>>
  BY <1>1
<1>3. \A i \in DOMAIN more : Sane(more[i])
  <2>1. TAKE i \in DOMAIN more
  <2>2. i \in 1 .. n \/ i = n + 1
    BY <1>1
  <2> QED BY <1>1, <2>2
<1>4. ASSUME NEW i \in DOMAIN more, NEW j \in DOMAIN more, i <= j PROVE Later(more[i], more[j])
  <2>1. (i \in 1 .. n /\ j \in 1 .. n) \/ (i \in 1 .. n /\ j = n + 1) \/ (i = n + 1 /\ j = n + 1)
    BY <1>1, <1>4
  <2>2. CASE i \in 1 .. n /\ j \in 1 .. n
    <3>1. i \in DOMAIN ms /\ j \in DOMAIN ms /\ more[i] = ms[i] /\ more[j] = ms[j]
      BY <1>1, <2>2
    <3> QED BY <1>4, <3>1
  <2>3. CASE i \in 1 .. n /\ j = n + 1
    <3>1. n \in DOMAIN ms /\ i \in DOMAIN ms /\ i <= n
      BY <1>1, <2>3
    <3>2. Later(ms[i], ms[n]) /\ Sane(ms[i]) /\ Sane(ms[n])
      BY <3>1
    <3>3. Later(ms[i], u)
      BY <3>2, LaterGoesOn
    <3> QED BY <1>1, <2>3, <3>3
  <2>4. CASE i = n + 1 /\ j = n + 1
    BY <1>1, <2>4, LaterItself
  <2> QED BY <2>1, <2>2, <2>3, <2>4
<1> QED BY <1>1, <1>2, <1>3, <1>4

LEMMA BoardStep == BoardInv /\ [DashboardNext]_dashboardVars => BoardInv'
<1> SUFFICES ASSUME BoardInv, [DashboardNext]_dashboardVars PROVE BoardInv'
  OBVIOUS
<1>1. Sane(Tables) /\ Tables \in Snapshot
  BY DEF BoardInv, Sane
<1>2. ASSUME UNCHANGED tables PROVE Tables' = Tables
  BY <1>2 DEF Tables, tables
<1>3. CASE Asks
  <2>1. Tables' = Tables
    BY <1>2, <1>3 DEF Asks
  <2>2. loading' = <<Tables>>
    BY <1>3 DEF Asks
  <2> DEFINE ms == <<Tables>>
  <2>3. ms \in Seq(Snapshot) /\ Len(ms) = 1 /\ ms[1] = Tables /\ DOMAIN ms = {1}
    BY <1>1
  <2> HIDE DEF ms
  <2>4. /\ \A i \in DOMAIN ms : Sane(ms[i])
        /\ \A i, j \in DOMAIN ms : i <= j => Later(ms[i], ms[j])
    BY <1>1, <2>3, LaterItself
  <2>5. loading' = ms
    BY <2>2 DEF ms
  <2> QED BY <1>1, <2>1, <2>3, <2>4, <2>5 DEF BoardInv, Latest
<1>4. CASE Moves
  <2>1. Sane(Tables') /\ Later(Tables, Tables') /\ Tables' \in Snapshot
    <3>1. ASSUME NEW c \in Carts, RunWrites(c), UNCHANGED now PROVE Sane(Tables') /\ Later(Tables, Tables')
      BY <1>1, <3>1, RunWritesGoes, GoesKeeps
    <3>2. ASSUME now' = now + 1, UNCHANGED <<run, pay, ask, trail, budget>> PROVE Sane(Tables') /\ Later(Tables, Tables')
      <4>1. now' = now + 1 /\ run' = run /\ pay' = pay /\ ask' = ask /\ trail' = trail
        BY <3>2
      <4>2. UNCHANGED <<run, pay, ask, trail>>
        BY <4>1
      <4> QED BY <1>1, <4>1, <4>2, TickKeeps
    <3>3. Sane(Tables') /\ Later(Tables, Tables')
      BY <1>4, <3>1, <3>2 DEF Moves
    <3> QED BY <3>3 DEF Sane
  <2>2. CASE loading = <<>>
    BY <1>4, <2>1, <2>2 DEF Moves, BoardInv
  <2>3. CASE loading # <<>>
    <3>1. loading' = Append(loading, Tables')
      BY <1>4, <2>3 DEF Moves
    <3>2. /\ loading \in Seq(Snapshot) /\ loading[Len(loading)] = Tables
          /\ \A i \in DOMAIN loading : Sane(loading[i])
          /\ \A i, j \in DOMAIN loading : i <= j => Later(loading[i], loading[j])
      BY <2>3 DEF BoardInv, Latest
    <3>3. /\ loading' \in Seq(Snapshot) /\ loading'[Len(loading')] = Tables'
          /\ \A i \in DOMAIN loading' : Sane(loading'[i])
          /\ \A i, j \in DOMAIN loading' : i <= j => Later(loading'[i], loading'[j])
      BY <2>1, <2>3, <3>1, <3>2, MomentAdded
    <3> QED BY <2>1, <3>3 DEF BoardInv, Latest
  <2> QED BY <2>2, <2>3
<1>5. CASE UNCHANGED dashboardVars
  <2>1. Tables' = Tables /\ loading' = loading
    BY <1>2, <1>5 DEF dashboardVars
  <2> QED BY <2>1 DEF BoardInv, Latest
<1> QED BY <1>3, <1>4, <1>5 DEF DashboardNext

----------------------------------------------------------------------------
(* What the board shows follows.                                           *)

LEMMA ForwardBoth ==
  ASSUME NEW x, NEW y, NEW i \in Int, NEW j \in Int, Forward(x, y, i, j), Forward(y, x, j, i)
  PROVE  x = y
BY DEF Forward

\* Nothing moved between two moments each later than the other.
LEMMA LaterBoth ==
  ASSUME NEW s, NEW u, Sane(s), Sane(u), Later(s, u), Later(u, s)
  PROVE  s = u
<1>1. /\ s.now \in Nat /\ u.now \in Nat /\ s.now <= u.now /\ u.now <= s.now /\ s \in Snapshot /\ u \in Snapshot
  BY DEF Later, Sane, Snapshot
<1>2. ASSUME NEW c \in Carts
      PROVE  s.run[c] = u.run[c] /\ s.pay[c] = u.pay[c] /\ s.ask[c] = u.ask[c] /\ s.trail[c] = u.trail[c]
  <2>1. CartLater(s, u, c) /\ CartLater(u, s, c)
    BY DEF Later
  <2>2. \A x \in {s, u} : /\ RunRank(x.run[c]) \in Int /\ PayRank(x.pay[c]) \in Int
                          /\ AskRank(x.ask[c]) \in Int /\ Len(x.trail[c]) \in Int
    BY RanksAre
  <2>3. s.run[c] = u.run[c]
    BY <2>1, <2>2, ForwardBoth DEF CartLater, RunLater
  <2>4. s.pay[c] = u.pay[c]
    BY <2>1, <2>2, ForwardBoth DEF CartLater
  <2>5. s.ask[c] = u.ask[c]
    BY <2>1, <2>2, ForwardBoth DEF CartLater
  <2>6. s.trail[c] = u.trail[c]
    <3> DEFINE x == s.trail[c]  y == u.trail[c]  i == Len(x)  j == Len(y)
    <3>1. Forward(x, y, i, j) /\ Forward(y, x, j, i)
      BY <2>1 DEF CartLater
    <3>2. i \in Int /\ j \in Int
      BY <2>2
    <3> HIDE DEF x, y, i, j
    <3>3. x = y
      BY <3>1, <3>2, ForwardBoth
    <3> QED BY <3>3 DEF x, y
  <2> QED BY <2>3, <2>4, <2>5, <2>6
<1>3. s.run = u.run
  BY <1>1, <1>2 DEF Snapshot
<1>4. s.pay = u.pay
  BY <1>1, <1>2 DEF Snapshot
<1>5. s.ask = u.ask
  BY <1>1, <1>2 DEF Snapshot
<1>6. s.trail = u.trail
  <2>1. s.trail \in [Carts -> Seq(Row)] /\ u.trail \in [Carts -> Seq(Row)]
    BY <1>1 DEF Snapshot
  <2> DEFINE f == s.trail  g == u.trail
  <2>2. f = [c \in Carts |-> f[c]] /\ g = [c \in Carts |-> g[c]] /\ \A c \in Carts : f[c] = g[c]
    BY <1>2, <2>1
  <2> HIDE DEF f, g
  <2>3. f = g
    BY <2>2
  <2> QED BY <2>3 DEF f, g
<1>7. s.now = u.now
  BY <1>1
<1>8. ASSUME NEW x \in Snapshot
      PROVE  x = [now |-> x.now, run |-> x.run, pay |-> x.pay, ask |-> x.ask, trail |-> x.trail]
  BY DEF Snapshot
<1> QED BY <1>1, <1>3, <1>4, <1>5, <1>6, <1>7, <1>8

\* The moments of an answer lie between the first and the last.
LEMMA MomentsAre ==
  ASSUME BoardInv, loading # <<>>, NEW s \in Moments
  PROVE  /\ Sane(s) /\ Sane(Earliest) /\ Sane(Latest) /\ Later(Earliest, s) /\ Later(s, Latest)
<1>1. PICK i \in DOMAIN loading : s = loading[i]
  BY DEF Moments
<1>2. /\ loading \in Seq(Snapshot) /\ \A j \in DOMAIN loading : Sane(loading[j])
      /\ \A j, k \in DOMAIN loading : j <= k => Later(loading[j], loading[k])
  BY DEF BoardInv
<1>3. Len(loading) \in Nat /\ DOMAIN loading = 1 .. Len(loading)
  BY <1>2
<1>4. 1 \in DOMAIN loading /\ Len(loading) \in DOMAIN loading /\ 1 <= i /\ i <= Len(loading)
  BY <1>1, <1>3
<1> QED BY <1>1, <1>2, <1>4 DEF Earliest, Latest

\* One answer, from two moments.
LEMMA PanelsDo ==
  ASSUME BoardInv, loading # <<>>, NEW s \in Moments, NEW v \in Moments
  PROVE  PanelsAgree(Analytics([q \in Queries |-> IF q = "volume" THEN v ELSE s]))
<1> DEFINE at == [q \in Queries |-> IF q = "volume" THEN v ELSE s]
           b == Analytics(at)
           charted(o) == SumFunction([k \in DOMAIN b.volume |-> b.volume[k][o]])
           chartedAll == SumFunction([k \in DOMAIN b.volume |-> SumFunction(b.volume[k])])
<1>1. /\ b.totals = Totals(s) /\ b.volume = Volume(v) /\ b.settlement = Settlements(s) /\ b.inbox = Inbox(s)
      /\ b.findings = Findings(s)
  <2>1. /\ at["totals"] = s /\ at["volume"] = v /\ at["rules"] = s /\ at["settlement"] = s /\ at["approvals"] = s
    BY DEF Queries
  <2> HIDE DEF at
  <2> QED BY <2>1 DEF Analytics
<1>2. /\ Sane(s) /\ Sane(v) /\ Sane(Earliest) /\ Sane(Latest)
      /\ Later(Earliest, s) /\ Later(s, Latest) /\ Later(Earliest, v) /\ Later(v, Latest)
  BY MomentsAre
<1> HIDE DEF b
<1>3. chartedAll = Closings(v) /\ \A o \in Verdicts : charted(o) = Ended(v, Since(v), o)
  BY <1>1, <1>2, VolumeAdds
<1>4. VerdictsIn(b.totals) = Closings(s)
  BY <1>1, <1>2, TotalsAdd
<1> DEFINE n == VerdictsIn(b.totals)  m == chartedAll  C(o) == charted(o)
<1>5. /\ Closings(Earliest) <= n /\ n <= Closings(Latest) /\ Closings(Earliest) <= m /\ m <= Closings(Latest)
  BY <1>2, <1>3, <1>4, ClosingsGrow
<1>6. b.totals.proposals <= n + b.totals.in_flight
  BY <1>1, <1>2, ProposalsAdd
<1>7. /\ b.settlement.completed <= b.settlement.paid /\ b.settlement.paid + b.settlement.failed <= b.settlement.opened
      /\ b.settlement.settled_value <= b.settlement.approved_value
  BY <1>1, <1>2, SettlementsAdd
<1>8. ASSUME Earliest = Latest
      PROVE  /\ \A o \in Verdicts : C(o) = b.totals.ended[o]
             /\ b.totals.ended["APPROVED"] <= b.settlement.opened
             /\ b.totals.ended["ESCALATED"] <= SumFunction(b.inbox)
             /\ b.totals.ended["DECLINED"] <= b.findings.fail + b.inbox["REJECTED"]
  <2>1. s = Earliest /\ v = Earliest
    BY <1>2, <1>8, LaterBoth
  <2>2. \A o \in Verdicts : b.totals.ended[o] = Ended(s, Since(s), o)
    BY <1>1 DEF Totals
  <2>3. "APPROVED" \in Verdicts /\ "ESCALATED" \in Verdicts /\ "DECLINED" \in Verdicts
    BY DEF Verdicts
  <2>4. \A o \in Verdicts : C(o) = b.totals.ended[o]
    BY <1>3, <2>1, <2>2
  <2>5. b.totals.ended["APPROVED"] <= b.settlement.opened
    BY <1>1, <1>2, <2>2, <2>3, ApprovalsAreOpened
  <2>6. b.totals.ended["ESCALATED"] <= SumFunction(b.inbox)
    BY <1>1, <1>2, <2>2, <2>3, EscalationsAreAsked
  <2>7. b.totals.ended["DECLINED"] <= b.findings.fail + b.inbox["REJECTED"]
    BY <1>1, <1>2, <2>2, <2>3, DeclinesHaveReasons
  <2> QED BY <2>4, <2>5, <2>6, <2>7
<1>9. PanelsAgree(b)
  BY <1>5, <1>6, <1>7, <1>8 DEF PanelsAgree
<1> QED BY <1>9 DEF b

LEMMA BoardFollows == BoardInv => BoardIsTrue
<1> SUFFICES ASSUME BoardInv, loading # <<>> PROVE
       /\ \A s, v \in Moments : PanelsAgree(Analytics([q \in Queries |-> IF q = "volume" THEN v ELSE s]))
       /\ LinesExplained(Latest) /\ ReplayInOrder(Latest)
  BY DEF BoardIsTrue
<1>1. Latest = Tables /\ Sane(Tables)
  BY DEF BoardInv
<1> QED BY <1>1, PanelsDo, LinesAre, TrailsAre

----------------------------------------------------------------------------
(* The theorems.                                                           *)

\* A step of the back office is a step, or a stutter, of each part.
LEMMA EachPart ==
  ASSUME [BackOfficeNext]_backOfficeVars
  PROVE  /\ [OffersNext]_offerVars /\ [DeliveryNext]_deliveryVars
         /\ [DemoNext]_demoVars /\ [AuthorsNext]_authorsVars /\ [DashboardNext]_dashboardVars
<1>1. CASE UNCHANGED backOfficeVars
  BY <1>1 DEF backOfficeVars
<1>2. CASE BackOfficeNext
  BY <1>2 DEF BackOfficeNext, Does
<1> QED BY <1>1, <1>2

\* The inductive invariants of an offer, of the ingress, of the demo and of the
\* writers hold together.
THEOREM BackOfficeIsSound ==
  BackOfficeSpec => [](OffersInv /\ DeliveryInv /\ DemoInv /\ AuthorsInv /\ BoardInv)
<1> DEFINE I == OffersInv /\ DeliveryInv /\ DemoInv /\ AuthorsInv /\ BoardInv
<1>1. BackOfficeInit => I
  BY OffersInitial, DeliveryStarts, DemoStarts, AuthorsStart, BoardStarts DEF BackOfficeInit
<1>2. I /\ [BackOfficeNext]_backOfficeVars => I'
  BY EachPart, OffersStep, DeliveryStep, DemoStep, AuthorsStep, BoardStep
<1> QED BY <1>1, <1>2, PTL DEF BackOfficeSpec

\* From the cart the gate prices to the mandate, the lines add up to the total,
\* and no paisa of the discount and no unit of a line is made or lost.
THEOREM MoneyIsConserved == BackOfficeSpec => []PaiseConserved
<1>1. OffersInv => PaiseConserved
  BY OffersConserve
<1> QED BY <1>1, BackOfficeIsSound, PTL

\* The gate's verdict is what the policy says of the cart as it came, no rule
\* skipped and no line merged (engine.ts, context.ts); its result is one the
\* schema admits, and an escalation names a cause that holds.
THEOREM GateIsPolicy == BackOfficeSpec => []GateFollowsPolicy
<1>1. OffersInv => GateFollowsPolicy
  BY OffersFollowPolicy
<1> QED BY <1>1, BackOfficeIsSound, PTL

\* Whatever the model answered and whoever wrote the offer, it sells what the
\* shelf holds, every rupee it quotes is justified by the shelf, and the gate
\* finds no fault with its structure, skus, total or stock (audit.ts,
\* fallback.ts, cart-adapter.ts).
THEOREM OffersAreTheShelfs == BackOfficeSpec => []OfferIsGrounded
<1>1. OffersInv => OfferIsGrounded
  BY OffersAreGrounded
<1> QED BY <1>1, BackOfficeIsSound, PTL

\* A report that was answered as received or as a duplicate is dispatched and
\* marked, or still on the list of the sweep.
THEOREM ReportsAreKept == BackOfficeSpec => []AckedIsKept
<1>1. DeliveryInv => AckedIsKept
  BY KeptFollows
<1> QED BY <1>1, BackOfficeIsSound, PTL

\* A scenario outside the chaos ones is green only if the pipeline recorded
\* the outcome it is about, and timed out only if nothing was recorded.
THEOREM VerdictsAreTrue == BackOfficeSpec => []VerdictIsTrue
<1>1. DemoInv => VerdictIsTrue
  BY VerdictFollows
<1> QED BY <1>1, BackOfficeIsSound, PTL

\* Whatever a model answers and however its calls fail, a published set, copy
\* or narrative says only what was checked: no sku is pushed twice, nothing is
\* left out without a reason that holds, and no number or sku is invented.
THEOREM PublicationsAreSound == BackOfficeSpec => []PublishedIsSound
<1>1. AuthorsInv => PublishedIsSound
  BY PublishedFollows
<1> QED BY <1>1, BackOfficeIsSound, PTL

\* Whatever was written while the board loaded, its panels lie between what was
\* true when it was asked for and what is true when it shows, and agree when
\* nothing moved; every line says why its run ended, and every trail replays
\* stage after stage (admin-analytics.route.ts, admin-audit.route.ts).
THEOREM BoardTellsTheTruth == BackOfficeSpec => []BoardIsTrue
<1>1. BoardInv => BoardIsTrue
  BY BoardFollows
<1> QED BY <1>1, BackOfficeIsSound, PTL

\* A set is assembled by rank: every opportunity is placed or left out for a
\* reason that holds of the entries ranked before it.
THEOREM AssemblyIsRanked == \A opps : OppSet(opps) => Built(opps, Cardinality(opps), Assembly(opps))
BY AssemblyIs
=============================================================================
