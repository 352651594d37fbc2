------------------------------ MODULE Delivery ------------------------------
(***************************************************************************)
(* How a payment report reaches settlement: the secrets a process boots    *)
(* with, the letters the provider (or the simulator) signs, the retries of *)
(* the provider, and the ingress up to its answer.  What a dispatched      *)
(* report does to a transaction is Settlement's; here it is only that it   *)
(* was dispatched.                                                         *)
(*                                                                         *)
(* A body is what the parser tells apart: its event, the entities it       *)
(* carries and whether the schema accepts it.  An HMAC is the secret it    *)
(* was made with.  Express 4 does not catch a rejected handler, so what    *)
(* the handler throws ends the process.                                    *)
(***************************************************************************)
EXTENDS Integers, Sequences

CONSTANTS
  Letters,        \* reports
  Hooks,          \* requests the ingress can have in hand at once
  Secrets,        \* the merchant's webhook secrets, in the order they are rotated
  DevSecret,      \* MOCK_DEV_WEBHOOK_SECRET
  NoSecret,
  Environments,   \* environments a process may be started with
  Freshness,      \* WEBHOOK_FRESHNESS_SEC
  RedriveAfter,   \* REDRIVE_EVENT_AFTER_MS
  GiveUpAfter,    \* how long the provider retries
  MaxClock, MaxTroubles   \* bounds of the runs

ASSUME DeliveryAssumption ==
  /\ Freshness \in Nat /\ RedriveAfter \in Nat /\ GiveUpAfter \in Nat
  /\ DevSecret # NoSecret

VARIABLES
  clock,
  process,    \* "down", or the configuration it booted with
  signing,    \* index of the secret the provider signs with
  letter,     \* what was written, and whether the provider still wants an answer
  wire,       \* copies on their way
  hook,       \* requests in hand
  row,        \* processed_webhook_events, by event id
  redriving,  \* letters the sweep has dispatched and not yet marked
  applied,    \* letters dispatched
  answer,     \* the best answer a letter got
  troubles

deliveryVars == <<clock, process, signing, letter, wire, hook, row, redriving, applied, answer, troubles>>

Down == [up |-> FALSE]
Unwritten == [written |-> FALSE]
Free == [pc |-> "free"]
NoRow == [status |-> "ABSENT"]

----------------------------------------------------------------------------
(* Boot.                                                                   *)

Mode(env) == IF env.provider = "" THEN "MOCK" ELSE env.provider

Refusals(env) ==
  {f \in {"unset", "unknown", "keys", "hook", "number"} :
     CASE f = "unset"   -> env.provider = "" /\ env.production
       [] f = "unknown" -> Mode(env) \notin {"MOCK", "TEST_MODE"}
       [] f = "keys"    -> \/ Mode(env) = "MOCK" /\ (env.keyId # "" \/ env.keySecret)
                           \/ Mode(env) = "TEST_MODE" /\ (env.keyId # "valid" \/ ~env.keySecret)
       [] f = "hook"    -> Mode(env) = "TEST_MODE" /\ env.hook = NoSecret
       [] f = "number"  -> ~env.numbers}

WebhookSecrets(env) ==
  IF env.hook = NoSecret THEN <<DevSecret>>
  ELSE IF env.old = NoSecret THEN <<env.hook>> ELSE <<env.hook, env.old>>

LoadSettlementConfig(env) == [up |-> TRUE, mode |-> Mode(env), secrets |-> WebhookSecrets(env)]

----------------------------------------------------------------------------
(* What is mailed, and how it is read.                                     *)

Body(event, entities, valid) == [event |-> event, entities |-> entities, valid |-> valid]

\* The envelopes the simulator and the provider write, and drift in them: an
\* unknown event, a missing entity, a field the schema does not accept.
Outcomes == {"captured", "failed", "delay", "duplicate", "never"}

Envelope(outcome) ==
  CASE outcome \in {"captured", "duplicate"} -> Body("order.paid", {"payment", "order"}, TRUE)
    [] outcome = "delay"                     -> Body("payment.captured", {"payment"}, TRUE)
    [] outcome = "failed"                    -> Body("payment.failed", {"payment"}, TRUE)

ProviderBodies ==
  {Envelope("captured"), Envelope("delay"), Body("refund.created", {}, TRUE),
   Body("order.paid", {"payment"}, TRUE), Body("payment.failed", {"payment"}, FALSE)}

\* The simulator is built with the first secret alone.
Armed == IF process.mode = "MOCK" THEN {process.secrets[1]}
         ELSE {process.secrets[i] : i \in DOMAIN process.secrets}

\* A letter keeps the secret it was first signed with.
Authentic(l) == letter[l].secret \in Armed

\* The kind a validated envelope is dispatched as; a parse error is thrown.
Parsed(body) ==
  IF ~body.valid THEN "thrown"
  ELSE CASE body.event \in {"payment.captured", "payment.failed"} ->
              IF "payment" \in body.entities THEN body.event ELSE "thrown"
         [] body.event = "order.paid" ->
              IF {"payment", "order"} \subseteq body.entities THEN body.event ELSE "thrown"
         [] OTHER -> "ignored"

Age(l) == clock - letter[l].at
Stale(l) == Age(l) > Freshness \/ -Age(l) > Freshness

----------------------------------------------------------------------------

DeliveryInit ==
  /\ clock = 0 /\ process = Down /\ signing = 1 /\ troubles = 0
  /\ letter = [l \in Letters |-> Unwritten]
  /\ wire = [l \in Letters |-> 0]
  /\ hook = [h \in Hooks |-> Free]
  /\ row = [l \in Letters |-> NoRow]
  /\ redriving = {} /\ applied = {}
  /\ answer = [l \in Letters |-> "none"]

Trouble == troubles < MaxTroubles /\ troubles' = troubles + 1

\* What a process holds in memory is gone; rows and letters on the wire are not.
Dies ==
  /\ process' = Down
  /\ hook' = [h \in Hooks |-> Free]
  /\ redriving' = {}

Start(env) ==
  /\ ~process.up /\ Refusals(env) = {}
  /\ process' = LoadSettlementConfig(env)
  /\ UNCHANGED <<clock, signing, letter, wire, hook, row, redriving, applied, answer, troubles>>

Stop ==
  /\ process.up /\ Trouble /\ Dies
  /\ UNCHANGED <<clock, signing, letter, wire, row, applied, answer>>

Tick ==
  /\ clock < MaxClock /\ clock' = clock + 1
  /\ UNCHANGED <<process, signing, letter, wire, hook, row, redriving, applied, answer, troubles>>

----------------------------------------------------------------------------
(* The two senders.                                                        *)

Write(l, body, secret, retried, copies) ==
  /\ ~letter[l].written
  /\ letter' = [letter EXCEPT ![l] = [written |-> TRUE, body |-> body, at |-> clock,
                                      secret |-> secret, open |-> retried]]
  /\ wire' = [wire EXCEPT ![l] = copies]

\* The simulator mails once (twice for "duplicate") and never looks at the answer.
SchedulePaymentOutcome(l, outcome) ==
  /\ process.up /\ process.mode = "MOCK" /\ outcome # "never"
  /\ Write(l, Envelope(outcome), process.secrets[1], FALSE, IF outcome = "duplicate" THEN 2 ELSE 1)
  /\ UNCHANGED <<clock, process, signing, hook, row, redriving, applied, answer, troubles>>

ProviderReports(l, body) ==
  /\ Write(l, body, Secrets[signing], TRUE, 1)
  /\ UNCHANGED <<clock, process, signing, hook, row, redriving, applied, answer, troubles>>

\* No 2xx within the provider's patience: it sends the same bytes again, though
\* the first request may still be in hand.
ProviderRetries(l) ==
  /\ letter[l].written /\ letter[l].open /\ wire[l] = 0 /\ Age(l) <= GiveUpAfter
  /\ wire' = [wire EXCEPT ![l] = 1]
  /\ UNCHANGED <<clock, process, signing, letter, hook, row, redriving, applied, answer, troubles>>

RotateSecret ==
  /\ signing < Len(Secrets) /\ signing' = signing + 1
  /\ UNCHANGED <<clock, process, letter, wire, hook, row, redriving, applied, answer, troubles>>

CopyLost(l) ==
  /\ wire[l] > 0 /\ wire' = [wire EXCEPT ![l] = @ - 1]
  /\ UNCHANGED <<clock, process, signing, letter, hook, row, redriving, applied, answer, troubles>>

----------------------------------------------------------------------------
(* The ingress.                                                            *)

\* A 2xx stops the retries.
Acknowledged(l, how) ==
  /\ letter' = [letter EXCEPT ![l].open = FALSE]
  /\ answer' = [answer EXCEPT ![l] = IF @ = "kept" THEN @ ELSE how]

\* Authenticate, parse and look at the age, before the first await.
Arrive(h, l) ==
  /\ process.up /\ hook[h].pc = "free" /\ wire[l] > 0
  /\ wire' = [wire EXCEPT ![l] = @ - 1]
  /\ \/ /\ ~Authentic(l)                                   \* 400
        /\ UNCHANGED <<process, letter, hook, redriving, answer>>
     \/ /\ Authentic(l) /\ Parsed(letter[l].body) = "thrown"
        /\ Dies /\ UNCHANGED <<letter, answer>>
     \/ /\ Authentic(l) /\ Parsed(letter[l].body) # "thrown" /\ Stale(l)
        /\ Acknowledged(l, "skipped") /\ UNCHANGED <<process, hook, redriving>>
     \/ /\ Authentic(l) /\ Parsed(letter[l].body) # "thrown" /\ ~Stale(l)
        /\ hook' = [hook EXCEPT ![h] = [pc |-> "insert", of |-> l]]
        /\ UNCHANGED <<process, letter, redriving, answer>>
  /\ UNCHANGED <<clock, signing, row, applied, troubles>>

Steps(h, from, to) ==
  /\ hook[h].pc = from
  /\ hook' = [hook EXCEPT ![h] = IF to = "free" THEN Free ELSE [@ EXCEPT !.pc = to]]

InsertFirst_OnePhase(h) ==
  LET l == hook[h].of IN
  /\ hook[h].pc = "insert"
  /\ \/ /\ row[l] = NoRow /\ Steps(h, "insert", "dispatch")
        /\ row' = [row EXCEPT ![l] = [status |-> "PROCESSED", at |-> clock]]
        /\ UNCHANGED <<letter, answer>>
     \/ /\ row[l] # NoRow /\ Steps(h, "insert", "free")
        /\ Acknowledged(l, "kept") /\ UNCHANGED row
  /\ UNCHANGED <<clock, process, signing, wire, redriving, applied, troubles>>

\* The id is the provider's header or the digest of the bytes: one per letter
\* either way.
InsertFirst(h) ==
  LET l == hook[h].of IN
  /\ hook[h].pc = "insert"
  /\ \/ /\ row[l] = NoRow /\ Steps(h, "insert", "dispatch")
        /\ row' = [row EXCEPT ![l] = [status |-> "RECEIVED", at |-> clock]]
        /\ UNCHANGED <<letter, answer>>
     \/ /\ row[l] # NoRow /\ Steps(h, "insert", "free")
        /\ Acknowledged(l, "kept") /\ UNCHANGED row
  /\ UNCHANGED <<clock, process, signing, wire, redriving, applied, troubles>>

InsertThrows(h) ==
  /\ hook[h].pc = "insert" /\ Trouble /\ Dies
  /\ UNCHANGED <<clock, signing, letter, wire, row, applied, answer>>

DispatchParsed(h) ==
  /\ Steps(h, "dispatch", "mark")
  /\ applied' = applied \cup {hook[h].of}
  /\ UNCHANGED <<clock, process, signing, letter, wire, row, redriving, answer, troubles>>

MarkProcessed(h) ==
  /\ Steps(h, "mark", "reply")
  /\ row' = [row EXCEPT ![hook[h].of].status = "PROCESSED"]
  /\ UNCHANGED <<clock, process, signing, letter, wire, redriving, applied, answer, troubles>>

\* The catch leaves the row RECEIVED for the sweep.
DispatchFails(h) ==
  /\ Steps(h, "dispatch", "reply") \/ Steps(h, "mark", "reply")
  /\ Trouble
  /\ UNCHANGED <<clock, process, signing, letter, wire, row, redriving, applied, answer>>

Reply(h) ==
  /\ Steps(h, "reply", "free") /\ Acknowledged(hook[h].of, "kept")
  /\ UNCHANGED <<clock, process, signing, wire, row, redriving, applied, troubles>>

----------------------------------------------------------------------------
(* W6: rows received long ago and still not processed.                     *)

Redrive(l) ==
  /\ process.up /\ l \notin redriving
  /\ row[l].status = "RECEIVED" /\ clock - row[l].at > RedriveAfter
  /\ applied' = applied \cup {l} /\ redriving' = redriving \cup {l}
  /\ UNCHANGED <<clock, process, signing, letter, wire, hook, row, answer, troubles>>

\* If the UPDATE fails, the next tick takes the row again.
RedriveMarks(l) ==
  /\ l \in redriving /\ redriving' = redriving \ {l}
  /\ \/ row' = [row EXCEPT ![l].status = "PROCESSED"] /\ UNCHANGED troubles
     \/ Trouble /\ UNCHANGED row
  /\ UNCHANGED <<clock, process, signing, letter, wire, hook, applied, answer>>

DeliveryNext ==
  \/ \E env \in Environments : Start(env)
  \/ Stop \/ Tick \/ RotateSecret
  \/ \E l \in Letters, o \in Outcomes : SchedulePaymentOutcome(l, o)
  \/ \E l \in Letters, b \in ProviderBodies : ProviderReports(l, b)
  \/ \E l \in Letters : ProviderRetries(l) \/ CopyLost(l) \/ Redrive(l) \/ RedriveMarks(l)
  \/ \E h \in Hooks, l \in Letters : Arrive(h, l)
  \/ \E h \in Hooks : \/ InsertFirst(h) \/ InsertThrows(h) \/ DispatchParsed(h)
                      \/ MarkProcessed(h) \/ DispatchFails(h) \/ Reply(h)

----------------------------------------------------------------------------

\* The two-phase dedupe swallows nothing: a report the provider stops sending
\* because it was answered as received or as a duplicate is either dispatched
\* and marked, or on the list of the sweep, whatever crashed, failed, was
\* retried under the handler or was redriven at the same time.  (An answer to a
\* copy older than the freshness window promises nothing.)
AckedIsKept ==
  \A l \in Letters : answer[l] = "kept" =>
    \/ row[l].status = "RECEIVED"
    \/ row[l].status = "PROCESSED" /\ l \in applied
=============================================================================
