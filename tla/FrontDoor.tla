----------------------------- MODULE FrontDoor -----------------------------
(***************************************************************************)
(* What stands between a request and its handler: the budget of failed     *)
(* authentications, the lookup of the agent key, the token bucket of the   *)
(* expensive POSTs and the ledger of concurrent event streams.  One source *)
(* address; the buckets of two sources never meet.  Time is in ticks.      *)
(***************************************************************************)
EXTENDS Naturals, FiniteSets

CONSTANTS
  Reqs, Agents,
  Capacity, Refill, IdleTTL,         \* the token bucket, per agent
  MaxFailures, Forgiven, FailTTL,    \* the failure budget, per source
  PruneEvery,
  MaxStreams, MaxStreamsPerAgent,
  Horizon                            \* bound on the clock

\* A bucket that is pruned would have been full: 300 s at 10/s for 30 tokens,
\* 900 s at 0.5/s for 10.
ASSUME FrontDoorAssumption ==
  /\ IsFiniteSet(Reqs)
  /\ {Capacity, Refill, IdleTTL, MaxFailures, Forgiven, FailTTL, PruneEvery,
      MaxStreams, MaxStreamsPerAgent, Horizon} \subseteq Nat
  /\ Capacity <= IdleTTL * Refill /\ MaxFailures <= FailTTL * Forgiven

VARIABLES
  clock,
  limiter,   \* buckets of the token bucket and when they were pruned
  failures,  \* the same of the failure budget
  where,     \* how far a request is
  caller,    \* its agent, once known
  openStreams,
  ledger,    \* openPerAgent
  passed,    \* history: tokens spent by the end of a tick
  charged,   \* history: failures charged by then
  crowd      \* history: most requests that were being authenticated at once

doorVars == <<clock, limiter, failures, where, caller, openStreams, ledger, passed, charged, crowd>>

Ticks == 0 .. Horizon
Lesser(a, b) == IF a < b THEN a ELSE b
Source == {"ip"}
FullBuckets(K, n) == [at |-> [k \in K |-> 0], tokens |-> [k \in K |-> n], pruned |-> 0]

DoorInit ==
  /\ clock = 0
  /\ limiter = FullBuckets(Agents, Capacity)
  /\ failures = FullBuckets(Source, MaxFailures)
  /\ where = [r \in Reqs |-> "new"]
  /\ caller \in [Reqs -> Agents]
  /\ openStreams = 0 /\ ledger = [a \in Agents |-> 0]
  /\ passed = [a \in Agents |-> [t \in Ticks |-> 0]]
  /\ charged = [t \in Ticks |-> 0]
  /\ crowd = 0

Elapse ==
  /\ clock < Horizon
  /\ clock' = clock + 1
  /\ UNCHANGED <<limiter, failures, where, caller, openStreams, ledger, passed, charged, crowd>>

\* Mutant: the refill forgets the capacity.
Refilled_Uncapped(tokens, elapsed, cap, rate) == tokens + elapsed * rate

Refilled(tokens, elapsed, cap, rate) == Lesser(cap, tokens + elapsed * rate)

\* The buckets when k is looked at: idle ones are pruned, at most every
\* PruneEvery, and one that is pruned or was never seen is full.
Look(b, k, cap, rate, ttl) ==
  LET due == clock - b.pruned >= PruneEvery
      kept == [x \in DOMAIN b.at |-> IF due /\ clock - b.at[x] > ttl THEN cap ELSE b.tokens[x]]
  IN [tokens |-> [kept EXCEPT ![k] = Refilled(@, clock - b.at[k], cap, rate)],
      at |-> [b.at EXCEPT ![k] = clock],
      pruned |-> IF due THEN clock ELSE b.pruned]
Spend(b, k) == [b EXCEPT !.tokens[k] = IF @ > 0 THEN @ - 1 ELSE 0]

FailureBuckets == Look(failures, "ip", MaxFailures, Forgiven, FailTTL)

\* One more, in this tick.
Counted(f) == [t \in Ticks |-> IF t >= clock THEN f[t] + 1 ELSE f[t]]

AtMove(r, from, to) == where[r] = from /\ where' = [where EXCEPT ![r] = to]

\* GET /v1/stream/:txId is authenticated by its own handler and has no budget.
AskStream(r) ==
  /\ AtMove(r, "new", "streamAuth")
  /\ UNCHANGED <<clock, limiter, failures, caller, openStreams, ledger, passed, charged, crowd>>

\* FailureLimiter.guard: it looks at the budget and takes nothing from it.
Guard(r) ==
  /\ AtMove(r, "new", IF FailureBuckets.tokens["ip"] >= 1 THEN "auth" ELSE "429")
  /\ failures' = FailureBuckets
  /\ LET n == Cardinality({q \in Reqs : where'[q] = "auth"}) IN
       crowd' = IF n > crowd THEN n ELSE crowd
  /\ UNCHANGED <<clock, limiter, caller, openStreams, ledger, passed, charged>>

\* authenticateAgent answers: unknown or revoked key, wrong role.
Unauthenticated(r) ==
  /\ AtMove(r, "auth", "401")
  /\ failures' = Spend(FailureBuckets, "ip")
  /\ charged' = Counted(charged)
  /\ UNCHANGED <<clock, limiter, caller, openStreams, ledger, passed, crowd>>

\* resolveStreamAgent or ownsTx refuses the stream, or throws.
StreamRefused(r) ==
  /\ AtMove(r, "streamAuth", "refused") \/ AtMove(r, "left", "refused")
  /\ UNCHANGED <<clock, limiter, failures, caller, openStreams, ledger, passed, charged, crowd>>

\* The client disconnects while they are awaited: `close` is emitted before
\* anything listens for it, and the handler goes on.
ClientLeaves(r) ==
  /\ AtMove(r, "streamAuth", "left")
  /\ UNCHANGED <<clock, limiter, failures, caller, openStreams, ledger, passed, charged, crowd>>

Authenticated(r) ==
  /\ AtMove(r, "auth", "limit")
  /\ UNCHANGED <<clock, limiter, failures, caller, openStreams, ledger, passed, charged, crowd>>

\* The token bucket of the agent.
RateLimit(r) ==
  LET a == caller[r]
      seen == Look(limiter, a, Capacity, Refill, IdleTTL)
      ok == seen.tokens[a] >= 1
  IN
  /\ AtMove(r, "limit", IF ok THEN "handler" ELSE "429")
  /\ limiter' = IF ok THEN Spend(seen, a) ELSE seen
  /\ passed' = IF ok THEN [passed EXCEPT ![a] = Counted(@)] ELSE passed
  /\ UNCHANGED <<clock, failures, caller, openStreams, ledger, charged, crowd>>

\* Admission before the first byte: the answer of ownsTx, the check, the count
\* and the listener of `close` in one turn of the loop.  The stream of a client
\* that has left is admitted as any other.
Admit(r) ==
  LET a == caller[r]
      room == openStreams < MaxStreams /\ ledger[a] < MaxStreamsPerAgent
  IN
  /\ \/ AtMove(r, "streamAuth", IF room THEN "streaming" ELSE "429")
     \/ AtMove(r, "left", IF room THEN "orphan" ELSE "429")
  /\ IF room THEN openStreams' = openStreams + 1 /\ ledger' = [ledger EXCEPT ![a] = @ + 1]
     ELSE UNCHANGED <<openStreams, ledger>>
  /\ UNCHANGED <<clock, limiter, failures, caller, passed, charged, crowd>>

\* Mutant: no `released` flag.
Release_Again(r) ==
  openStreams' = openStreams - 1 /\ ledger' = [ledger EXCEPT ![caller[r]] = IF @ > 0 THEN @ - 1 ELSE 0]

\* release(), once per connection.
Release(r) ==
  IF where[r] = "thrown" THEN UNCHANGED <<openStreams, ledger>>
  ELSE openStreams' = openStreams - 1 /\ ledger' = [ledger EXCEPT ![caller[r]] = IF @ > 0 THEN @ - 1 ELSE 0]

\* The handler throws after the headers, when the first isTerminal does: the
\* slot is given back, and errorEnvelope (errors.ts:61) leaves the socket and
\* its subscription open.
StreamThrows(r) ==
  /\ AtMove(r, "streaming", "thrown") \/ AtMove(r, "orphan", "over")
  /\ Release(r)
  /\ UNCHANGED <<clock, limiter, failures, caller, passed, charged, crowd>>

\* The client goes, or the server ends the stream.  An orphan has no socket left.
SocketCloses(r) ==
  /\ AtMove(r, "streaming", "closed") \/ AtMove(r, "thrown", "closed")
  /\ Release(r)
  /\ UNCHANGED <<clock, limiter, failures, caller, passed, charged, crowd>>

DoorNext ==
  \/ Elapse
  \/ \E r \in Reqs :
       \/ AskStream(r) \/ StreamRefused(r) \/ ClientLeaves(r)
       \/ Guard(r) \/ Unauthenticated(r) \/ Authenticated(r) \/ RateLimit(r)
       \/ Admit(r) \/ StreamThrows(r) \/ SocketCloses(r)

----------------------------------------------------------------------------
Before(spent, s) == IF s = 0 THEN 0 ELSE spent[s - 1]

\* What was spent from the beginning of tick s to the end of tick e.
WithinBudget(spent, burst, rate) ==
  \A s, e \in Ticks : s <= e => spent[e] - Before(spent, s) <= burst + rate * (e - s)

\* In any window an agent gets no more than the burst and the refill of the
\* window, though idle buckets are pruned and start full; and a source fails no
\* more authentications than its budget once for every request it can have
\* between the guard and the verdict: whenever one failure is forgiven, all of
\* them may pass the guard before the first is charged.
BudgetsKept ==
  /\ \A a \in Agents : WithinBudget(passed[a], Capacity, Refill)
  /\ WithinBudget(charged, crowd * MaxFailures, crowd * Forgiven)

\* The requests whose slot is taken and not given back.
Slots == {r \in Reqs : where[r] \in {"streaming", "orphan"}}

\* Every slot is given back at most once, by the throw or by the close, so both
\* counts tell the slots that are still taken, and neither ceiling is passed.
\* They do not tell the open sockets: a stream that threw is open and no longer
\* counted, and the slot of a client that left too early is never given back.
StreamsCounted ==
  /\ openStreams = Cardinality(Slots) /\ openStreams <= MaxStreams
  /\ \A a \in Agents : /\ ledger[a] = Cardinality({r \in Slots : caller[r] = a})
                       /\ ledger[a] <= MaxStreamsPerAgent

\* No door lets in more than its budget: neither the two that refill with time
\* nor the one whose slots are given back.
AdmissionBounded == BudgetsKept /\ StreamsCounted

\* "The socket outlives this handler ..., so the ledger is released on close"
\* (stream.route.ts:148): no slot outlives its socket.  The code breaks this:
\* the listener is registered after two awaits, and a client that leaves during
\* them closes its socket before anything listens.
SlotsEndWithSockets == openStreams <= Cardinality({r \in Reqs : where[r] \in {"streaming", "thrown"}})
=============================================================================
