---------------------------- MODULE Idempotency ----------------------------
(***************************************************************************)
(* POST /v1/tx/settle behind its idempotency gate: a lease in Redis taken  *)
(* before the work, a durable twin row in PostgreSQL, replay, abort and    *)
(* finalize.  Redis may lose an entry (time-to-live, flush) at any moment, *)
(* any call to either store may throw, and a process may end.              *)
(***************************************************************************)
EXTENDS Naturals

CONSTANTS
  Calls,      \* HTTP requests to the route, retries included
  IdemKeys,   \* Idempotency-Key headers
  Proposals,  \* request bodies; a body determines its tx_id
  Nothing,    \* an absent entry
  MaxLosses,  \* bound on entries Redis loses
  MaxErrors   \* bound on store calls that throw and processes that end

\* An absent entry is no call, no body and no entry.
ASSUME IdemAssumption ==
  /\ Nothing \notin Calls \union Proposals /\ {MaxLosses, MaxErrors} \subseteq Nat
  /\ Nothing \notin [body : Proposals, phase : {"IN_FLIGHT", "DONE"}, by : Calls \union {Nothing}]

VARIABLES
  lease,    \* Redis: body, phase and finished call of the key, or Nothing
  twin,     \* PostgreSQL idempotency_keys row: body and finished call, or Nothing
  txRow,    \* proposals with a transactions row
  worked,   \* history: calls whose settle returned
  sent,     \* key and body of a call, or Nothing
  at,       \* where a call is
  got,      \* what a call was answered; a replay names the call it replays
  lost,     \* keys whose entry Redis has lost
  losses, errors

idemVars == <<lease, twin, txRow, worked, sent, at, got, lost, losses, errors>>

Entry(b, phase, c) == [body |-> b, phase |-> phase, by |-> c]
Replay(c) == <<"replay", c>>
KeyOf(c) == sent[c][1]
BodyOf(c) == sent[c][2]

IdemInit ==
  /\ lease = [k \in IdemKeys |-> Nothing]
  /\ twin = [k \in IdemKeys |-> Nothing]
  /\ txRow = {} /\ worked = {}
  /\ sent = [c \in Calls |-> Nothing]
  /\ at = [c \in Calls |-> "new"]
  /\ got = [c \in Calls |-> <<>>]
  /\ lost = {}
  /\ losses = 0
  /\ errors = 0

Move(c, from, to) == at[c] = from /\ at' = [at EXCEPT ![c] = to] /\ UNCHANGED sent
Answer(c, a) == got' = [got EXCEPT ![c] = a]
StoreThrows == errors < MaxErrors /\ errors' = errors + 1

Arrive(c, k, b) ==
  /\ at[c] = "new"
  /\ at' = [at EXCEPT ![c] = "acquire"]
  /\ sent' = [sent EXCEPT ![c] = <<k, b>>]
  /\ UNCHANGED <<lease, twin, txRow, worked, got, lost, losses, errors>>

\* Mutant: SET without NX.
Acquire_NoNX(c) ==
  /\ Move(c, "acquire", "settle")
  /\ lease' = [lease EXCEPT ![KeyOf(c)] = Entry(BodyOf(c), "IN_FLIGHT", Nothing)]
  /\ UNCHANGED <<twin, txRow, worked, got, lost, losses, errors>>

\* SET NX PX.
Acquire(c) ==
  LET free == lease[KeyOf(c)] = Nothing IN
  /\ Move(c, "acquire", IF free THEN "settle" ELSE "peek")
  /\ lease' = IF free THEN [lease EXCEPT ![KeyOf(c)] = Entry(BodyOf(c), "IN_FLIGHT", Nothing)]
                      ELSE lease
  /\ UNCHANGED <<twin, txRow, worked, got, lost, losses, errors>>

\* Redis throws: a degraded read of the twin, else fail closed.
AcquireThrows(c) ==
  LET row == twin[KeyOf(c)] IN
  /\ StoreThrows
  /\ Move(c, "acquire", "done")
  /\ \/ row # Nothing /\ row.body = BodyOf(c) /\ Answer(c, Replay(row.by))
     \/ Answer(c, <<"503 STORE_UNAVAILABLE">>)
  /\ UNCHANGED <<lease, twin, txRow, worked, lost, losses>>

\* The separate GET after a refused SET NX; an entry gone meanwhile is refused.
Peek(c) ==
  LET e == lease[KeyOf(c)] IN
  /\ Move(c, "peek", "done")
  /\ Answer(c, IF e = Nothing THEN <<"422">>
               ELSE IF e.body # BodyOf(c) THEN <<"422">>
               ELSE IF e.phase = "IN_FLIGHT" THEN <<"409 IN_FLIGHT">> ELSE Replay(e.by))
  /\ UNCHANGED <<lease, twin, txRow, worked, lost, losses, errors>>

\* settle() of the body.  It fails with TX_ALREADY_SETTLED, or before or after
\* the row is inserted.
Settle(c) ==
  /\ \/ /\ Move(c, "settle", "savePg")
        /\ BodyOf(c) \notin txRow /\ txRow' = txRow \union {BodyOf(c)}
        /\ worked' = worked \union {c}
     \/ /\ Move(c, "settle", "abort")
        /\ txRow' \in {txRow, txRow \union {BodyOf(c)}} /\ UNCHANGED worked
  /\ UNCHANGED <<lease, twin, got, lost, losses, errors>>

\* The body fails its schema after the gate: 400, and the lease stays.
RefuseBody(c) ==
  /\ Move(c, "settle", "done")
  /\ Answer(c, <<"400">>)
  /\ UNCHANGED <<lease, twin, txRow, worked, lost, losses, errors>>

\* DEL, whoever holds the key by now; a throw is only logged.
Abort(c) ==
  /\ Move(c, "abort", "done")
  /\ Answer(c, <<"settle error">>)
  /\ \/ lease' = [lease EXCEPT ![KeyOf(c)] = Nothing] /\ UNCHANGED errors
     \/ StoreThrows /\ UNCHANGED lease
  /\ UNCHANGED <<twin, txRow, worked, lost, losses>>

\* INSERT ... ON CONFLICT DO NOTHING; a throw is only logged.
SavePg(c) ==
  /\ Move(c, "savePg", "finalize")
  /\ \/ /\ twin' = [twin EXCEPT ![KeyOf(c)] =
              IF @ = Nothing THEN Entry(BodyOf(c), "DONE", c) ELSE @]
        /\ UNCHANGED errors
     \/ StoreThrows /\ UNCHANGED twin
  /\ UNCHANGED <<lease, txRow, worked, got, lost, losses>>

\* Mutant: the promotion keeps the body hash of the entry it finds.
Finalized_KeepsHash(c, e) == Entry(e.body, "DONE", c)

Finalized(c, e) == Entry(BodyOf(c), "DONE", c)

\* The Lua promotion: an IN_FLIGHT entry, whoever's it is, becomes this result;
\* a DONE entry stays; on an absent one the script fails, which is logged.
Finalize(c) ==
  LET e == lease[KeyOf(c)] IN
  /\ Move(c, "finalize", "done")
  /\ Answer(c, <<"201">>)
  /\ \/ /\ lease' = IF e # Nothing /\ e.phase = "IN_FLIGHT"
                      THEN [lease EXCEPT ![KeyOf(c)] = Finalized(c, e)] ELSE lease
        /\ UNCHANGED errors
     \/ StoreThrows /\ UNCHANGED lease
  /\ UNCHANGED <<twin, txRow, worked, lost, losses>>

\* A process ends with the calls it serves: a crash, a deployment, or the GET of
\* a peek that throws, a rejection of the gate nobody handles.  The lease stays.
ProcessEnds ==
  /\ StoreThrows
  /\ \E dead \in SUBSET {c \in Calls : at[c] # "new"} :
       at' = [c \in Calls |-> IF c \in dead THEN "done" ELSE at[c]]
  /\ UNCHANGED <<lease, twin, txRow, worked, sent, got, lost, losses>>

\* Time-to-live, eviction or flush.
RedisLoses(k) ==
  /\ losses < MaxLosses /\ lease[k] # Nothing
  /\ losses' = losses + 1
  /\ lost' = lost \union {k}
  /\ lease' = [lease EXCEPT ![k] = Nothing]
  /\ UNCHANGED <<twin, txRow, worked, sent, at, got, errors>>

CallStep(c) ==
  \/ Acquire(c) \/ AcquireThrows(c) \/ Peek(c) \/ Settle(c) \/ RefuseBody(c)
  \/ Abort(c) \/ SavePg(c) \/ Finalize(c)

IdemNext ==
  \/ \E c \in Calls, k \in IdemKeys, b \in Proposals : Arrive(c, k, b)
  \/ \E c \in Calls : CallStep(c)
  \/ \E k \in IdemKeys : RedisLoses(k)
  \/ ProcessEnds

----------------------------------------------------------------------------
Holding == {"settle", "abort", "savePg", "finalize"}
Succeeded(c) == c \in worked

\* Two executions under one key overlap only after Redis lost the lease: the
\* unconditional DEL of an abort and the blind promotion of a finalize do not
\* take the key from a live holder on their own.
ExecutionsExclusive ==
  \A c, d \in Calls :
    c # d /\ at[c] \in Holding /\ at[d] \in Holding /\ KeyOf(c) = KeyOf(d) => KeyOf(c) \in lost

\* A replayed answer is the success of a call with the same key and body, even
\* when the entry it was promoted from belonged to another body.
ReplayIsTrue ==
  \A c, d \in Calls : got[c] = Replay(d) => sent[d] = sent[c] /\ Succeeded(d)
=============================================================================
