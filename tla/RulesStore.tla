----------------------------- MODULE RulesStore -----------------------------
(***************************************************************************)
(* The merchant rules: versioned insert-only rows in PostgreSQL, a cache   *)
(* with a time-to-live in each API replica, and the guarded PUT of the     *)
(* admin console.  Time is counted in ticks; a query lasts at most         *)
(* QueryTicks of them.                                                     *)
(***************************************************************************)
EXTENDS Naturals, Sequences

CONSTANTS
  Replicas,
  Puts,        \* PUT /v1/admin/rules calls
  TTL,         \* cache lifetime
  QueryTicks,  \* bound on the duration of one query
  Cooldown,    \* ticks between two raises of a guarded limit
  MaxTime,
  MaxVersions

ASSUME RulesAssumption ==
  {TTL, QueryTicks, Cooldown, MaxTime, MaxVersions} \subseteq Nat /\ MaxVersions > 0

VARIABLES
  now,
  rows,    \* merchant_rules by version: base it was merged from, raise, created_at
  cache,   \* version a replica has cached
  loaded,  \* when it was loaded; 0 before the first read
  read,    \* coalesced refresh in flight: when it began and what it saw
  put      \* progress of a PUT: replica, base version, whether it raises

rulesVars == <<now, rows, cache, loaded, read, put>>

NoRead == [at |-> 0, saw |-> 0]
Latest == Len(rows)
Row(base, raise) == [base |-> base, raise |-> raise, at |-> now]

RulesInit ==
  /\ now = 1
  /\ rows = <<[base |-> 0, raise |-> FALSE, at |-> 0]>>
  /\ cache = [r \in Replicas |-> 1]
  /\ loaded = [r \in Replicas |-> 0]
  /\ read = [r \in Replicas |-> NoRead]
  /\ put = [p \in Puts |-> [pc |-> "new"]]

Tick ==
  /\ now < MaxTime
  /\ \A r \in Replicas : read[r] # NoRead => now < read[r].at + QueryTicks
  /\ \A p \in Puts : put[p].pc = "publish" => now < rows[put[p].base + 1].at + QueryTicks
  /\ now' = now + 1
  /\ UNCHANGED <<rows, cache, loaded, read, put>>

\* Mutant: the age of the cache is not looked at.
Fresh_Always(r) == loaded[r] > 0

\* load() returns the cache while it is fresh.
Fresh(r) == loaded[r] > 0 /\ now - loaded[r] < TTL

\* refresh(): one query at a time, shared by every caller.
BeginRead(r) ==
  /\ ~Fresh(r) /\ read[r] = NoRead
  /\ read' = [read EXCEPT ![r] = [at |-> now, saw |-> Latest]]
  /\ UNCHANGED <<now, rows, cache, loaded, put>>

\* readLatest resumes: it overwrites whatever set() cached meanwhile.
EndRead(r) ==
  /\ read[r] # NoRead
  /\ cache' = [cache EXCEPT ![r] = read[r].saw]
  /\ loaded' = [loaded EXCEPT ![r] = now]
  /\ read' = [read EXCEPT ![r] = NoRead]
  /\ UNCHANGED <<now, rows, put>>

\* A request has no name before it arrives.
NextPut == CHOOSE p \in Puts : put[p].pc = "new"

\* The PUT after its load(): expected_version is what the caller saw, and only
\* a raise that is confirmed goes on.
PutBegins(p, r, raise) ==
  /\ put[p].pc = "new" /\ p = NextPut /\ Fresh(r)
  /\ put' = [put EXCEPT ![p] = [pc |-> "cooldown", on |-> r, base |-> cache[r], raise |-> raise]]
  /\ UNCHANGED <<now, rows, cache, loaded, read>>

Raises == {v \in DOMAIN rows : rows[v].raise}
CoolingDown ==
  \E v \in Raises : (\A w \in Raises : w <= v) /\ now - rows[v].at < Cooldown

PutChecksCooldown(p) ==
  /\ put[p].pc = "cooldown"
  /\ put' = [put EXCEPT ![p].pc = IF put[p].raise /\ CoolingDown THEN "refused" ELSE "insert"]
  /\ UNCHANGED <<now, rows, cache, loaded, read>>

\* Mutant: the next free version is taken instead of base + 1.
Conflicts_Never(p) == FALSE

\* rules_version is unique: base + 1 exists when somebody else was first.
Conflicts(p) == put[p].base # Latest

PutInserts(p) ==
  /\ put[p].pc = "insert" /\ Latest < MaxVersions
  /\ IF Conflicts(p)
       THEN put' = [put EXCEPT ![p].pc = "refused"] /\ UNCHANGED rows
       ELSE /\ rows' = Append(rows, Row(put[p].base, put[p].raise))
            /\ put' = [put EXCEPT ![p].pc = "publish"]
  /\ UNCHANGED <<now, cache, loaded, read>>

\* onRulesUpdated: the replica that served the PUT caches it, later than the
\* insert by an await.
PutPublishes(p) ==
  LET r == put[p].on IN
  /\ put[p].pc = "publish"
  /\ cache' = [cache EXCEPT ![r] = put[p].base + 1]
  /\ loaded' = [loaded EXCEPT ![r] = now]
  /\ put' = [put EXCEPT ![p].pc = "done"]
  /\ UNCHANGED <<now, rows, read>>

RulesNext ==
  \/ Tick
  \/ \E r \in Replicas : BeginRead(r) \/ EndRead(r)
  \/ \E p \in Puts, r \in Replicas, raise \in BOOLEAN : PutBegins(p, r, raise)
  \/ \E p \in Puts : PutChecksCooldown(p) \/ PutInserts(p) \/ PutPublishes(p)

----------------------------------------------------------------------------
\* Every version was merged from the one before it: no update is lost to a
\* replica whose cache is stale, or to two PUTs that read the same version.
NoUpdateLost == \A v \in DOMAIN rows : rows[v].base = v - 1

\* load() never returns rules that were superseded longer ago than a cache
\* lifetime and the query that filled the cache.
DriftBounded ==
  \A r \in Replicas :
    Fresh(r) /\ cache[r] < Latest => now <= rows[cache[r] + 1].at + TTL + QueryTicks
=============================================================================
