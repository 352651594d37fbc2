---------------------------- MODULE PipelineProofs ----------------------------
(***************************************************************************)
(* A proposal settles only what was decided, and a poll shows only what    *)
(* happened: the three invariants of Pipeline, for any number of requests, *)
(* keys and bodies, any version of the rules and any faults.               *)
(*                                                                         *)
(* The inductive invariant PipeInv says what a run, an inbox handler and a *)
(* row know of each other: a run that has not been through its gate has no *)
(* decision, a handler that settles spent the one approval of an escalated *)
(* cart, a row with an outcome has what the outcome claims.                *)
(***************************************************************************)
EXTENDS Pipeline, TLAPS

RunOf(t) == <<t, "run">>

\* Where a run is before its gate, and where its cart is being settled.
Undecided == {"idle", "insert", "context", "negotiate", "audit", "rules", "gate"}
Settling == {"settle", "settling"} \union Recordings

\* A key names the request that claimed it, a reply a request with the same
\* key and body; a run that was started holds its key.
Started(t) == stage[t] # "ABSENT" \/ pc[RunOf(t)] # "idle"

KeysOK ==
  /\ \A k \in Keys : claim[k] # NoTx => asked[claim[k]] # <<>> /\ asked[claim[k]][1] = k
  /\ \A r \in Requests : reply[r] \in Requests => asked[r] # <<>> /\ asked[reply[r]] = asked[r]
  /\ \A t \in Requests : Started(t) => asked[t] # <<>> /\ claim[asked[t][1]] = t

RunOK(t) ==
  LET here == pc[RunOf(t)] IN
  /\ here \in Undecided => decided[t] = NONE
  /\ here \notin {"idle", "insert", "failing", "done"} => stage[t] # "ABSENT"
  /\ here = "gate" => snapshot[t] # 0
  /\ here = "route" => approval[t] = NONE
  /\ here \in {"shelve", "escalate"} => approval[t] # NONE
  /\ here \in Settling => decided[t] = "APPROVE"
  /\ here \in {"settling", "APPROVED"} => txState[t] # "ABSENT"

\* A handler at work has its approval row; one past the token has spent it.
HandlerOK(w) ==
  /\ pc[w] \notin {"idle", "done"} => approval[TxOf(w)] # NONE
  /\ pc[w] \in {"settle", "settling", "APPROVED", "RETRY"} => approval[TxOf(w)] = "SPENT"
  /\ pc[w] = "decline" => approval[TxOf(w)] = "REJECTED"
  /\ pc[w] \in {"settling", "APPROVED"} => txState[TxOf(w)] # "ABSENT"

RowOK(t) ==
  /\ approval[t] # NONE => decided[t] = "ESCALATE" /\ stage[t] # "ABSENT"
  /\ decided[t] # NONE => snapshot[t] # 0 /\ pinned[t] = snapshot[t]
  /\ minted[t] # 0 => decided[t] # NONE /\ minted[t] = snapshot[t]
  /\ outcome[t] = "APPROVED" => txState[t] # "ABSENT"
  /\ outcome[t] = "ESCALATED" => approval[t] # NONE
  /\ outcome[t] = "DECLINED" => decided[t] = "DECLINE" \/ approval[t] = "REJECTED"

PipeInv ==
  /\ PipeTypeOK
  /\ KeysOK
  /\ \A t \in Requests : RunOK(t)
  /\ \A w \in Inbox : HandlerOK(w)
  /\ \A t \in Requests : RowOK(t)
  /\ SettledWasDecided

----------------------------------------------------------------------------
(* What a step leaves alone.                                               *)

\* What runs, handlers and the row of t rely on is still there.
Calm(t) ==
  /\ decided'[t] = decided[t] /\ snapshot'[t] = snapshot[t]
  /\ pinned'[t] = pinned[t] /\ minted'[t] = minted[t]
  /\ approval[t] = NONE <=> approval'[t] = NONE
  /\ approval[t] \in {"SPENT", "REJECTED"} => approval'[t] = approval[t]
  /\ stage[t] # "ABSENT" <=> stage'[t] # "ABSENT"
  /\ txState[t] # "ABSENT" => txState'[t] # "ABSENT"

LEMMA Ids ==
  /\ \A t \in Requests : RunOf(t) \in Workers /\ RunOf(t) \in Runs /\ RunOf(t) \notin Inbox
                        /\ TxOf(RunOf(t)) = t
  /\ \A t, u \in Requests : RunOf(t) = RunOf(u) => t = u
  /\ \A w \in Inbox : w \in Workers /\ TxOf(w) \in Requests /\ w \notin Runs
  /\ \A w \in Runs : TxOf(w) \in Requests /\ w = RunOf(TxOf(w))
BY DEF RunOf, Runs, Inbox, Workers, TxOf

LEMMA Moved ==
  ASSUME PipeTypeOK, NEW w \in Workers, NEW label \in PipePCs, Goto(w, label)
  PROVE  /\ pc' \in [Workers -> PipePCs] /\ pc'[w] = label
         /\ \A v \in Workers \ {w} : pc'[v] = pc[v]
BY DEF PipeTypeOK, Goto

LEMMA KeysKept ==
  ASSUME KeysOK, UNCHANGED intakeVars, \A t \in Requests : Started(t)' => Started(t)
  PROVE  KeysOK'
BY DEF KeysOK, intakeVars

LEMMA RunKept ==
  ASSUME NEW t \in Requests, RunOK(t), Calm(t),
         pc'[RunOf(t)] = pc[RunOf(t)] \/ pc'[RunOf(t)] \in {"done", "failing"}
  PROVE  RunOK(t)'
BY DEF RunOK, Calm, Undecided, Settling, Recordings

LEMMA HandlerKept ==
  ASSUME NEW w \in Inbox, HandlerOK(w), pc'[w] = pc[w] \/ pc'[w] = "done",
         Calm(TxOf(w)) \/ approval[TxOf(w)] = NONE
  PROVE  HandlerOK(w)'
BY DEF HandlerOK, Calm, TxOf

LEMMA RowKept ==
  ASSUME NEW t \in Requests, RowOK(t), Calm(t),
         outcome'[t] = outcome[t] \/ outcome'[t] \in {"RETRY", "FAILED"}
  PROVE  RowOK(t)'
BY DEF RowOK, Calm, NONE

LEMMA DecidedKept ==
  ASSUME SettledWasDecided,
         \A t \in Requests : txState'[t] # "ABSENT" =>
           \/ txState[t] # "ABSENT" /\ Calm(t)
           \/ decided'[t] = "APPROVE" \/ (decided'[t] = "ESCALATE" /\ approval'[t] = "SPENT")
  PROVE  SettledWasDecided'
BY DEF SettledWasDecided, Calm

----------------------------------------------------------------------------
(* Steps of a run.                                                         *)

Others(t) == \A u \in Requests \ {t} : Calm(u) /\ outcome'[u] = outcome[u]

\* A step of the run of t, which touches no other row; no handler works on t
\* unless what it relies on is still there.
LEMMA OneRun ==
  ASSUME PipeInv, PipeTypeOK', NEW t \in Requests, NEW label \in PipePCs,
         Goto(RunOf(t), label), pc[RunOf(t)] # "idle", Others(t), UNCHANGED <<intakeVars, txState>>,
         Calm(t) \/ (approval[t] = NONE /\ (txState[t] = "ABSENT" \/ decided'[t] = "APPROVE")),
         RunOK(t)', RowOK(t)'
  PROVE  PipeInv'
<1> USE DEF PipeInv
<1>1. pc'[RunOf(t)] = label /\ \A v \in Workers \ {RunOf(t)} : pc'[v] = pc[v]
  BY Moved, Ids
<1>2. KeysOK'
  <2>1. \A u \in Requests : Started(u)' => Started(u)
    BY <1>1, Ids DEF Others, Calm, Started
  <2> QED BY <2>1, KeysKept
<1>3. ASSUME NEW u \in Requests, u # t PROVE RunOK(u)' /\ RowOK(u)'
  <2>1. pc'[RunOf(u)] = pc[RunOf(u)] /\ Calm(u) /\ outcome'[u] = outcome[u]
    BY <1>1, <1>3, Ids DEF Others
  <2> QED BY <2>1, RunKept, RowKept
<1>4. ASSUME NEW w \in Inbox PROVE HandlerOK(w)'
  <2>1. pc'[w] = pc[w] /\ (Calm(TxOf(w)) \/ approval[TxOf(w)] = NONE)
    BY <1>1, Ids DEF Others
  <2> QED BY <2>1, HandlerKept
<1>5. SettledWasDecided'
  <2>1. \A u \in Requests : txState'[u] # "ABSENT" =>
          (txState[u] # "ABSENT" /\ Calm(u)) \/ decided'[u] = "APPROVE"
    BY DEF Others
  <2> QED BY <2>1, DecidedKept
<1> QED BY <1>2, <1>3, <1>4, <1>5

\* Nothing is settled before the gate, nor while a run is on its way to it.
LEMMA BeforeGate ==
  ASSUME PipeInv, NEW t \in Requests, pc[RunOf(t)] \in Undecided
  PROVE  decided[t] = NONE /\ approval[t] = NONE /\ txState[t] = "ABSENT" /\ minted[t] = 0
BY DEF PipeInv, RunOK, RowOK, SettledWasDecided, NONE

\* The stages before the gate.
LEMMA StagesKeep ==
  ASSUME PipeInv, NEW t \in Requests,
         InsertRun(t) \/ ContextBuild(t) \/ Negotiate(t) \/ CitationAudit(t)
  PROVE  PipeInv'
<1> DEFINE here == pc[RunOf(t)]
<1>1. PICK label \in {"context", "negotiate", "audit", "rules"},
           s \in {"PROPOSING", "BUILDING_EVIDENCE", "NEGOTIATING", "CITATION_AUDIT"} :
        Goto(RunOf(t), label) /\ SetStage(t, s)
  BY DEF InsertRun, ContextBuild, Negotiate, CitationAudit, Step, RunOf
<1>2. /\ here \in {"insert", "context", "negotiate", "audit"}
      /\ UNCHANGED <<intakeVars, gateVars, approval, rules, lapsed, answer, faults, txState>>
  BY DEF InsertRun, ContextBuild, Negotiate, CitationAudit, Step, At, RunOf
<1>3. decided[t] = NONE /\ approval[t] = NONE /\ txState[t] = "ABSENT"
  BY <1>2, BeforeGate DEF Undecided
<1>4. label \in PipePCs
  BY DEF PipePCs, RunPCs
<1>5. /\ pc' \in [Workers -> PipePCs] /\ pc'[RunOf(t)] = label
  BY <1>1, <1>4, Moved, Ids DEF PipeInv
<1>6. /\ stage'[t] = s /\ s # "ABSENT" /\ outcome' = outcome
      /\ \A u \in Requests \ {t} : stage'[u] = stage[u]
  BY <1>1 DEF SetStage, PipeInv, PipeTypeOK
<1>7. PipeTypeOK'
  BY <1>1, <1>2, <1>5 DEF PipeInv, PipeTypeOK, SetStage, intakeVars, gateVars
<1>8. Others(t)
  BY <1>2, <1>6 DEF Others, Calm, gateVars
<1>9. RunOK(t)' /\ RowOK(t)'
  BY <1>2, <1>3, <1>5, <1>6
     DEF PipeInv, RunOK, RowOK, Undecided, Settling, Recordings, gateVars, NONE
<1> QED BY <1>1, <1>2, <1>3, <1>4, <1>7, <1>8, <1>9, OneRun

LEMMA RulesReadKeep ==
  ASSUME PipeInv, NEW t \in Requests, ReadRules(t)
  PROVE  PipeInv'
<1>1. /\ pc[RunOf(t)] = "rules" /\ Goto(RunOf(t), "gate")
      /\ snapshot' = [snapshot EXCEPT ![t] = rules]
      /\ UNCHANGED <<intakeVars, rowVars, decided, pinned, minted, rules, inboxVars, faults, txState>>
  BY DEF ReadRules, Step, At, RunOf, inboxVars
<1>2. decided[t] = NONE /\ approval[t] = NONE /\ txState[t] = "ABSENT" /\ minted[t] = 0
  BY <1>1, BeforeGate DEF Undecided
<1>3. "gate" \in PipePCs
  BY DEF PipePCs, RunPCs
<1>4. pc' \in [Workers -> PipePCs] /\ pc'[RunOf(t)] = "gate"
  BY <1>1, <1>3, Moved, Ids DEF PipeInv
<1>5. rules \in 1 .. MaxRules /\ snapshot'[t] = rules
  BY <1>1 DEF PipeInv, PipeTypeOK
<1>6. PipeTypeOK'
  <2>1. snapshot' \in [Requests -> 0 .. MaxRules]
    BY <1>1, <1>5, PipelineAssumption DEF PipeInv, PipeTypeOK
  <2> QED BY <1>1, <1>4, <2>1 DEF PipeInv, PipeTypeOK, intakeVars, rowVars, inboxVars
<1>7. Others(t)
  BY <1>1 DEF Others, Calm, rowVars, inboxVars, PipeInv, PipeTypeOK
<1>8. rules # 0
  BY <1>5
<1>9. RunOK(t)' /\ RowOK(t)'
  BY <1>1, <1>2, <1>4, <1>5, <1>8
     DEF PipeInv, RunOK, RowOK, Undecided, Settling, Recordings, rowVars, inboxVars, NONE
<1>10. pc[RunOf(t)] # "idle"
  BY <1>1
<1> QED BY <1>1, <1>2, <1>3, <1>6, <1>7, <1>9, <1>10, OneRun

\* The gate decides under the rules the run has read, and pins them.
LEMMA GateKeeps ==
  ASSUME PipeInv, NEW t \in Requests, Gatekeeper(t)
  PROVE  PipeInv'
<1>1. PICK d \in {"APPROVE", "DECLINE", "ESCALATE"} : decided' = [decided EXCEPT ![t] = d]
  BY DEF Gatekeeper
<1>2. /\ pc[RunOf(t)] = "gate" /\ Goto(RunOf(t), "route")
      /\ SetStage(t, "GATE_CHECKING") /\ pinned' = [pinned EXCEPT ![t] = snapshot[t]]
      /\ UNCHANGED <<intakeVars, snapshot, minted, rules, inboxVars, faults, txState>>
  BY DEF Gatekeeper, Step, At, RunOf, inboxVars
<1>3. decided[t] = NONE /\ approval[t] = NONE /\ txState[t] = "ABSENT" /\ minted[t] = 0
  BY <1>2, BeforeGate DEF Undecided
<1>4. snapshot[t] # 0
  BY <1>2 DEF PipeInv, RunOK
<1>5. "route" \in PipePCs
  BY DEF PipePCs, RunPCs
<1>6. pc' \in [Workers -> PipePCs] /\ pc'[RunOf(t)] = "route"
  BY <1>2, <1>5, Moved, Ids DEF PipeInv
<1>7. /\ stage'[t] = "GATE_CHECKING" /\ outcome' = outcome
      /\ decided'[t] = d /\ pinned'[t] = snapshot[t]
  BY <1>1, <1>2 DEF SetStage, PipeInv, PipeTypeOK
<1>8. PipeTypeOK'
  <2>1. /\ decided' \in [Requests -> {NONE, "APPROVE", "DECLINE", "ESCALATE"}]
        /\ pinned' \in [Requests -> 0 .. MaxRules]
    BY <1>1, <1>2 DEF PipeInv, PipeTypeOK
  <2> QED BY <1>2, <1>6, <2>1 DEF PipeInv, PipeTypeOK, SetStage, intakeVars, inboxVars
<1>9. Others(t)
  BY <1>1, <1>2 DEF Others, Calm, SetStage, inboxVars, PipeInv, PipeTypeOK
<1>10. RunOK(t)' /\ RowOK(t)'
  <2>1. outcome[t] \notin {"APPROVED", "ESCALATED", "DECLINED"}
    BY <1>3 DEF PipeInv, RowOK, NONE
  <2> QED BY <1>2, <1>3, <1>4, <1>6, <1>7, <2>1
          DEF RunOK, RowOK, Undecided, Settling, Recordings, inboxVars, NONE
<1>11. pc[RunOf(t)] # "idle"
  BY <1>2
<1> QED BY <1>2, <1>3, <1>5, <1>8, <1>9, <1>10, <1>11, OneRun

\* The routes that mint a cart.
LEMMA MintsKeep ==
  ASSUME PipeInv, NEW t \in Requests, RouteApprove(t) \/ RouteEscalate(t)
  PROVE  PipeInv'
<1>1. PICK label \in {"settle", "shelve"}, a \in {NONE, "PENDING"} :
        /\ Goto(RunOf(t), label) /\ approval' = [approval EXCEPT ![t] = a]
        /\ \/ label = "settle" /\ a = NONE /\ decided[t] = "APPROVE"
           \/ label = "shelve" /\ a = "PENDING" /\ decided[t] = "ESCALATE"
  <2>1. CASE RouteApprove(t)
    <3>1. approval[t] = NONE
      BY <2>1 DEF PipeInv, RunOK, RouteApprove, Step, At, RunOf
    <3>2. approval' = [approval EXCEPT ![t] = NONE]
      BY <2>1, <3>1 DEF RouteApprove, PipeInv, PipeTypeOK
    <3> QED BY <2>1, <3>2 DEF RouteApprove, Step, RunOf
  <2>2. CASE RouteEscalate(t)
    BY <2>2 DEF RouteEscalate, Step, RunOf
  <2> QED BY <2>1, <2>2
<1>2. /\ pc[RunOf(t)] = "route" /\ minted' = [minted EXCEPT ![t] = snapshot[t]]
      /\ UNCHANGED <<intakeVars, rowVars, decided, snapshot, pinned, rules, lapsed, answer,
                     faults, txState>>
  BY DEF RouteApprove, RouteEscalate, Step, At, Mint, RunOf
<1>3. approval[t] = NONE /\ stage[t] # "ABSENT"
  BY <1>2 DEF PipeInv, RunOK
<1>4. decided[t] # NONE /\ snapshot[t] # 0 /\ pinned[t] = snapshot[t]
  BY <1>1 DEF PipeInv, RowOK, NONE
<1>5. label \in PipePCs
  BY DEF PipePCs, RunPCs
<1>6. pc' \in [Workers -> PipePCs] /\ pc'[RunOf(t)] = label
  BY <1>1, <1>5, Moved, Ids DEF PipeInv
<1>7. minted'[t] = snapshot[t] /\ approval'[t] = a
  BY <1>1, <1>2 DEF PipeInv, PipeTypeOK
<1>8. PipeTypeOK'
  <2>1. /\ minted' \in [Requests -> 0 .. MaxRules]
        /\ approval' \in [Requests -> {NONE, "PENDING", "APPROVED", "REJECTED", "SPENT"}]
    BY <1>1, <1>2 DEF PipeInv, PipeTypeOK
  <2> QED BY <1>2, <1>6, <2>1 DEF PipeInv, PipeTypeOK, intakeVars, rowVars
<1>9. Others(t)
  BY <1>1, <1>2 DEF Others, Calm, rowVars, PipeInv, PipeTypeOK
<1>10. RunOK(t)' /\ RowOK(t)'
  BY <1>1, <1>2, <1>3, <1>4, <1>6, <1>7
     DEF PipeInv, RunOK, RowOK, Undecided, Settling, Recordings, rowVars, NONE
<1>11. pc[RunOf(t)] # "idle" /\ (txState[t] = "ABSENT" \/ decided'[t] = "APPROVE")
  BY <1>1, <1>2, <1>3 DEF PipeInv, SettledWasDecided, NONE
<1> QED BY <1>1, <1>2, <1>3, <1>5, <1>8, <1>9, <1>10, <1>11, OneRun

----------------------------------------------------------------------------
(* Steps that disturb no row: a worker goes on, records or settles.        *)

LEMMA OneWorker ==
  ASSUME PipeInv, PipeTypeOK', NEW w \in Workers, NEW label \in PipePCs, Goto(w, label),
         w \in Runs => pc[w] # "idle", UNCHANGED intakeVars,
         \A t \in Requests : Calm(t),
         \A t \in Requests \ {TxOf(w)} : outcome'[t] = outcome[t],
         w \in Runs => RunOK(TxOf(w))', w \in Inbox => HandlerOK(w)',
         RowOK(TxOf(w))', SettledWasDecided'
  PROVE  PipeInv'
<1> USE DEF PipeInv
<1>1. pc'[w] = label /\ \A v \in Workers \ {w} : pc'[v] = pc[v]
  BY Moved
<1>2. KeysOK'
  <2>1. \A t \in Requests : Started(t)' => Started(t)
    BY <1>1, Ids DEF Calm, Started
  <2> QED BY <2>1, KeysKept
<1>3. ASSUME NEW t \in Requests PROVE RunOK(t)'
  <2>1. CASE w = RunOf(t)
    BY <2>1, Ids
  <2>2. CASE w # RunOf(t)
    <3>1. pc'[RunOf(t)] = pc[RunOf(t)]
      BY <1>1, <2>2, Ids
    <3> QED BY <3>1, RunKept
  <2> QED BY <2>1, <2>2
<1>4. ASSUME NEW v \in Inbox PROVE HandlerOK(v)'
  <2>1. CASE v = w
    BY <2>1
  <2>2. CASE v # w
    <3>1. pc'[v] = pc[v] /\ Calm(TxOf(v))
      BY <1>1, <2>2, Ids
    <3> QED BY <3>1, HandlerKept
  <2> QED BY <2>1, <2>2
<1>5. ASSUME NEW t \in Requests PROVE RowOK(t)'
  <2>1. CASE t = TxOf(w)
    BY <2>1
  <2>2. CASE t # TxOf(w)
    BY <2>2, RowKept
  <2> QED BY <2>1, <2>2
<1> QED BY <1>2, <1>3, <1>4, <1>5

LEMMA AllCalm ==
  ASSUME UNCHANGED <<gateVars, approval, txState>>,
         \A t \in Requests : stage[t] # "ABSENT" <=> stage'[t] # "ABSENT"
  PROVE  \A t \in Requests : Calm(t)
BY DEF Calm, gateVars, NONE

LEMMA StillDecided ==
  ASSUME PipeInv, \A t \in Requests : Calm(t), UNCHANGED txState
  PROVE  SettledWasDecided'
BY DecidedKept DEF PipeInv

\* A cart being settled was approved, by the gate or by the merchant.
LEMMA Permitted ==
  ASSUME PipeInv, NEW w \in Workers, pc[w] \in Settling, pc[w] # "FAILED"
  PROVE  LET t == TxOf(w) IN
         /\ t \in Requests /\ stage[t] # "ABSENT"
         /\ decided[t] = "APPROVE" \/ (decided[t] = "ESCALATE" /\ approval[t] = "SPENT")
<1>1. CASE w \in Runs
  BY <1>1, Ids DEF PipeInv, RunOK, Settling, Recordings
<1>2. CASE w \in Inbox
  BY <1>2, Ids DEF PipeInv, HandlerOK, RowOK, Settling, Recordings, NONE
<1> QED BY <1>1, <1>2 DEF Workers

LEMMA SettleInsertKeeps ==
  ASSUME PipeInv, NEW w \in Workers, SettleInsert(w)
  PROVE  PipeInv'
<1> DEFINE t == TxOf(w)
<1>1. t \in Requests
  BY Ids DEF Workers
<1>2. PICK label \in {"settling", "FAILED"} :
        /\ pc[w] = "settle" /\ Goto(w, label)
        /\ label = "settling" => txState' = [txState EXCEPT ![t] = "PROPOSAL_APPROVED"]
        /\ label = "FAILED" => txState' = txState
        /\ UNCHANGED <<intakeVars, rowVars, gateVars, rules, inboxVars, faults>>
  BY DEF SettleInsert, At
<1>3. label \in PipePCs
  BY DEF PipePCs, Recordings
<1>4. pc' \in [Workers -> PipePCs] /\ pc'[w] = label
  BY <1>2, <1>3, Moved DEF PipeInv
<1>5. /\ txState' \in [Requests -> TxStates \union {"ABSENT"}]
      /\ \A u \in Requests : txState[u] # "ABSENT" => txState'[u] # "ABSENT"
      /\ \A u \in Requests \ {t} : txState'[u] = txState[u]
      /\ label = "settling" => txState'[t] # "ABSENT"
  <2>1. txState \in [Requests -> TxStates \union {"ABSENT"}]
    BY DEF PipeInv, PipeTypeOK
  <2>2. CASE label = "settling"
    <3>1. txState' = [txState EXCEPT ![t] = "PROPOSAL_APPROVED"] /\ "PROPOSAL_APPROVED" \in TxStates
      BY <1>2, <2>2 DEF TxStates
    <3>2. txState' \in [Requests -> TxStates \union {"ABSENT"}]
      BY <2>1, <3>1
    <3> QED BY <1>1, <2>1, <3>1, <3>2
  <2>3. CASE label = "FAILED"
    BY <1>2, <2>1, <2>3
  <2> QED BY <2>2, <2>3
<1>6. PipeTypeOK'
  BY <1>2, <1>4, <1>5 DEF PipeInv, PipeTypeOK, intakeVars, rowVars, gateVars, inboxVars
<1>7. \A u \in Requests : Calm(u)
  BY <1>2, <1>5 DEF Calm, rowVars, gateVars, inboxVars
<1>8. SettledWasDecided'
  <2>1. decided[t] = "APPROVE" \/ (decided[t] = "ESCALATE" /\ approval[t] = "SPENT")
    BY <1>2, Permitted DEF Settling
  <2> QED BY <1>2, <1>5, <1>7, <2>1, DecidedKept DEF PipeInv, gateVars, inboxVars
<1>9. RowOK(t)'
  BY <1>1, <1>2, <1>7, RowKept DEF PipeInv, rowVars
<1>10. w \in Runs => RunOK(t)'
  <2> SUFFICES ASSUME w \in Runs PROVE RunOK(t)'
    OBVIOUS
  <2>1. w = RunOf(t)
    BY Ids
  <2> QED BY <1>1, <1>2, <1>4, <1>5, <2>1
          DEF PipeInv, RunOK, Undecided, Settling, Recordings, rowVars, gateVars, inboxVars
<1>11. w \in Inbox => HandlerOK(w)'
  BY <1>1, <1>2, <1>4, <1>5 DEF PipeInv, HandlerOK, inboxVars
<1> QED BY <1>2, <1>3, <1>6, <1>7, <1>8, <1>9, <1>10, <1>11, OneWorker DEF rowVars

LEMMA SettleEndsKeeps ==
  ASSUME PipeInv, NEW w \in Workers, SettleEnds(w)
  PROVE  PipeInv'
<1> DEFINE t == TxOf(w)
<1>1. t \in Requests
  BY Ids DEF Workers
<1>2. PICK label \in Recordings : Goto(w, label)
  BY DEF SettleEnds, Recordings
<1>3. /\ pc[w] = "settling"
      /\ UNCHANGED <<intakeVars, rowVars, gateVars, rules, inboxVars, faults, txState>>
  BY DEF SettleEnds, At
<1>4. label \in PipePCs
  BY DEF PipePCs
<1>5. pc' \in [Workers -> PipePCs] /\ pc'[w] = label
  BY <1>2, <1>4, Moved DEF PipeInv
<1>6. PipeTypeOK'
  BY <1>3, <1>5 DEF PipeInv, PipeTypeOK, intakeVars, rowVars, gateVars, inboxVars
<1>7. \A u \in Requests : Calm(u)
  BY <1>3, AllCalm DEF rowVars, inboxVars
<1>8. SettledWasDecided'
  BY <1>3, <1>7, StillDecided
<1>9. RowOK(t)'
  BY <1>1, <1>3, <1>7, RowKept DEF PipeInv, rowVars
<1>10. w \in Runs => RunOK(t)'
  <2> SUFFICES ASSUME w \in Runs PROVE RunOK(t)'
    OBVIOUS
  <2>1. w = RunOf(t)
    BY Ids
  <2> QED BY <1>1, <1>3, <1>5, <2>1
          DEF PipeInv, RunOK, Undecided, Settling, Recordings, rowVars, gateVars, inboxVars
<1>11. w \in Inbox => HandlerOK(w)'
  BY <1>1, <1>3, <1>5 DEF PipeInv, HandlerOK, inboxVars, Recordings
<1> QED BY <1>2, <1>3, <1>4, <1>6, <1>7, <1>8, <1>9, <1>10, <1>11, OneWorker DEF rowVars

\* Closing a run out touches the one row, and only one that waits for its outcome.
LEMMA ClosedOut ==
  ASSUME PipeTypeOK, NEW t \in Requests, CloseOut(t)
  PROVE  /\ \A u \in Requests : (stage[u] # "ABSENT" <=> stage'[u] # "ABSENT")
                              /\ outcome'[u] \in {outcome[u], "RETRY"}
         /\ \A u \in Requests \ {t} : stage'[u] = stage[u] /\ outcome'[u] = outcome[u]
         /\ stage' \in [Requests -> {"ABSENT", "PROPOSING", "BUILDING_EVIDENCE", "NEGOTIATING",
              "CITATION_AUDIT", "GATE_CHECKING", "AWAITING_HUMAN_APPROVAL", "SETTLING", "TERMINAL"}]
         /\ outcome' \in [Requests -> Recordings \union {NONE, "DECLINED", "ESCALATED"}]
<1>1. CASE stage[t] # "ABSENT" /\ outcome[t] = NONE
  <2>1. stage' = [stage EXCEPT ![t] = "TERMINAL"] /\ outcome' = [outcome EXCEPT ![t] = "RETRY"]
    BY <1>1 DEF CloseOut, DbUpdate
  <2> QED BY <1>1, <2>1 DEF PipeTypeOK, Recordings
<1>2. CASE ~(stage[t] # "ABSENT" /\ outcome[t] = NONE)
  <2>1. stage' = stage /\ outcome' = outcome
    BY <1>2 DEF CloseOut, rowVars
  <2> QED BY <2>1 DEF PipeTypeOK
<1> QED BY <1>1, <1>2

LEMMA RecordKeeps ==
  ASSUME PipeInv, NEW w \in Workers, RecordSettled(w)
  PROVE  PipeInv'
<1> DEFINE t == TxOf(w)
<1>1. t \in Requests
  BY Ids DEF Workers
<1>2. /\ pc[w] \in Recordings /\ Goto(w, "done") /\ DbUpdate(t, "SETTLING", pc[w])
      /\ UNCHANGED <<intakeVars, gateVars, rules, approval, lapsed, faults, txState>>
      /\ answer' \in [Inbox -> {0, 202, 409}]
  BY DEF RecordSettled, PipeInv, PipeTypeOK
<1>3. "done" \in PipePCs
  BY DEF PipePCs
<1>4. pc' \in [Workers -> PipePCs] /\ pc'[w] = "done"
  BY <1>2, <1>3, Moved DEF PipeInv
<1>5. stage[t] # "ABSENT"
  <2>1. CASE w \in Runs
    BY <1>2, <2>1, Ids DEF PipeInv, RunOK, Recordings
  <2>2. CASE w \in Inbox
    BY <1>2, <2>2, Ids DEF PipeInv, HandlerOK, RowOK, Recordings
  <2> QED BY <2>1, <2>2 DEF Workers
<1>6. /\ stage'[t] = "SETTLING" /\ outcome'[t] = pc[w]
      /\ \A u \in Requests \ {t} : stage'[u] = stage[u] /\ outcome'[u] = outcome[u]
  BY <1>1, <1>2 DEF DbUpdate, PipeInv, PipeTypeOK
<1>7. PipeTypeOK'
  <2>1. outcome' \in [Requests -> Recordings \union {NONE, "DECLINED", "ESCALATED"}]
    BY <1>2 DEF DbUpdate, PipeInv, PipeTypeOK
  <2> QED BY <1>2, <1>4, <2>1 DEF PipeInv, PipeTypeOK, DbUpdate, intakeVars, gateVars
<1>8. \A u \in Requests : Calm(u)
  BY <1>1, <1>2, <1>5, <1>6, AllCalm
<1>9. SettledWasDecided'
  BY <1>2, <1>8, StillDecided
<1>10. pc[w] = "APPROVED" => txState[t] # "ABSENT"
  BY <1>2, Permitted, Ids DEF PipeInv, RunOK, HandlerOK, Workers
<1>11. RowOK(t)'
  <2>1. RowOK(t)
    BY <1>1 DEF PipeInv
  <2>2. outcome'[t] \in {"FAILED", "RETRY"} => RowOK(t)'
    BY <1>1, <1>8, <2>1, RowKept
  <2>3. pc[w] = "APPROVED" => RowOK(t)'
    BY <1>1, <1>2, <1>6, <1>8, <1>10, <2>1 DEF RowOK, Calm, NONE
  <2> QED BY <1>2, <1>6, <2>2, <2>3 DEF Recordings
<1>12. w \in Runs => RunOK(t)'
  BY <1>1, <1>4, <1>8, RunKept, Ids DEF PipeInv
<1>13. w \in Inbox => HandlerOK(w)'
  BY <1>4, <1>8, HandlerKept, Ids DEF PipeInv
<1>14. w \in Runs => pc[w] # "idle"
  BY <1>2 DEF Recordings
<1> QED BY <1>2, <1>3, <1>6, <1>7, <1>8, <1>9, <1>11, <1>12, <1>13, <1>14, OneWorker

\* The run records what the gate or the inbox made of it, or gives up.
LEMMA RunRecordsKeep ==
  ASSUME PipeInv, NEW t \in Requests,
         RouteDecline(t) \/ AwaitApproval(t) \/ RecordEscalated(t) \/ FailRunNow(t)
  PROVE  PipeInv'
<1> DEFINE w == RunOf(t)
<1>1. w \in Runs /\ w \in Workers /\ w \notin Inbox /\ TxOf(w) = t
  BY Ids
<1>2. PICK label \in {"escalate", "done"} : Goto(w, label)
  BY DEF RouteDecline, AwaitApproval, RecordEscalated, FailRunNow, Step, RunOf
<1>3. /\ pc[w] \in {"route", "shelve", "escalate", "failing"}
      /\ label = "escalate" => pc[w] = "shelve"
      /\ UNCHANGED <<intakeVars, gateVars, rules, inboxVars, faults, txState>>
  <2>1. CASE RouteDecline(t)
    BY <1>1, <1>2, <2>1 DEF RouteDecline, Step, At, RunOf, Goto, inboxVars, PipeInv, PipeTypeOK
  <2>2. CASE AwaitApproval(t)
    BY <2>2 DEF AwaitApproval, Step, At, RunOf, inboxVars
  <2>3. CASE RecordEscalated(t)
    BY <1>1, <1>2, <2>3 DEF RecordEscalated, Step, At, RunOf, Goto, inboxVars, PipeInv, PipeTypeOK
  <2>4. CASE FailRunNow(t)
    BY <1>1, <1>2, <2>4 DEF FailRunNow, At, RunOf, Goto, inboxVars, PipeInv, PipeTypeOK
  <2> QED BY <2>1, <2>2, <2>3, <2>4
<1>4. label \in PipePCs
  BY DEF PipePCs, RunPCs
<1>5. pc' \in [Workers -> PipePCs] /\ pc'[w] = label
  BY <1>1, <1>2, <1>4, Moved DEF PipeInv
<1>6. /\ stage[t] # "ABSENT" <=> stage'[t] # "ABSENT"
      /\ \A u \in Requests \ {t} : stage'[u] = stage[u] /\ outcome'[u] = outcome[u]
      /\ \/ outcome'[t] \in {outcome[t], "RETRY"}
         \/ outcome'[t] = "DECLINED" /\ decided[t] = "DECLINE"
         \/ outcome'[t] = "ESCALATED" /\ approval[t] # NONE
      /\ stage' \in [Requests -> {"ABSENT", "PROPOSING", "BUILDING_EVIDENCE", "NEGOTIATING",
           "CITATION_AUDIT", "GATE_CHECKING", "AWAITING_HUMAN_APPROVAL", "SETTLING", "TERMINAL"}]
      /\ outcome' \in [Requests -> Recordings \union {NONE, "DECLINED", "ESCALATED"}]
  <2>1. RunOK(t) /\ PipeTypeOK
    BY DEF PipeInv
  <2>2. CASE RouteDecline(t)
    BY <2>1, <2>2 DEF RouteDecline, Step, At, RunOf, DbUpdate, RunOK, PipeTypeOK
  <2>3. CASE AwaitApproval(t)
    BY <2>1, <2>3 DEF AwaitApproval, Step, At, RunOf, SetStage, RunOK, PipeTypeOK
  <2>4. CASE RecordEscalated(t)
    BY <2>1, <2>4 DEF RecordEscalated, Step, At, RunOf, DbUpdate, RunOK, PipeTypeOK
  <2>5. CASE FailRunNow(t)
    BY <2>1, <2>5, ClosedOut DEF FailRunNow
  <2> QED BY <2>2, <2>3, <2>4, <2>5
<1>7. PipeTypeOK'
  BY <1>3, <1>5, <1>6 DEF PipeInv, PipeTypeOK, intakeVars, gateVars, inboxVars
<1>8. \A u \in Requests : Calm(u)
  BY <1>3, <1>6, AllCalm DEF inboxVars
<1>9. SettledWasDecided'
  BY <1>3, <1>8, StillDecided
<1>10. RowOK(t)'
  <2>1. RowOK(t) /\ Calm(t)
    BY <1>8 DEF PipeInv
  <2>2. outcome'[t] \in {outcome[t], "RETRY"} => RowOK(t)'
    BY <2>1, RowKept
  <2>3. outcome'[t] \in {"DECLINED", "ESCALATED"} /\ outcome'[t] # outcome[t] => RowOK(t)'
    BY <1>6, <2>1 DEF RowOK, Calm, NONE
  <2> QED BY <1>6, <2>2, <2>3
<1>11. RunOK(t)'
  <2>1. RunOK(t) /\ Calm(t)
    BY <1>8 DEF PipeInv
  <2>2. CASE label = "done"
    BY <1>5, <2>1, <2>2, RunKept
  <2>3. CASE label = "escalate"
    BY <1>3, <1>5, <2>1, <2>3 DEF RunOK, Calm, Undecided, Settling, Recordings
  <2> QED BY <2>2, <2>3
<1>12. pc[w] # "idle"
  BY <1>3
<1> QED BY <1>1, <1>2, <1>3, <1>4, <1>6, <1>7, <1>8, <1>9, <1>10, <1>11, <1>12, OneWorker

----------------------------------------------------------------------------
(* The approvals inbox, and what goes wrong.                               *)

\* The first resolution of an approval wins, and one approval is spent once.
LEMMA InboxKeeps ==
  ASSUME PipeInv, NEW w \in Inbox, PreRead(w) \/ InboxStep(w)
  PROVE  PipeInv'
<1> DEFINE t == TxOf(w)
<1>1. t \in Requests /\ w \in Workers /\ w \notin Runs
  BY Ids
<1>2. /\ UNCHANGED <<intakeVars, gateVars, rules, lapsed, faults, txState>>
      /\ approval[t] # NONE
  <2>1. approval[t] # NONE
    BY <1>1 DEF PreRead, InboxStep, Resolve, EnterSettling, ConsumeToken, DeclineByHuman, At,
                PipeInv, HandlerOK
  <2> QED BY <2>1 DEF PreRead, InboxStep, Resolve, EnterSettling, ConsumeToken, DeclineByHuman,
                      inboxVars
<1>3. PICK label \in PipePCs, a \in {approval[t], "APPROVED", "REJECTED", "SPENT"} :
        /\ Goto(w, label) /\ approval' = [approval EXCEPT ![t] = a]
        /\ a # approval[t] => approval[t] = "PENDING" \/ (approval[t] = "APPROVED" /\ a = "SPENT")
        /\ \/ label = pc[w] \/ label \in {"resolve", "enter", "consume", "FAILED", "done"}
           \/ label = "decline" /\ a = "REJECTED"
           \/ label = "settle" /\ a = "SPENT"
        /\ pc[w] \in {"idle", "done"} => label \in {pc[w], "resolve"}
  <2> USE <1>1 DEF PipeInv, PipeTypeOK
  <2>1. CASE PreRead(w)
    <3>1. pc[w] = "idle" /\ approval' = [approval EXCEPT ![t] = approval[t]]
      BY <2>1 DEF PreRead, At
    <3>2. \E label \in {"idle", "resolve"} : Goto(w, label)
      BY <2>1, <3>1 DEF PreRead, Goto
    <3> QED BY <3>1, <3>2 DEF PipePCs, InboxPCs
  <2>2. CASE Resolve(w)
    <3>1. CASE approval[t] = "PENDING" /\ ~(w[2] = "approve" /\ t \in lapsed)
      <4>1. /\ pc[w] = "resolve" /\ Goto(w, Resumes(w))
            /\ approval' = [approval EXCEPT ![t] = Verdict(w)]
        BY <2>2, <3>1 DEF Resolve, At
      <4> QED BY <3>1, <4>1 DEF Verdict, Resumes, PipePCs, InboxPCs
    <3>2. CASE ~(approval[t] = "PENDING" /\ ~(w[2] = "approve" /\ t \in lapsed))
      <4>1. pc[w] = "resolve" /\ Goto(w, "done") /\ approval' = [approval EXCEPT ![t] = approval[t]]
        BY <2>2, <3>2 DEF Resolve, At
      <4> QED BY <4>1 DEF PipePCs
    <3> QED BY <3>1, <3>2
  <2>3. CASE EnterSettling(w)
    <3>1. pc[w] = "enter" /\ Goto(w, "consume") /\ approval' = [approval EXCEPT ![t] = approval[t]]
      BY <2>3 DEF EnterSettling, At, inboxVars
    <3> QED BY <3>1 DEF PipePCs, InboxPCs
  <2>4. CASE ConsumeToken(w)
    <3>1. CASE approval[t] = "APPROVED"
      <4>1. pc[w] = "consume" /\ Goto(w, "settle") /\ approval' = [approval EXCEPT ![t] = "SPENT"]
        BY <2>4, <3>1 DEF ConsumeToken, At
      <4> QED BY <3>1, <4>1 DEF PipePCs
    <3>2. CASE approval[t] # "APPROVED"
      <4>1. pc[w] = "consume" /\ Goto(w, "FAILED") /\ approval' = [approval EXCEPT ![t] = approval[t]]
        BY <2>4, <3>2 DEF ConsumeToken, At
      <4> QED BY <4>1 DEF PipePCs, Recordings
    <3> QED BY <3>1, <3>2
  <2>5. CASE DeclineByHuman(w)
    <3>1. pc[w] = "decline" /\ Goto(w, "done") /\ approval' = [approval EXCEPT ![t] = approval[t]]
      BY <2>5 DEF DeclineByHuman, At
    <3> QED BY <3>1 DEF PipePCs
  <2> QED BY <2>1, <2>2, <2>3, <2>4, <2>5 DEF InboxStep
<1>4. stage[t] # "ABSENT"
  BY <1>1, <1>2 DEF PipeInv, RowOK
<1>5. /\ \A u \in Requests : stage[u] # "ABSENT" <=> stage'[u] # "ABSENT"
      /\ \A u \in Requests \ {t} : outcome'[u] = outcome[u]
      /\ outcome'[t] = outcome[t] \/ (outcome'[t] = "DECLINED" /\ approval[t] = "REJECTED")
      /\ stage' \in [Requests -> {"ABSENT", "PROPOSING", "BUILDING_EVIDENCE", "NEGOTIATING",
           "CITATION_AUDIT", "GATE_CHECKING", "AWAITING_HUMAN_APPROVAL", "SETTLING", "TERMINAL"}]
      /\ outcome' \in [Requests -> Recordings \union {NONE, "DECLINED", "ESCALATED"}]
      /\ answer' \in [Inbox -> {0, 202, 409}]
  <2>0. answer \in [Inbox -> {0, 202, 409}]
    BY DEF PipeInv, PipeTypeOK
  <2>1. PipeTypeOK
    BY DEF PipeInv
  <2>2. CASE PreRead(w)
    <3>1. UNCHANGED <<stage, outcome>> /\ answer' \in {answer, [answer EXCEPT ![w] = 409]}
      BY <2>2 DEF PreRead, rowVars
    <3>2. answer' \in [Inbox -> {0, 202, 409}]
      BY <2>0, <3>1
    <3> QED BY <2>1, <3>1, <3>2 DEF PipeTypeOK
  <2>3. CASE Resolve(w)
    <3>1. /\ UNCHANGED <<stage, outcome>>
          /\ answer' = answer \/ \E n \in {202, 409} : answer' = [answer EXCEPT ![w] = n]
      BY <2>3 DEF Resolve, rowVars
    <3>2. answer' \in [Inbox -> {0, 202, 409}]
      BY <2>0, <3>1
    <3> QED BY <2>1, <3>1, <3>2 DEF PipeTypeOK
  <2>4. CASE EnterSettling(w)
    BY <1>1, <1>4, <2>1, <2>4 DEF EnterSettling, SetStage, inboxVars, PipeTypeOK
  <2>5. CASE ConsumeToken(w)
    BY <2>1, <2>5 DEF ConsumeToken, rowVars, PipeTypeOK
  <2>6. CASE DeclineByHuman(w)
    <3>1. pc[w] = "decline" => approval[t] = "REJECTED"
      BY DEF PipeInv, HandlerOK
    <3> QED BY <1>1, <1>4, <2>1, <2>6, <3>1 DEF DeclineByHuman, At, DbUpdate, PipeTypeOK
  <2> QED BY <2>2, <2>3, <2>4, <2>5, <2>6 DEF InboxStep
<1>6. pc' \in [Workers -> PipePCs] /\ pc'[w] = label
  BY <1>1, <1>3, Moved DEF PipeInv
<1>7. /\ approval' \in [Requests -> {NONE, "PENDING", "APPROVED", "REJECTED", "SPENT"}]
      /\ approval'[t] = a /\ \A u \in Requests \ {t} : approval'[u] = approval[u]
  BY <1>1, <1>3 DEF PipeInv, PipeTypeOK
<1>8. PipeTypeOK'
  BY <1>2, <1>5, <1>6, <1>7 DEF PipeInv, PipeTypeOK, intakeVars, gateVars
<1>9. \A u \in Requests : Calm(u)
  BY <1>2, <1>3, <1>5, <1>7 DEF Calm, gateVars, NONE
<1>10. SettledWasDecided'
  BY <1>2, <1>9, StillDecided
<1>11. RowOK(t)'
  <2>1. RowOK(t) /\ Calm(t)
    BY <1>1, <1>9 DEF PipeInv
  <2>2. outcome'[t] = outcome[t] => RowOK(t)'
    BY <1>1, <2>1, RowKept
  <2>3. outcome'[t] = "DECLINED" /\ approval[t] = "REJECTED" => RowOK(t)'
    BY <1>1, <2>1 DEF RowOK, Calm, NONE
  <2> QED BY <1>5, <2>2, <2>3
<1>12. HandlerOK(w)'
  <2>1. HandlerOK(w) /\ Calm(t)
    BY <1>1, <1>9 DEF PipeInv
  <2>2. CASE label = pc[w] \/ label = "done"
    BY <1>6, <2>1, <2>2, HandlerKept
  <2>3. CASE label # pc[w] /\ label # "done"
    <3>1. label \notin {"settling", "APPROVED", "RETRY"}
      BY <1>3, <2>3
    <3>2. /\ label = "settle" => approval'[t] = "SPENT"
          /\ label = "decline" => approval'[t] = "REJECTED"
      BY <1>3, <1>7, <2>3
    <3> QED BY <1>2, <1>6, <2>1, <3>1, <3>2 DEF HandlerOK, Calm
  <2> QED BY <2>2, <2>3
<1> QED BY <1>1, <1>2, <1>3, <1>5, <1>8, <1>9, <1>10, <1>11, <1>12, OneWorker

LEMMA ThrowKeeps ==
  ASSUME PipeInv, NEW w \in Workers, Throws(w)
  PROVE  PipeInv'
<1> DEFINE t == TxOf(w)
<1>1. t \in Requests
  BY Ids DEF Workers
<1>2. PICK label \in {"failing", "done"} : Goto(w, label) /\ (label = "failing" => w \in Runs)
  BY DEF Throws
<1>3. /\ pc[w] # "idle"
      /\ UNCHANGED <<intakeVars, rowVars, gateVars, rules, approval, lapsed, txState>>
      /\ answer' \in [Inbox -> {0, 202, 409}] /\ faults' \in 0 .. MaxFaults
  <2>1. faults' \in 0 .. MaxFaults
    BY PipelineAssumption DEF Throws, FaultHappens, PipeInv, PipeTypeOK
  <2> QED BY <2>1 DEF Throws, Live, PipeInv, PipeTypeOK
<1>4. label \in PipePCs
  BY DEF PipePCs, RunPCs
<1>5. pc' \in [Workers -> PipePCs] /\ pc'[w] = label
  BY <1>2, <1>4, Moved DEF PipeInv
<1>6. PipeTypeOK'
  BY <1>3, <1>5 DEF PipeInv, PipeTypeOK, intakeVars, rowVars, gateVars
<1>7. \A u \in Requests : Calm(u)
  BY <1>3, AllCalm DEF rowVars
<1>8. SettledWasDecided'
  BY <1>3, <1>7, StillDecided
<1>9. RowOK(t)'
  BY <1>1, <1>3, <1>7, RowKept DEF PipeInv, rowVars
<1>10. w \in Runs => RunOK(t)'
  BY <1>1, <1>5, <1>7, RunKept, Ids DEF PipeInv
<1>11. w \in Inbox => HandlerOK(w)'
  BY <1>2, <1>5, <1>7, HandlerKept, Ids DEF PipeInv
<1> QED BY <1>2, <1>3, <1>4, <1>6, <1>7, <1>8, <1>9, <1>10, <1>11, OneWorker DEF rowVars

\* The process dies: every run and handler at work is over.
LEMMA CrashKeeps ==
  ASSUME PipeInv, Crash
  PROVE  PipeInv'
<1>1. UNCHANGED <<intakeVars, rowVars, gateVars, rules, inboxVars, txState>>
  BY DEF Crash
<1>2. /\ pc' \in [Workers -> PipePCs]
      /\ \A w \in Workers : pc'[w] = pc[w] \/ (pc'[w] = "done" /\ pc[w] # "idle")
  BY DEF Crash, Live, PipeInv, PipeTypeOK, PipePCs
<1>3. faults' \in 0 .. MaxFaults
  BY PipelineAssumption DEF Crash, FaultHappens, PipeInv, PipeTypeOK
<1>4. PipeTypeOK'
  BY <1>1, <1>2, <1>3 DEF PipeInv, PipeTypeOK, intakeVars, rowVars, gateVars, inboxVars
<1>5. \A t \in Requests : Calm(t)
  BY <1>1, AllCalm DEF rowVars, inboxVars
<1>6. KeysOK'
  <2>1. \A t \in Requests : Started(t)' => Started(t)
    BY <1>1, <1>2, Ids DEF Started, rowVars
  <2> QED BY <1>1, <2>1, KeysKept DEF PipeInv
<1>7. ASSUME NEW t \in Requests PROVE RunOK(t)'
  <2>1. pc'[RunOf(t)] = pc[RunOf(t)] \/ pc'[RunOf(t)] = "done"
    BY <1>2, Ids
  <2> QED BY <1>5, <2>1, RunKept DEF PipeInv
<1>8. ASSUME NEW w \in Inbox PROVE HandlerOK(w)'
  BY <1>2, <1>5, HandlerKept, Ids DEF PipeInv
<1>9. ASSUME NEW t \in Requests PROVE RowOK(t)'
  BY <1>1, <1>5, RowKept DEF PipeInv, rowVars
<1>10. SettledWasDecided'
  BY <1>1, <1>5, StillDecided
<1> QED BY <1>4, <1>6, <1>7, <1>8, <1>9, <1>10 DEF PipeInv

\* The clock, the merchant, the sweep and whoever moves a transaction: no run
\* or handler moves, and no row loses what others rely on.
LEMMA Elsewhere ==
  ASSUME PipeInv, PipeTypeOK', UNCHANGED <<intakeVars, gateVars, approval, pc>>,
         \A t \in Requests : /\ stage[t] # "ABSENT" <=> stage'[t] # "ABSENT"
                             /\ txState[t] # "ABSENT" <=> txState'[t] # "ABSENT"
                             /\ outcome'[t] \in {outcome[t], "RETRY"}
  PROVE  PipeInv'
<1>1. \A t \in Requests : Calm(t)
  BY DEF Calm, gateVars, NONE
<1>2. KeysOK'
  BY KeysKept DEF PipeInv, Started
<1>3. ASSUME NEW t \in Requests PROVE RunOK(t)' /\ RowOK(t)'
  BY <1>1, RunKept, RowKept DEF PipeInv
<1>4. ASSUME NEW w \in Inbox PROVE HandlerOK(w)'
  BY <1>1, HandlerKept, Ids DEF PipeInv
<1>5. SettledWasDecided'
  BY <1>1, DecidedKept DEF PipeInv
<1> QED BY <1>2, <1>3, <1>4, <1>5 DEF PipeInv

LEMMA TransactionMoveKeeps ==
  ASSUME PipeInv, NEW t \in Requests, TransactionMoves(t)
  PROVE  PipeInv'
<1>1. PICK s \in Successors(txState[t]) : CasTransition(t, txState[t], s)
  BY DEF TransactionMoves
<1>2. s \in TxStates /\ txState[t] # "ABSENT"
  BY <1>1 DEF Successors, TxStates
<1>3. txState' = txState \/ txState' = [txState EXCEPT ![t] = s]
  BY <1>1 DEF CasTransition
<1>4. "ABSENT" \notin TxStates
  BY DEF TxStates
<1>5. /\ txState' \in [Requests -> TxStates \union {"ABSENT"}]
      /\ \A u \in Requests : txState[u] # "ABSENT" <=> txState'[u] # "ABSENT"
  <2>1. txState \in [Requests -> TxStates \union {"ABSENT"}]
    BY DEF PipeInv, PipeTypeOK
  <2>2. s # "ABSENT"
    BY <1>2, <1>4
  <2> QED BY <1>2, <1>3, <2>1, <2>2
<1>6. UNCHANGED <<intakeVars, rowVars, gateVars, rules, inboxVars, pc, faults>>
  BY DEF TransactionMoves
<1>7. PipeTypeOK'
  BY <1>5, <1>6 DEF PipeInv, PipeTypeOK, intakeVars, rowVars, gateVars, inboxVars
<1> QED BY <1>5, <1>6, <1>7, Elsewhere DEF rowVars, inboxVars

LEMMA BackgroundKeeps ==
  ASSUME PipeInv, PutRules \/ \E t \in Requests : ApprovalLapses(t) \/ StallSweep(t)
  PROVE  PipeInv'
<1>1. CASE PutRules
  <2>1. rules' \in 1 .. MaxRules
    BY <1>1, PipelineAssumption DEF PutRules, PipeInv, PipeTypeOK
  <2>2. UNCHANGED <<intakeVars, rowVars, gateVars, inboxVars, pc, faults, txState>>
    BY <1>1 DEF PutRules
  <2>3. PipeTypeOK'
    BY <2>1, <2>2 DEF PipeInv, PipeTypeOK, intakeVars, rowVars, gateVars, inboxVars
  <2> QED BY <2>2, <2>3, Elsewhere DEF rowVars, inboxVars
<1>2. ASSUME NEW t \in Requests, ApprovalLapses(t) PROVE PipeInv'
  <2>1. /\ lapsed' \subseteq Requests
        /\ UNCHANGED <<intakeVars, rowVars, gateVars, rules, approval, answer, pc, faults, txState>>
    BY <1>2 DEF ApprovalLapses, PipeInv, PipeTypeOK
  <2>2. PipeTypeOK'
    BY <2>1 DEF PipeInv, PipeTypeOK, intakeVars, rowVars, gateVars
  <2> QED BY <2>1, <2>2, Elsewhere DEF rowVars
<1>3. ASSUME NEW t \in Requests, StallSweep(t) PROVE PipeInv'
  <2>1. CloseOut(t) /\ UNCHANGED <<intakeVars, gateVars, rules, inboxVars, pc, faults, txState>>
    BY <1>3 DEF StallSweep
  <2>2. PipeTypeOK'
    BY <2>1, ClosedOut DEF PipeInv, PipeTypeOK, intakeVars, gateVars, inboxVars
  <2>3. \A u \in Requests : /\ stage[u] # "ABSENT" <=> stage'[u] # "ABSENT"
                            /\ outcome'[u] \in {outcome[u], "RETRY"}
    BY <2>1, ClosedOut DEF PipeInv
  <2> QED BY <2>1, <2>2, <2>3, Elsewhere DEF inboxVars
<1> QED BY <1>1, <1>2, <1>3

----------------------------------------------------------------------------
(* The intake.                                                             *)

\* A request that arrives holds no claim yet, and a key that is claimed is
\* claimed by a request that came before.
LEMMA Arriving ==
  ASSUME PipeInv, NEW r \in Requests, asked[r] = <<>>
  PROVE  /\ ~Started(r) /\ \A k \in Keys : claim[k] # r
         /\ \A q \in Requests : reply[q] # r
         /\ decided[r] = NONE
<1>1. r # NoTx
  BY PipelineAssumption
<1>2. ~Started(r) /\ \A k \in Keys : claim[k] # r
  BY <1>1 DEF PipeInv, KeysOK
<1>3. \A q \in Requests : reply[q] # r
  BY DEF PipeInv, KeysOK
<1>4. decided[r] = NONE
  BY <1>2 DEF Started, PipeInv, RunOK, Undecided
<1> QED BY <1>2, <1>3, <1>4

LEMMA PostKeeps ==
  ASSUME PipeInv, NEW r \in Requests, NEW k \in Keys, NEW b \in Bodies, Post(r, k, b)
  PROVE  PipeInv'
<1> DEFINE t == IF claim[k] = NoTx THEN r ELSE claim[k]
<1>1. /\ asked[r] = <<>> /\ asked' = [asked EXCEPT ![r] = <<k, b>>]
      /\ claim' = [claim EXCEPT ![k] = t]
      /\ t = r => Goto(RunOf(r), "insert")
      /\ t # r => UNCHANGED pc
      /\ reply' = [reply EXCEPT ![r] = IF t # r /\ asked[t] # <<k, b>> THEN "CONFLICT" ELSE t]
      /\ UNCHANGED <<rowVars, gateVars, rules, inboxVars, faults, txState>>
  BY DEF Post, RunOf
<1>2. /\ claim \in [Keys -> Requests \union {NoTx}]
      /\ asked \in [Requests -> (Keys \X Bodies) \union {<<>>}]
      /\ reply \in [Requests -> Requests \union {NONE, "CONFLICT"}]
  BY DEF PipeInv, PipeTypeOK
<1>3. t \in Requests /\ (t = r <=> claim[k] = NoTx)
  BY <1>1, <1>2, Arriving
<1>4. <<k, b>> # <<>> /\ <<k, b>>[1] = k /\ <<k, b>> \in Keys \X Bodies
  OBVIOUS
<1>5. /\ claim' \in [Keys -> Requests \union {NoTx}] /\ claim'[k] = t
      /\ asked' \in [Requests -> (Keys \X Bodies) \union {<<>>}] /\ asked'[r] = <<k, b>>
      /\ reply' \in [Requests -> Requests \union {NONE, "CONFLICT"}]
      /\ \A j \in Keys \ {k} : claim'[j] = claim[j]
      /\ \A q \in Requests \ {r} : asked'[q] = asked[q] /\ reply'[q] = reply[q]
      /\ reply'[r] = t \/ reply'[r] = "CONFLICT"
      /\ reply'[r] = t => t = r \/ asked[t] = <<k, b>>
  <2> HIDE DEF t
  <2>1. t # "CONFLICT"
    BY <1>3, PipelineAssumption
  <2> QED BY <1>1, <1>2, <1>3, <1>4, <2>1
<1>6. "insert" \in PipePCs
  BY DEF PipePCs, RunPCs
<1>7. /\ pc' \in [Workers -> PipePCs]
      /\ \A w \in Workers : pc'[w] = pc[w] \/ (w = RunOf(r) /\ t = r /\ pc'[w] = "insert")
  <2>1. CASE t = r
    BY <1>1, <1>6, <2>1, Moved, Ids DEF PipeInv
  <2>2. CASE t # r
    BY <1>1, <2>2 DEF PipeInv, PipeTypeOK
  <2> QED BY <2>1, <2>2
<1>8. PipeTypeOK'
  BY <1>1, <1>5, <1>7 DEF PipeInv, PipeTypeOK, rowVars, gateVars, inboxVars
<1>9. KeysOK'
  <2> HIDE DEF t
  <2>1. ASSUME NEW j \in Keys, claim'[j] # NoTx
        PROVE  asked'[claim'[j]] # <<>> /\ asked'[claim'[j]][1] = j
    <3>1. CASE j = k /\ t = r
      BY <1>4, <1>5, <3>1
    <3>2. CASE j = k /\ t # r
      BY <1>1, <1>2, <1>3, <1>5, <3>2 DEF t, PipeInv, KeysOK
    <3>3. CASE j # k
      BY <1>1, <1>2, <1>5, <2>1, <3>3, Arriving DEF PipeInv, KeysOK
    <3> QED BY <3>1, <3>2, <3>3
  <2>2. ASSUME NEW q \in Requests, reply'[q] \in Requests
        PROVE  asked'[q] # <<>> /\ asked'[reply'[q]] = asked'[q]
    <3>1. CASE q = r
      <4>1. reply'[r] = t
        BY <1>5, <2>2, <3>1, PipelineAssumption
      <4> QED BY <1>3, <1>4, <1>5, <3>1, <4>1
    <3>2. CASE q # r
      BY <1>1, <1>5, <2>2, <3>2, Arriving DEF PipeInv, KeysOK
    <3> QED BY <3>1, <3>2
  <2>3. ASSUME NEW u \in Requests, Started(u)'
        PROVE  asked'[u] # <<>> /\ claim'[asked'[u][1]] = u
    <3>1. CASE u = r
      <4>1. t = r
        BY <1>1, <1>7, <2>3, <3>1, Arriving, Ids DEF Started, rowVars
      <4> QED BY <1>4, <1>5, <3>1, <4>1
    <3>2. CASE u # r
      <4>1. Started(u)
        BY <1>1, <1>7, <2>3, <3>2, Ids DEF Started, rowVars
      <4>2. asked[u] # <<>> /\ claim[asked[u][1]] = u /\ asked[u][1] \in Keys
        BY <1>2, <4>1 DEF PipeInv, KeysOK
      <4>3. asked[u][1] = k => t = u
        BY <4>2, PipelineAssumption DEF t
      <4> QED BY <1>5, <3>2, <4>2, <4>3
    <3> QED BY <3>1, <3>2
  <2> QED BY <2>1, <2>2, <2>3 DEF KeysOK
<1>10. \A u \in Requests : Calm(u)
  BY <1>1, AllCalm DEF rowVars, inboxVars
<1>11. ASSUME NEW u \in Requests PROVE RunOK(u)'
  <2>1. CASE pc'[RunOf(u)] = pc[RunOf(u)]
    BY <1>10, <2>1, RunKept DEF PipeInv
  <2>2. CASE pc'[RunOf(u)] # pc[RunOf(u)]
    <3>1. u = r /\ pc'[RunOf(u)] = "insert"
      BY <1>7, <2>2, Ids
    <3>2. decided'[u] = NONE
      BY <1>1, <3>1, Arriving DEF gateVars
    <3> QED BY <3>1, <3>2 DEF RunOK, Settling, Recordings
  <2> QED BY <2>1, <2>2
<1>12. ASSUME NEW w \in Inbox PROVE HandlerOK(w)'
  BY <1>7, <1>10, HandlerKept, Ids DEF PipeInv
<1>13. ASSUME NEW u \in Requests PROVE RowOK(u)'
  BY <1>1, <1>10, RowKept DEF PipeInv, rowVars
<1>14. SettledWasDecided'
  BY <1>1, <1>10, StillDecided
<1> QED BY <1>8, <1>9, <1>11, <1>12, <1>13, <1>14 DEF PipeInv

----------------------------------------------------------------------------
(* The theorems.                                                           *)

LEMMA PipeStarts ==
  ASSUME PipeInit
  PROVE  PipeInv
<1>1. PipeTypeOK
  BY PipelineAssumption DEF PipeInit, PipeTypeOK, PipePCs, Recordings, NONE
<1>2. \A t \in Requests : pc[RunOf(t)] = "idle" /\ stage[t] = "ABSENT" /\ decided[t] = NONE
                          /\ minted[t] = 0 /\ approval[t] = NONE /\ outcome[t] = NONE
                          /\ txState[t] = "ABSENT" /\ reply[t] = NONE
  BY Ids DEF PipeInit
<1>3. KeysOK
  <2>1. \A k \in Keys : claim[k] = NoTx
    BY DEF PipeInit
  <2>2. \A t \in Requests : ~Started(t)
    BY <1>2 DEF Started
  <2> QED BY <1>2, <2>1, <2>2, PipelineAssumption DEF KeysOK, NONE
<1>4. \A t \in Requests : RunOK(t) /\ RowOK(t)
  BY <1>2 DEF RunOK, RowOK, Undecided, Settling, Recordings, NONE
<1>5. \A w \in Inbox : HandlerOK(w)
  BY Ids DEF PipeInit, HandlerOK
<1>6. SettledWasDecided
  BY <1>2 DEF SettledWasDecided
<1> QED BY <1>1, <1>3, <1>4, <1>5, <1>6 DEF PipeInv

\* Every step of the intake, a run, the inbox, the sweeps, the clock and a
\* crash preserves the invariant.
LEMMA StepKeepsPipe ==
  ASSUME PipeInv, [PipeNext]_pipeVars
  PROVE  PipeInv'
<1>1. ASSUME NEW r \in Requests, NEW k \in Keys, NEW b \in Bodies, Post(r, k, b) PROVE PipeInv'
  BY <1>1, PostKeeps
<1>2. ASSUME NEW t \in Requests, RunStep(t) PROVE PipeInv'
  BY <1>2, StagesKeep, RulesReadKeep, GateKeeps, MintsKeep, RunRecordsKeep DEF RunStep
<1>3. ASSUME NEW t \in Requests, TransactionMoves(t) \/ ApprovalLapses(t) \/ StallSweep(t)
      PROVE  PipeInv'
  BY <1>3, TransactionMoveKeeps, BackgroundKeeps
<1>4. ASSUME NEW w \in Workers, SettleStep(w) \/ Throws(w) PROVE PipeInv'
  BY <1>4, SettleInsertKeeps, SettleEndsKeeps, RecordKeeps, ThrowKeeps DEF SettleStep
<1>5. ASSUME NEW w \in Inbox, PreRead(w) \/ InboxStep(w) PROVE PipeInv'
  BY <1>5, InboxKeeps
<1>6. CASE PutRules
  BY <1>6, BackgroundKeeps
<1>7. CASE Crash
  BY <1>7, CrashKeeps
<1>8. CASE UNCHANGED pipeVars
  <2>1. PipeTypeOK' /\ UNCHANGED <<intakeVars, rowVars, gateVars, approval, pc, txState>>
    BY <1>8 DEF pipeVars, intakeVars, rowVars, gateVars, inboxVars, PipeInv, PipeTypeOK
  <2> QED BY <2>1, Elsewhere DEF rowVars
<1> QED BY <1>1, <1>2, <1>3, <1>4, <1>5, <1>6, <1>7, <1>8 DEF PipeNext

\* The inductive invariant of the pipeline, for any requests, keys, bodies,
\* versions of the rules and faults.
THEOREM PipelineIsSound == PipeSpec => []PipeInv
<1>1. PipeInit => PipeInv
  BY PipeStarts
<1>2. PipeInv /\ [PipeNext]_pipeVars => PipeInv'
  BY StepKeepsPipe
<1> QED BY <1>1, <1>2, PTL DEF PipeSpec

\* Every variable of the pipeline stays within its type, counters included.
THEOREM PipelineTypes == PipeSpec => []PipeTypeOK
BY PipelineIsSound, PTL DEF PipeInv

\* An idempotency key and its retries start at most one run, and a retry is
\* told the transaction of a request that asked for the same thing.
THEOREM KeysAreHonoured == PipeSpec => []KeyNamesOneRun
<1>1. PipeInv => KeyNamesOneRun
  <2> SUFFICES ASSUME PipeInv PROVE KeyNamesOneRun
    OBVIOUS
  <2>1. ASSUME NEW t \in Requests, NEW u \in Requests, stage[t] # "ABSENT", stage[u] # "ABSENT",
               asked[t][1] = asked[u][1]
        PROVE  t = u
    BY <2>1 DEF PipeInv, KeysOK, Started
  <2> QED BY <2>1 DEF PipeInv, KeysOK, KeyNamesOneRun
<1> QED BY <1>1, PipelineIsSound, PTL

\* No transaction exists that neither the gate nor a merchant approved.
THEOREM DecisionsComeFirst == PipeSpec => []SettledWasDecided
BY PipelineIsSound, PTL DEF PipeInv

\* What a poll shows of a run did happen, under the rules it shows.
THEOREM PollsAreTrue == PipeSpec => []OutcomeIsTrue
<1>1. PipeInv => OutcomeIsTrue
  <2> SUFFICES ASSUME PipeInv, NEW t \in Requests
               PROVE  LET told == Poll(t) IN
                      /\ told.status # "500"
                      /\ outcome[t] = "APPROVED" => told.status = "APPROVED"
                      /\ told.status = "DECLINED" =>
                           txState[t] = "ABSENT" /\ approval[t] \in {NONE, "REJECTED"}
                      /\ told.status \in {"APPROVED", "DECLINED", "ESCALATED"} =>
                           told.under = snapshot[t]
                      /\ minted[t] # 0 => minted[t] = pinned[t] /\ pinned[t] = snapshot[t]
    BY DEF OutcomeIsTrue
  <2>1. RowOK(t)
    BY DEF PipeInv
  <2>2. outcome[t] \in {"APPROVED", "DECLINED", "ESCALATED"} => VersionApplied(t) = snapshot[t]
    BY <2>1 DEF RowOK, VersionApplied, PipeInv, SettledWasDecided, NONE
  <2>3. minted[t] # 0 => minted[t] = pinned[t] /\ pinned[t] = snapshot[t]
    BY <2>1 DEF RowOK
  <2>4. CASE outcome[t] = NONE
    <3>1. stage[t] \notin {"500", "APPROVED", "DECLINED", "ESCALATED"}
      <4>1. stage \in [Requests -> {"ABSENT", "PROPOSING", "BUILDING_EVIDENCE", "NEGOTIATING",
              "CITATION_AUDIT", "GATE_CHECKING", "AWAITING_HUMAN_APPROVAL", "SETTLING", "TERMINAL"}]
        BY DEF PipeInv, PipeTypeOK
      <4> QED BY <4>1
    <3> QED BY <2>3, <2>4, <3>1 DEF Poll, Pending, NONE
  <2>5. CASE outcome[t] = "APPROVED"
    BY <2>1, <2>2, <2>3, <2>5 DEF Poll, Told, RowOK, NONE
  <2>6. CASE outcome[t] = "ESCALATED"
    BY <2>1, <2>2, <2>3, <2>6 DEF Poll, ApprovalRequest, Told, RowOK, NONE
  <2>7. CASE outcome[t] = "DECLINED"
    <3>1. txState[t] = "ABSENT" /\ approval[t] \in {NONE, "REJECTED"}
      BY <2>1, <2>7 DEF RowOK, PipeInv, SettledWasDecided, NONE
    <3> QED BY <2>2, <2>3, <2>7, <3>1 DEF Poll, Told, NONE
  <2>8. CASE outcome[t] \in {"RETRY", "FAILED"}
    BY <2>3, <2>8 DEF Poll, Told, NONE
  <2> QED BY <2>4, <2>5, <2>6, <2>7, <2>8 DEF PipeInv, PipeTypeOK, Recordings
<1> QED BY <1>1, PipelineIsSound, PTL
=============================================================================
