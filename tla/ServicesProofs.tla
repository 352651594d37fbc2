---------------------------- MODULE ServicesProofs ----------------------------
(***************************************************************************)
(* The services around settlement, for any constants: one execution under  *)
(* a key unless Redis lost the lease, replays that tell the truth, rules   *)
(* of which no update is lost and no stale copy is served for long, doors  *)
(* that admit no more than their budgets, and, with EventStreamProofs, the *)
(* audit log and its streams.                                              *)
(*                                                                         *)
(* The specification is the one the run checks: each service takes its own *)
(* steps, and the proofs are one invariant per service, two for the last.  *)
(***************************************************************************)
EXTENDS MCServices, EventStreamProofs

----------------------------------------------------------------------------
(* The idempotency gate.                                                   *)

Entries == [body : Proposals, phase : {"IN_FLIGHT", "DONE"}, by : Calls \union {Nothing}]
Answers ==
  {<<>>, <<"503 STORE_UNAVAILABLE">>, <<"422">>, <<"409 IN_FLIGHT">>, <<"400">>,
   <<"settle error">>, <<"201">>} \union {Replay(d) : d \in Calls}

IdemTypeOK ==
  /\ lease \in [IdemKeys -> Entries \union {Nothing}]
  /\ twin \in [IdemKeys -> Entries \union {Nothing}]
  /\ sent \in [Calls -> (IdemKeys \X Proposals) \union {Nothing}]
  /\ at \in [Calls -> {"new", "acquire", "peek", "done"} \union Holding]
  /\ got \in [Calls -> Answers]
  /\ lost \subseteq IdemKeys /\ worked \subseteq Calls

\* Who names a finished call tells its key and body, and that it succeeded.
Vouched(k, e) == e.by \in Calls /\ sent[e.by] = <<k, e.body>> /\ Succeeded(e.by)

\* The inductive invariant of the gate.  A call that holds a key Redis has not
\* lost has the lease, in flight; what a replay is read from names a success.
IdemInv ==
  /\ IdemTypeOK
  /\ \A c \in Calls : at[c] # "new" => sent[c] \in IdemKeys \X Proposals
  /\ \A c \in Calls : got[c] # <<>> => at[c] = "done"
  /\ \A c \in Calls : at[c] \in Holding /\ KeyOf(c) \notin lost =>
       lease[KeyOf(c)] # Nothing /\ lease[KeyOf(c)].phase = "IN_FLIGHT"
  /\ ExecutionsExclusive
  /\ \A c \in worked : at[c] # "new"
  /\ \A c \in Calls : at[c] \in {"savePg", "finalize"} => c \in worked
  /\ \A k \in IdemKeys : lease[k] # Nothing /\ lease[k].phase = "DONE" => Vouched(k, lease[k])
  /\ \A k \in IdemKeys : twin[k] # Nothing => Vouched(k, twin[k])
  /\ ReplayIsTrue

LEMMA EntryMade ==
  ASSUME NEW b \in Proposals, NEW phase \in {"IN_FLIGHT", "DONE"}, NEW c \in Calls \union {Nothing}
  PROVE  /\ Entry(b, phase, c) \in Entries /\ Entry(b, phase, c) # Nothing
         /\ Entry(b, phase, c).body = b /\ Entry(b, phase, c).phase = phase
         /\ Entry(b, phase, c).by = c
BY IdemAssumption DEF Entry, Entries

LEMMA ReplaysDiffer ==
  /\ \A c, d \in Calls : Replay(c) = Replay(d) => c = d
  /\ \A d \in Calls : Replay(d) \notin {<<>>, <<"503 STORE_UNAVAILABLE">>, <<"422">>,
       <<"409 IN_FLIGHT">>, <<"400">>, <<"settle error">>, <<"201">>}
BY DEF Replay

\* A step of one call that is at work: what it may do to the lease, the twin
\* and the answers.
LEMMA OneCall ==
  ASSUME IdemInv, IdemTypeOK', NEW c \in Calls, UNCHANGED <<sent, lost>>,
         at[c] \notin {"new", "done"}, at'[c] # "new",
         \A d \in Calls \ {c} : at'[d] = at[d] /\ got'[d] = got[d],
         got'[c] = got[c] \/ at'[c] = "done",
         worked' \in {worked, worked \union {c}},
         at'[c] \in {"savePg", "finalize"} => c \in worked',
         \A k \in IdemKeys \ {KeyOf(c)} : lease'[k] = lease[k] /\ twin'[k] = twin[k],
         lease'[KeyOf(c)] = lease[KeyOf(c)] \/ at[c] \in Holding \/ lease[KeyOf(c)] = Nothing,
         at'[c] \in Holding =>
           \/ lease[KeyOf(c)] = Nothing /\ lease'[KeyOf(c)] # Nothing
              /\ lease'[KeyOf(c)].phase = "IN_FLIGHT"
           \/ at[c] \in Holding /\ lease'[KeyOf(c)] = lease[KeyOf(c)],
         \/ lease'[KeyOf(c)] \in {lease[KeyOf(c)], Nothing}
         \/ lease'[KeyOf(c)].phase = "IN_FLIGHT"
         \/ Vouched(KeyOf(c), lease[KeyOf(c)])',
         twin'[KeyOf(c)] = twin[KeyOf(c)] \/ Vouched(KeyOf(c), twin[KeyOf(c)])',
         \A d \in Calls : got'[c] = Replay(d) /\ got'[c] # got[c] =>
           sent[d] = sent[c] /\ Succeeded(d)
  PROVE  IdemInv'
<1> DEFINE k0 == KeyOf(c)
<1>1. sent[c] \in IdemKeys \X Proposals /\ k0 \in IdemKeys
  BY DEF IdemInv, KeyOf
<1>2. ASSUME NEW d \in Calls, Succeeded(d) PROVE Succeeded(d)'
  BY <1>2 DEF Succeeded
<1>3. ASSUME NEW k, NEW e, Vouched(k, e) PROVE sent'[e.by] = <<k, e.body>> /\ Succeeded(e.by)'
  BY <1>2, <1>3 DEF Vouched
<1>4. \A d \in Calls : at'[d] # "new" => sent'[d] \in IdemKeys \X Proposals
  BY <1>1 DEF IdemInv
<1>5. \A d \in Calls : got'[d] # <<>> => at'[d] = "done"
  BY DEF IdemInv
<1>6. ASSUME NEW d \in Calls, at'[d] \in Holding, KeyOf(d) \notin lost
      PROVE  lease'[KeyOf(d)] # Nothing /\ lease'[KeyOf(d)].phase = "IN_FLIGHT"
  <2>1. CASE d = c
    BY <1>1, <1>6, <2>1 DEF IdemInv
  <2>2. CASE d # c /\ KeyOf(d) = k0
    <3>1. at[d] \in Holding /\ lease[k0] # Nothing /\ lease[k0].phase = "IN_FLIGHT"
      BY <1>6, <2>2 DEF IdemInv
    <3>2. at[c] \notin Holding
      BY <1>6, <2>2, <3>1 DEF IdemInv, ExecutionsExclusive
    <3> QED BY <2>2, <3>1, <3>2
  <2>3. CASE d # c /\ KeyOf(d) # k0
    <3>1. KeyOf(d) \in IdemKeys
      BY <1>6, <2>3 DEF IdemInv, KeyOf, Holding
    <3> QED BY <1>6, <2>3, <3>1 DEF IdemInv
  <2> QED BY <2>1, <2>2, <2>3
<1>7. ExecutionsExclusive'
  <2> SUFFICES ASSUME NEW d \in Calls, NEW b \in Calls, d # b, at'[d] \in Holding,
                      at'[b] \in Holding, KeyOf(d) = KeyOf(b), KeyOf(d) \notin lost
               PROVE  FALSE
    BY DEF ExecutionsExclusive, KeyOf
  <2>1. \A a \in Calls \ {c} : at'[a] \in Holding /\ KeyOf(a) \notin lost =>
          at[a] \in Holding /\ lease[KeyOf(a)] # Nothing
    BY DEF IdemInv
  <2>2. CASE d # c /\ b # c
    BY <2>1, <2>2 DEF IdemInv, ExecutionsExclusive
  <2>3. CASE d = c \/ b = c
    <3>1. PICK a \in Calls \ {c} : at'[a] \in Holding /\ KeyOf(a) = k0
      BY <2>3
    <3>2. at[a] \in Holding /\ lease[k0] # Nothing /\ at[c] \in Holding
      BY <2>1, <2>3, <3>1
    <3> QED BY <2>3, <3>1, <3>2 DEF IdemInv, ExecutionsExclusive
  <2> QED BY <2>2, <2>3
<1>8. ASSUME NEW k \in IdemKeys, lease'[k] # Nothing, lease'[k].phase = "DONE"
      PROVE  Vouched(k, lease[k])'
  <2>1. CASE lease'[k] = lease[k]
    <3>1. Vouched(k, lease[k])
      BY <1>8, <2>1 DEF IdemInv
    <3> QED BY <1>3, <2>1, <3>1 DEF Vouched, Succeeded
  <2>2. CASE lease'[k] # lease[k]
    <3>1. k = k0
      BY <2>2
    <3> QED BY <1>8, <2>2, <3>1 DEF Vouched, Succeeded, KeyOf
  <2> QED BY <2>1, <2>2
<1>9. ASSUME NEW k \in IdemKeys, twin'[k] # Nothing PROVE Vouched(k, twin[k])'
  <2>1. CASE twin'[k] = twin[k]
    <3>1. Vouched(k, twin[k])
      BY <1>9, <2>1 DEF IdemInv
    <3> QED BY <1>3, <2>1, <3>1 DEF Vouched, Succeeded
  <2>2. CASE twin'[k] # twin[k]
    <3>1. k = k0
      BY <2>2
    <3> QED BY <1>9, <2>2, <3>1 DEF Vouched, Succeeded, KeyOf
  <2> QED BY <2>1, <2>2
<1>10. ReplayIsTrue'
  <2> SUFFICES ASSUME NEW a \in Calls, NEW d \in Calls, got'[a] = Replay(d)
               PROVE  sent[d] = sent[a] /\ Succeeded(d)'
    BY DEF ReplayIsTrue, Replay
  <2>1. CASE got'[a] = got[a]
    BY <1>2, <2>1, ZenonT(60) DEF IdemInv, ReplayIsTrue
  <2>2. CASE got'[a] # got[a]
    BY <1>2, <2>2
  <2> QED BY <2>1, <2>2
<1>11. \A d \in Calls : at'[d] \in Holding /\ KeyOf(d)' \notin lost' =>
         lease'[KeyOf(d)'] # Nothing /\ lease'[KeyOf(d)'].phase = "IN_FLIGHT"
  BY <1>6 DEF KeyOf
<1>12. \A d \in worked' : at'[d] # "new"
  BY DEF IdemInv, IdemTypeOK
<1>13. \A d \in Calls : at'[d] \in {"savePg", "finalize"} => d \in worked'
  BY DEF IdemInv
<1> QED BY <1>4, <1>5, <1>7, <1>8, <1>9, <1>10, <1>11, <1>12, <1>13 DEF IdemInv

LEMMA CallMoves ==
  ASSUME IdemTypeOK, NEW c \in Calls, NEW from, NEW to \in {"acquire", "peek", "done"} \union Holding,
         Move(c, from, to)
  PROVE  /\ at[c] = from /\ at'[c] = to /\ sent' = sent
         /\ at' \in [Calls -> {"new", "acquire", "peek", "done"} \union Holding]
         /\ \A d \in Calls \ {c} : at'[d] = at[d]
BY DEF Move, IdemTypeOK

LEMMA CallAnswers ==
  ASSUME IdemTypeOK, NEW c \in Calls, NEW a \in Answers, Answer(c, a)
  PROVE  /\ got' \in [Calls -> Answers] /\ got'[c] = a
         /\ \A d \in Calls \ {c} : got'[d] = got[d]
BY DEF Answer, IdemTypeOK

LEMMA AcquireKeeps ==
  ASSUME IdemInv, NEW c \in Calls, Acquire(c)
  PROVE  IdemInv'
<1> DEFINE k == KeyOf(c)
<1>1. /\ IdemTypeOK /\ at[c] = "acquire" /\ UNCHANGED <<sent, twin, got, lost, worked>>
  BY DEF IdemInv, Acquire, Move
<1>2. k \in IdemKeys /\ BodyOf(c) \in Proposals
  BY <1>1 DEF IdemInv, KeyOf, BodyOf
<1>3. CASE lease[k] = Nothing
  <2>1. Move(c, "acquire", "settle") /\ lease' = [lease EXCEPT ![k] = Entry(BodyOf(c), "IN_FLIGHT", Nothing)]
    BY <1>3 DEF Acquire
  <2>2. /\ at'[c] = "settle" /\ \A d \in Calls \ {c} : at'[d] = at[d]
        /\ at' \in [Calls -> {"new", "acquire", "peek", "done"} \union Holding]
    BY <1>1, <2>1, CallMoves DEF Holding
  <2>3. /\ lease' \in [IdemKeys -> Entries \union {Nothing}]
        /\ lease'[k] # Nothing /\ lease'[k].phase = "IN_FLIGHT"
        /\ \A j \in IdemKeys \ {k} : lease'[j] = lease[j]
    BY <1>1, <1>2, <2>1, EntryMade DEF IdemTypeOK
  <2>4. IdemTypeOK'
    BY <1>1, <2>2, <2>3 DEF IdemTypeOK
  <2> QED BY <1>1, <1>3, <2>2, <2>3, <2>4, OneCall
<1>4. CASE lease[k] # Nothing
  <2>1. Move(c, "acquire", "peek") /\ lease' = lease
    BY <1>4 DEF Acquire
  <2>2. /\ at'[c] = "peek" /\ \A d \in Calls \ {c} : at'[d] = at[d]
        /\ at' \in [Calls -> {"new", "acquire", "peek", "done"} \union Holding]
    BY <1>1, <2>1, CallMoves
  <2>3. IdemTypeOK'
    BY <1>1, <2>1, <2>2 DEF IdemTypeOK
  <2> QED BY <1>1, <2>1, <2>2, <2>3, OneCall DEF Holding
<1> QED BY <1>3, <1>4

\* The steps that answer out of what the stores say: a replay names a call
\* that succeeded with the same key and body.
LEMMA ReadsKeep ==
  ASSUME IdemInv, NEW c \in Calls, AcquireThrows(c) \/ Peek(c) \/ RefuseBody(c)
  PROVE  IdemInv'
<1> DEFINE k == KeyOf(c)
<1>1. /\ IdemTypeOK /\ at[c] \in {"acquire", "peek", "settle"}
      /\ UNCHANGED <<lease, twin, sent, lost, worked>>
  BY DEF IdemInv, AcquireThrows, Peek, RefuseBody, Move
<1>2. k \in IdemKeys /\ BodyOf(c) \in Proposals /\ sent[c] = <<k, BodyOf(c)>>
  BY <1>1 DEF IdemInv, KeyOf, BodyOf
<1>3. Move(c, at[c], "done")
  BY DEF AcquireThrows, Peek, RefuseBody, Move
<1>4. /\ at'[c] = "done" /\ \A d \in Calls \ {c} : at'[d] = at[d]
      /\ at' \in [Calls -> {"new", "acquire", "peek", "done"} \union Holding]
  BY <1>1, <1>3, CallMoves
<1>5. PICK a \in Answers :
        Answer(c, a) /\ \A d \in Calls : a = Replay(d) => sent[d] = sent[c] /\ Succeeded(d)
  <2>1. /\ lease[k] # Nothing => lease[k] \in Entries
        /\ twin[k] # Nothing => Vouched(k, twin[k])
        /\ lease[k] # Nothing /\ lease[k].phase = "DONE" => Vouched(k, lease[k])
    BY <1>1, <1>2 DEF IdemTypeOK, IdemInv
  <2>2. ASSUME NEW e, Vouched(k, e), e.body = BodyOf(c), Answer(c, Replay(e.by))
        PROVE  \E a \in Answers : Answer(c, a) /\
                 \A d \in Calls : a = Replay(d) => sent[d] = sent[c] /\ Succeeded(d)
    <3>1. e.by \in Calls /\ sent[e.by] = sent[c] /\ Succeeded(e.by)
      BY <1>2, <2>2 DEF Vouched
    <3>2. \A d \in Calls : Replay(e.by) = Replay(d) => d = e.by
      BY <3>1, ReplaysDiffer
    <3> QED BY <2>2, <3>1, <3>2 DEF Answers
  <2>3. ASSUME NEW a \in {<<"503 STORE_UNAVAILABLE">>, <<"422">>, <<"409 IN_FLIGHT">>, <<"400">>},
               Answer(c, a)
        PROVE  \E b \in Answers : Answer(c, b) /\
                 \A d \in Calls : b = Replay(d) => sent[d] = sent[c] /\ Succeeded(d)
    BY <2>3, ReplaysDiffer DEF Answers
  <2>4. CASE AcquireThrows(c)
    BY <2>1, <2>2, <2>3, <2>4 DEF AcquireThrows
  <2>5. CASE Peek(c)
    <3>1. CASE lease[k] = Nothing \/ lease[k].body # BodyOf(c)
      <4>1. Answer(c, <<"422">>)
        BY <2>5, <3>1 DEF Peek
      <4> QED BY <2>3, <4>1
    <3>2. CASE lease[k] # Nothing /\ lease[k].body = BodyOf(c) /\ lease[k].phase = "IN_FLIGHT"
      <4>1. Answer(c, <<"409 IN_FLIGHT">>)
        BY <2>5, <3>2 DEF Peek
      <4> QED BY <2>3, <4>1
    <3>3. CASE lease[k] # Nothing /\ lease[k].body = BodyOf(c) /\ lease[k].phase # "IN_FLIGHT"
      <4>1. Answer(c, Replay(lease[k].by))
        BY <2>5, <3>3 DEF Peek
      <4>2. lease[k].phase = "DONE"
        BY <2>1, <3>3 DEF Entries
      <4> QED BY <2>1, <2>2, <3>3, <4>1, <4>2
    <3> QED BY <3>1, <3>2, <3>3
  <2>6. CASE RefuseBody(c)
    BY <2>3, <2>6 DEF RefuseBody
  <2> QED BY <2>4, <2>5, <2>6
<1>6. /\ got' \in [Calls -> Answers] /\ got'[c] = a
      /\ \A d \in Calls \ {c} : got'[d] = got[d]
  BY <1>1, <1>5, CallAnswers
<1>7. IdemTypeOK'
  BY <1>1, <1>4, <1>6 DEF IdemTypeOK
<1> QED BY <1>1, <1>4, <1>5, <1>6, <1>7, OneCall DEF Holding

\* The last step of a call that holds its key: it lets go of it, or leaves its
\* result there.
LEMMA ReturnKeeps ==
  ASSUME IdemInv, IdemTypeOK', NEW c \in Calls, UNCHANGED <<sent, lost>>, twin' = twin, worked' = worked,
         at[c] \in {"settle", "abort", "savePg", "finalize"}, at'[c] = "done",
         \A d \in Calls \ {c} : at'[d] = at[d],
         \A d \in Calls \ {c} : got'[d] = got[d],
         \A d \in Calls : got'[c] # Replay(d),
         \A j \in IdemKeys \ {KeyOf(c)} : lease'[j] = lease[j],
         \/ lease'[KeyOf(c)] \in {lease[KeyOf(c)], Nothing}
         \/ lease'[KeyOf(c)] = lease[KeyOf(c)]
         \/ Vouched(KeyOf(c), lease[KeyOf(c)])'
  PROVE  IdemInv'
<1>1. at[c] \notin {"new", "done"} /\ at'[c] # "new" /\ at[c] \in Holding /\ at'[c] \notin Holding
      /\ ~(at'[c] \in {"savePg", "finalize"})
  BY DEF Holding
<1>2. worked' \in {worked, worked \union {c}}
  OBVIOUS
<1>3. \A d \in Calls \ {c} : at'[d] = at[d] /\ got'[d] = got[d]
  OBVIOUS
<1>4. \A j \in IdemKeys \ {KeyOf(c)} : lease'[j] = lease[j] /\ twin'[j] = twin[j]
  OBVIOUS
<1>5. \/ lease'[KeyOf(c)] \in {lease[KeyOf(c)], Nothing}
      \/ lease'[KeyOf(c)].phase = "IN_FLIGHT"
      \/ Vouched(KeyOf(c), lease[KeyOf(c)])'
  OBVIOUS
<1>6. twin'[KeyOf(c)] = twin[KeyOf(c)] \/ Vouched(KeyOf(c), twin[KeyOf(c)])'
  OBVIOUS
<1> QED BY <1>1, <1>2, <1>3, <1>4, <1>5, <1>6, OneCall

\* The steps of a call that holds its key.
LEMMA HolderKeeps ==
  ASSUME IdemInv, NEW c \in Calls, Settle(c) \/ Abort(c) \/ SavePg(c) \/ Finalize(c)
  PROVE  IdemInv'
<1> DEFINE k == KeyOf(c)
<1>1. /\ IdemTypeOK /\ at[c] \in {"settle", "abort", "savePg", "finalize"}
      /\ UNCHANGED <<sent, lost>>
  BY DEF IdemInv, Settle, Abort, SavePg, Finalize, Move
<1>2. k \in IdemKeys /\ BodyOf(c) \in Proposals /\ sent[c] = <<k, BodyOf(c)>>
  BY <1>1 DEF IdemInv, KeyOf, BodyOf
<1>3. CASE Settle(c)
  <2>1. PICK next \in {"savePg", "abort"} : Move(c, "settle", next)
    BY <1>3 DEF Settle
  <2>2. /\ at[c] = "settle" /\ at'[c] = next /\ \A d \in Calls \ {c} : at'[d] = at[d]
        /\ at' \in [Calls -> {"new", "acquire", "peek", "done"} \union Holding]
    BY <1>1, <2>1, CallMoves DEF Holding
  <2>3. /\ UNCHANGED <<lease, twin, got>>
        /\ worked' = worked \union {c} \/ (worked' = worked /\ at'[c] = "abort")
    BY <1>3, <2>2 DEF Settle, Move, IdemTypeOK
  <2>4. IdemTypeOK'
    BY <1>1, <2>2, <2>3 DEF IdemTypeOK
  <2>5. at'[c] = "savePg" => c \in worked'
    BY <2>2, <2>3
  <2> QED BY <1>1, <2>2, <2>3, <2>4, <2>5, OneCall DEF Holding
<1>4. CASE Abort(c)
  <2>1. /\ at[c] = "abort" /\ at'[c] = "done" /\ \A d \in Calls \ {c} : at'[d] = at[d]
        /\ at' \in [Calls -> {"new", "acquire", "peek", "done"} \union Holding]
    BY <1>1, <1>4, CallMoves DEF Abort
  <2>2. /\ got' \in [Calls -> Answers] /\ got'[c] = <<"settle error">>
        /\ \A d \in Calls \ {c} : got'[d] = got[d]
    BY <1>1, <1>4, CallAnswers DEF Abort, Answers
  <2>3. lease' = lease \/ lease' = [lease EXCEPT ![k] = Nothing]
    BY <1>4 DEF Abort
  <2>4. /\ lease' \in [IdemKeys -> Entries \union {Nothing}] /\ twin' = twin
        /\ lease'[k] \in {lease[k], Nothing}
        /\ \A j \in IdemKeys \ {k} : lease'[j] = lease[j]
    BY <1>1, <1>2, <1>4, <2>3 DEF Abort, IdemTypeOK
  <2>5. worked' = worked
    BY <1>4 DEF Abort
  <2>6. IdemTypeOK'
    BY <1>1, <2>1, <2>2, <2>4, <2>5 DEF IdemTypeOK
  <2>7. \A d \in Calls : got'[c] # Replay(d)
    BY <2>2, ReplaysDiffer
  <2>8. /\ \A d \in Calls \ {c} : got'[d] = got[d]
        /\ lease'[k] \in {lease[k], Nothing}
    BY <2>2, <2>4
  <2>9. twin' = twin /\ \A j \in IdemKeys \ {k} : lease'[j] = lease[j]
    BY <2>4
  <2> QED BY <1>1, <2>1, <2>5, <2>6, <2>7, <2>8, <2>9, ReturnKeeps
<1>5. CASE SavePg(c)
  <2>1. /\ at[c] = "savePg" /\ at'[c] = "finalize" /\ \A d \in Calls \ {c} : at'[d] = at[d]
        /\ at' \in [Calls -> {"new", "acquire", "peek", "done"} \union Holding]
    BY <1>1, <1>5, CallMoves DEF SavePg, Holding
  <2>2. UNCHANGED <<lease, got, worked>>
    BY <1>5 DEF SavePg
  <2>3. \/ twin' = twin
        \/ twin[k] = Nothing /\ twin' = [twin EXCEPT ![k] = Entry(BodyOf(c), "DONE", c)]
    <3>1. CASE twin[k] = Nothing
      BY <1>5, <3>1 DEF SavePg
    <3>2. CASE twin[k] # Nothing
      <4>1. [twin EXCEPT ![k] = twin[k]] = twin
        BY <1>1, <1>2 DEF IdemTypeOK
      <4> QED BY <1>5, <3>2, <4>1 DEF SavePg
    <3> QED BY <3>1, <3>2
  <2>4. /\ Entry(BodyOf(c), "DONE", c) \in Entries
        /\ Entry(BodyOf(c), "DONE", c).body = BodyOf(c) /\ Entry(BodyOf(c), "DONE", c).by = c
    BY <1>2, EntryMade
  <2>5. /\ twin' \in [IdemKeys -> Entries \union {Nothing}]
        /\ twin'[k] \in {twin[k], Entry(BodyOf(c), "DONE", c)}
        /\ \A j \in IdemKeys \ {k} : twin'[j] = twin[j]
    BY <1>1, <1>2, <2>3, <2>4 DEF IdemTypeOK
  <2>6. IdemTypeOK'
    BY <1>1, <2>1, <2>2, <2>5 DEF IdemTypeOK
  <2>7. Succeeded(c)' /\ c \in worked'
    BY <2>1, <2>2 DEF IdemInv, Succeeded
  <2>8. twin'[k] = twin[k] \/ Vouched(k, twin[k])'
    BY <1>1, <1>2, <2>4, <2>5, <2>7 DEF Vouched, KeyOf, Succeeded
  <2> QED BY <1>1, <2>1, <2>2, <2>5, <2>6, <2>7, <2>8, OneCall DEF Holding
<1>6. CASE Finalize(c)
  <2>1. /\ at[c] = "finalize" /\ at'[c] = "done" /\ \A d \in Calls \ {c} : at'[d] = at[d]
        /\ at' \in [Calls -> {"new", "acquire", "peek", "done"} \union Holding]
    BY <1>1, <1>6, CallMoves DEF Finalize
  <2>2. /\ got' \in [Calls -> Answers] /\ got'[c] = <<"201">>
        /\ \A d \in Calls \ {c} : got'[d] = got[d]
    BY <1>1, <1>6, CallAnswers DEF Finalize, Answers
  <2>3. UNCHANGED <<twin, worked>> /\ (lease' = lease \/ lease' = [lease EXCEPT ![k] = Entry(BodyOf(c), "DONE", c)])
    BY <1>6 DEF Finalize, Finalized
  <2>4. /\ Entry(BodyOf(c), "DONE", c) \in Entries
        /\ Entry(BodyOf(c), "DONE", c).body = BodyOf(c) /\ Entry(BodyOf(c), "DONE", c).by = c
    BY <1>2, EntryMade
  <2>5. /\ lease' \in [IdemKeys -> Entries \union {Nothing}]
        /\ lease'[k] \in {lease[k], Entry(BodyOf(c), "DONE", c)}
        /\ \A j \in IdemKeys \ {k} : lease'[j] = lease[j]
    BY <1>1, <1>2, <2>3, <2>4 DEF IdemTypeOK
  <2>6. IdemTypeOK'
    BY <1>1, <2>1, <2>2, <2>3, <2>5 DEF IdemTypeOK
  <2>7. Succeeded(c)'
    BY <2>1, <2>3 DEF IdemInv, Succeeded
  <2>8. lease'[k] = lease[k] \/ Vouched(k, lease[k])'
    BY <1>1, <1>2, <2>4, <2>5, <2>7 DEF Vouched, KeyOf, Succeeded
  <2>9. \A d \in Calls : got'[c] # Replay(d)
    BY <2>2, ReplaysDiffer
  <2>10. /\ \A d \in Calls \ {c} : got'[d] = got[d]
         /\ \A j \in IdemKeys \ {k} : lease'[j] = lease[j]
    BY <2>2, <2>5
  <2> QED BY <1>1, <2>1, <2>3, <2>6, <2>8, <2>9, <2>10, ReturnKeeps
<1> QED BY <1>3, <1>4, <1>5, <1>6

LEMMA ArriveKeeps ==
  ASSUME IdemInv, NEW c \in Calls, NEW k \in IdemKeys, NEW b \in Proposals, Arrive(c, k, b)
  PROVE  IdemInv'
<1>1. /\ at[c] = "new" /\ at' = [at EXCEPT ![c] = "acquire"]
      /\ sent' = [sent EXCEPT ![c] = <<k, b>>]
      /\ UNCHANGED <<lease, twin, got, lost, worked>> /\ IdemTypeOK
  BY DEF Arrive, IdemInv
<1>2. /\ at'[c] = "acquire" /\ sent'[c] = <<k, b>> /\ <<k, b>> \in IdemKeys \X Proposals
      /\ \A d \in Calls \ {c} : at'[d] = at[d] /\ sent'[d] = sent[d]
  BY <1>1 DEF IdemTypeOK
<1>3. IdemTypeOK'
  BY <1>1, <1>2 DEF IdemTypeOK
<1>4. ~Succeeded(c) /\ got[c] = <<>>
  BY <1>1 DEF IdemInv, Succeeded
<1>5. ASSUME NEW d \in Calls, Succeeded(d) PROVE d # c /\ Succeeded(d)'
  BY <1>1, <1>2, <1>4, <1>5 DEF Succeeded
<1>6. \A j \in IdemKeys : lease'[j] # Nothing /\ lease'[j].phase = "DONE" => Vouched(j, lease[j])'
  <2> SUFFICES ASSUME NEW j \in IdemKeys, lease[j] # Nothing, lease[j].phase = "DONE"
               PROVE  Vouched(j, lease[j])'
    BY <1>1
  <2>1. Vouched(j, lease[j])
    BY DEF IdemInv
  <2> QED BY <1>1, <1>2, <1>5, <2>1 DEF Vouched, Succeeded
<1>7. \A j \in IdemKeys : twin'[j] # Nothing => Vouched(j, twin[j])'
  <2> SUFFICES ASSUME NEW j \in IdemKeys, twin[j] # Nothing PROVE Vouched(j, twin[j])'
    BY <1>1
  <2>1. Vouched(j, twin[j])
    BY DEF IdemInv
  <2> QED BY <1>1, <1>2, <1>5, <2>1 DEF Vouched, Succeeded
<1>8. ReplayIsTrue'
  <2> SUFFICES ASSUME NEW a \in Calls, NEW d \in Calls, got[a] = Replay(d)
               PROVE  sent'[d] = sent'[a] /\ Succeeded(d)'
    BY <1>1 DEF ReplayIsTrue, Replay
  <2>1. sent[d] = sent[a] /\ Succeeded(d) /\ a # c
    BY <1>4, ReplaysDiffer DEF IdemInv, ReplayIsTrue
  <2> QED BY <1>2, <1>5, <2>1
<1>9. \A d \in Calls : at'[d] \in Holding => d # c /\ KeyOf(d)' = KeyOf(d)
  BY <1>2 DEF Holding, KeyOf
<1>10. /\ \A d \in worked' : at'[d] # "new"
       /\ \A d \in Calls : at'[d] \in {"savePg", "finalize"} => d \in worked'
  BY <1>1, <1>2 DEF IdemInv, IdemTypeOK
<1> QED BY <1>1, <1>2, <1>3, <1>4, <1>6, <1>7, <1>8, <1>9, <1>10
        DEF IdemInv, ExecutionsExclusive, KeyOf

LEMMA LossKeeps ==
  ASSUME IdemInv, NEW k \in IdemKeys, RedisLoses(k)
  PROVE  IdemInv'
<1>1. /\ lease' = [lease EXCEPT ![k] = Nothing] /\ lost' = lost \union {k}
      /\ UNCHANGED <<twin, sent, at, got, worked>> /\ IdemTypeOK
  BY DEF RedisLoses, IdemInv
<1>2. /\ lease'[k] = Nothing /\ \A j \in IdemKeys \ {k} : lease'[j] = lease[j]
      /\ lease' \in [IdemKeys -> Entries \union {Nothing}]
  BY <1>1 DEF IdemTypeOK
<1>3. IdemTypeOK'
  BY <1>1, <1>2 DEF IdemTypeOK
<1>4. \A c \in Calls : at[c] \in Holding => KeyOf(c) \in IdemKeys
  BY DEF IdemInv, KeyOf, Holding
<1>5. \A j \in IdemKeys : /\ lease'[j] # Nothing => lease'[j] = lease[j]
                         /\ j \notin lost' => lease'[j] = lease[j]
  BY <1>1, <1>2
<1>6. \A c \in Calls : at'[c] \in Holding /\ KeyOf(c)' \notin lost' =>
        lease'[KeyOf(c)'] # Nothing /\ lease'[KeyOf(c)'].phase = "IN_FLIGHT"
  BY <1>1, <1>4, <1>5 DEF IdemInv, KeyOf
<1>7. ExecutionsExclusive' /\ ReplayIsTrue'
  BY <1>1 DEF IdemInv, ExecutionsExclusive, ReplayIsTrue, Succeeded, KeyOf, Replay
<1>8. \A j \in IdemKeys : lease'[j] # Nothing /\ lease'[j].phase = "DONE" => Vouched(j, lease[j])'
  BY <1>1, <1>5 DEF IdemInv, Vouched, Succeeded
<1>9. \A j \in IdemKeys : twin'[j] # Nothing => Vouched(j, twin[j])'
  BY <1>1 DEF IdemInv, Vouched, Succeeded
<1> QED BY <1>1, <1>3, <1>6, <1>7, <1>8, <1>9 DEF IdemInv

\* Calls that end with their process leave leases, rows and answers.
LEMMA DeathKeeps ==
  ASSUME IdemInv, ProcessEnds
  PROVE  IdemInv'
<1>1. PICK dead \in SUBSET {c \in Calls : at[c] # "new"} :
        at' = [c \in Calls |-> IF c \in dead THEN "done" ELSE at[c]]
  BY DEF ProcessEnds
<1>2. UNCHANGED <<lease, twin, worked, sent, got, lost>> /\ IdemTypeOK
  BY DEF ProcessEnds, IdemInv
<1>3. \A c \in Calls : at'[c] = at[c] \/ (at'[c] = "done" /\ at[c] # "new")
  BY <1>1
<1>4. IdemTypeOK'
  BY <1>1, <1>2 DEF IdemTypeOK
<1>5. \A c \in Calls : at'[c] \in Holding => at[c] \in Holding
  BY <1>3 DEF Holding
<1>6. ExecutionsExclusive'
  BY <1>2, <1>5 DEF IdemInv, ExecutionsExclusive, KeyOf
<1>7. ReplayIsTrue'
  BY <1>2 DEF IdemInv, ReplayIsTrue, Replay, Succeeded
<1>8. /\ \A c \in Calls : at'[c] # "new" => sent'[c] \in IdemKeys \X Proposals
      /\ \A c \in Calls : got'[c] # <<>> => at'[c] = "done"
      /\ \A c \in worked' : at'[c] # "new"
      /\ \A c \in Calls : at'[c] \in {"savePg", "finalize"} => c \in worked'
  BY <1>2, <1>3 DEF IdemInv, IdemTypeOK
<1>9. \A c \in Calls : at'[c] \in Holding /\ KeyOf(c)' \notin lost' =>
        lease'[KeyOf(c)'] # Nothing /\ lease'[KeyOf(c)'].phase = "IN_FLIGHT"
  BY <1>2, <1>5 DEF IdemInv, KeyOf
<1>10. /\ \A k \in IdemKeys : lease'[k] # Nothing /\ lease'[k].phase = "DONE" => Vouched(k, lease[k])'
       /\ \A k \in IdemKeys : twin'[k] # Nothing => Vouched(k, twin[k])'
  BY <1>2 DEF IdemInv, Vouched, Succeeded
<1> QED BY <1>4, <1>6, <1>7, <1>8, <1>9, <1>10 DEF IdemInv

LEMMA IdemStarts ==
  ASSUME IdemInit
  PROVE  IdemInv
<1>1. IdemTypeOK
  BY DEF IdemInit, IdemTypeOK, Answers
<1>2. \A c \in Calls : at[c] = "new" /\ got[c] = <<>>
  BY DEF IdemInit
<1> QED BY <1>1, <1>2, ReplaysDiffer DEF IdemInit, IdemInv, ExecutionsExclusive, ReplayIsTrue, Holding

LEMMA IdemStep ==
  ASSUME IdemInv, IdemNext \/ UNCHANGED idemVars
  PROVE  IdemInv'
<1>1. CASE IdemNext
  BY <1>1, ArriveKeeps, AcquireKeeps, ReadsKeep, HolderKeeps, LossKeeps,
     DeathKeeps DEF IdemNext, CallStep
<1>2. CASE UNCHANGED idemVars
  <2>1. UNCHANGED <<lease, twin, worked, sent, at, got, lost>>
    BY <1>2 DEF idemVars
  <2> QED BY <2>1 DEF IdemInv, IdemTypeOK, ExecutionsExclusive, ReplayIsTrue, Vouched, Succeeded,
                      KeyOf, Replay
<1> QED BY <1>1, <1>2

----------------------------------------------------------------------------
(* The rules.                                                              *)

PutPCs == {"cooldown", "refused", "insert", "publish", "done"}
PutsAtWork == [pc : PutPCs, on : Replicas, base : Nat, raise : BOOLEAN]

RulesTypeOK ==
  /\ now \in Nat \ {0}
  /\ rows \in Seq([base : Nat, raise : BOOLEAN, at : Nat]) /\ Latest > 0
  /\ cache \in [Replicas -> Nat] /\ loaded \in [Replicas -> Nat]
  /\ read \in [Replicas -> [at : Nat, saw : Nat]]
  /\ put \in [Puts -> [pc : {"new"}] \union PutsAtWork]

\* At the moment n, version v had been superseded for a query at most.
Recent(v, n) == v \in 1 .. Latest /\ (v < Latest => n <= rows[v + 1].at + QueryTicks)

\* The inductive invariant of the rules.  What a replica caches was recent when
\* it was loaded; what a query saw and a PUT is about to publish still is.
RulesInv ==
  /\ RulesTypeOK
  /\ NoUpdateLost
  /\ \A v \in 1 .. Latest : rows[v].at <= now
  /\ \A v \in 1 .. Latest : v < Latest => rows[v].at <= rows[v + 1].at
  /\ \A r \in Replicas : loaded[r] <= now /\ Recent(cache[r], loaded[r])
  /\ \A r \in Replicas : read[r] # NoRead =>
       /\ now <= read[r].at + QueryTicks /\ read[r].at <= now
       /\ read[r].saw \in 1 .. Latest
       /\ read[r].saw < Latest => read[r].at <= rows[read[r].saw + 1].at
  /\ \A p \in Puts : put[p].pc # "new" => put[p] \in PutsAtWork /\ put[p].base \in 1 .. Latest
  /\ \A p \in Puts : put[p].pc = "publish" =>
       put[p].base < Latest /\ now <= rows[put[p].base + 1].at + QueryTicks

LEMMA PutMoves ==
  ASSUME RulesTypeOK, NEW p \in Puts, put[p] \in PutsAtWork, NEW x \in PutPCs,
         put' = [put EXCEPT ![p].pc = x]
  PROVE  /\ put' \in [Puts -> [pc : {"new"}] \union PutsAtWork]
         /\ put'[p] \in PutsAtWork /\ put'[p].pc = x /\ put'[p].base = put[p].base
         /\ \A q \in Puts \ {p} : put'[q] = put[q]
<1>1. put'[p] = [put[p] EXCEPT !.pc = x]
  BY DEF RulesTypeOK
<1>2. put'[p] \in PutsAtWork /\ put'[p].pc = x /\ put'[p].base = put[p].base
  BY <1>1 DEF PutsAtWork
<1> QED BY <1>2 DEF RulesTypeOK

LEMMA RulesFacts ==
  ASSUME RulesInv
  PROVE  /\ Latest \in Nat \ {0} /\ DOMAIN rows = 1 .. Latest /\ now \in Nat /\ now > 0
         /\ \A v \in 1 .. Latest : rows[v].at \in Nat /\ rows[v].base \in Nat
         /\ QueryTicks \in Nat /\ TTL \in Nat
<1>1. /\ rows \in Seq([base : Nat, raise : BOOLEAN, at : Nat]) /\ now \in Nat /\ now > 0
      /\ Latest > 0
  BY DEF RulesInv, RulesTypeOK
<1>2. Latest \in Nat \ {0} /\ DOMAIN rows = 1 .. Latest
  BY <1>1 DEF Latest
<1>3. \A v \in 1 .. Latest : rows[v].at \in Nat /\ rows[v].base \in Nat
  <2> TAKE v \in 1 .. Latest
  <2>1. rows[v] \in [base : Nat, raise : BOOLEAN, at : Nat]
    BY <1>1, <1>2, ElementOfSeq DEF Latest
  <2> QED BY <2>1
<1>4. QueryTicks \in Nat /\ TTL \in Nat
  BY RulesAssumption
<1> QED BY <1>1, <1>2, <1>3, <1>4

LEMMA TickKeeps ==
  ASSUME RulesInv, Tick
  PROVE  RulesInv'
<1>1. now' = now + 1 /\ UNCHANGED <<rows, cache, loaded, read, put>>
  BY DEF Tick
<1>2. RulesTypeOK'
  BY <1>1 DEF RulesInv, RulesTypeOK, Latest
<1>3. ASSUME NEW r \in Replicas
      PROVE  /\ loaded'[r] <= now' /\ Recent(cache[r], loaded[r])'
             /\ read'[r] # NoRead =>
                  /\ now' <= read'[r].at + QueryTicks /\ read'[r].at <= now'
                  /\ read'[r].saw \in 1 .. Latest'
                  /\ read'[r].saw < Latest' => read'[r].at <= rows'[read'[r].saw + 1].at
  <2>1. loaded[r] \in Nat /\ read[r].at \in Nat
    BY DEF RulesInv, RulesTypeOK, Latest
  <2>2. read[r] # NoRead => now < read[r].at + QueryTicks
    BY DEF Tick
  <2>3. loaded[r] <= now /\ Recent(cache[r], loaded[r])
    BY DEF RulesInv
  <2>4. read[r] # NoRead => /\ read[r].at <= now /\ read[r].saw \in 1 .. Latest
                            /\ read[r].saw < Latest => read[r].at <= rows[read[r].saw + 1].at
    BY DEF RulesInv
  <2>5. Latest' = Latest /\ Recent(cache[r], loaded[r])'
    BY <1>1, <2>3 DEF Recent, Latest
  <2> QED BY <1>1, <2>1, <2>2, <2>3, <2>4, <2>5, RulesFacts
<1>4. ASSUME NEW p \in Puts, put[p].pc = "publish"
      PROVE  now' <= rows'[put'[p].base + 1].at + QueryTicks
  <2>1. put[p].base \in 1 .. Latest /\ put[p].base < Latest
    BY <1>4 DEF RulesInv
  <2>2. now < rows[put[p].base + 1].at + QueryTicks
    BY <1>4 DEF Tick
  <2>3. rows[put[p].base + 1].at \in Nat
    BY <2>1, RulesFacts, SMTT(30)
  <2> QED BY <1>1, <2>2, <2>3, RulesFacts
<1>5. \A v \in 1 .. Latest' : rows'[v].at <= now'
  BY <1>1, RulesFacts DEF RulesInv, Latest
<1> QED BY <1>1, <1>2, <1>3, <1>4, <1>5, RulesFacts DEF RulesInv, NoUpdateLost, Latest

LEMMA BeginReadKeeps ==
  ASSUME RulesInv, NEW r \in Replicas, BeginRead(r)
  PROVE  RulesInv'
<1>1. read' = [read EXCEPT ![r] = [at |-> now, saw |-> Latest]]
      /\ UNCHANGED <<now, rows, cache, loaded, put>>
  BY DEF BeginRead
<1>2. /\ read'[r] = [at |-> now, saw |-> Latest]
      /\ \A q \in Replicas \ {r} : read'[q] = read[q]
      /\ read' \in [Replicas -> [at : Nat, saw : Nat]]
  BY <1>1, RulesFacts DEF RulesInv, RulesTypeOK, Latest
<1>3. RulesTypeOK'
  BY <1>1, <1>2 DEF RulesInv, RulesTypeOK, Latest
<1>4. read'[r].at = now /\ read'[r].saw = Latest
  BY <1>2
<1>5. \A q \in Replicas : read'[q] # NoRead =>
       /\ now <= read'[q].at + QueryTicks /\ read'[q].at <= now
       /\ read'[q].saw \in 1 .. Latest
       /\ read'[q].saw < Latest => read'[q].at <= rows[read'[q].saw + 1].at
  BY <1>2, <1>4, RulesFacts DEF RulesInv
<1> QED BY <1>1, <1>3, <1>5 DEF RulesInv, NoUpdateLost, Recent, Latest

LEMMA EndReadKeeps ==
  ASSUME RulesInv, NEW r \in Replicas, EndRead(r)
  PROVE  RulesInv'
<1>1. /\ read[r] # NoRead
      /\ cache' = [cache EXCEPT ![r] = read[r].saw]
      /\ loaded' = [loaded EXCEPT ![r] = now]
      /\ read' = [read EXCEPT ![r] = NoRead]
      /\ UNCHANGED <<now, rows, put>>
  BY DEF EndRead
<1>2. read[r].at \in Nat /\ read[r].saw \in Nat
  BY DEF RulesInv, RulesTypeOK, Latest
<1>3. /\ cache'[r] = read[r].saw /\ loaded'[r] = now /\ read'[r] = NoRead
      /\ \A q \in Replicas \ {r} :
           read'[q] = read[q] /\ cache'[q] = cache[q] /\ loaded'[q] = loaded[q]
  BY <1>1 DEF RulesInv, RulesTypeOK, Latest
<1>4. RulesTypeOK'
  <2>1. NoRead \in [at : Nat, saw : Nat]
    BY DEF NoRead
  <2> QED BY <1>1, <1>2, <2>1, RulesFacts DEF RulesInv, RulesTypeOK, Latest
<1>5. Recent(read[r].saw, now)
  <2>1. /\ now <= read[r].at + QueryTicks /\ read[r].saw \in 1 .. Latest
        /\ read[r].saw < Latest => read[r].at <= rows[read[r].saw + 1].at
    BY <1>1 DEF RulesInv
  <2>2. ASSUME read[r].saw < Latest PROVE now <= rows[read[r].saw + 1].at + QueryTicks
    <3> DEFINE x == rows[read[r].saw + 1].at  y == read[r].at
    <3>1. y <= x /\ now <= y + QueryTicks /\ y \in Nat
      BY <1>2, <2>1, <2>2
    <3>2. x \in Nat /\ now \in Nat /\ QueryTicks \in Nat
      BY <2>1, <2>2, RulesFacts
    <3> HIDE DEF x, y
    <3>3. now <= x + QueryTicks
      BY <3>1, <3>2
    <3> QED BY <3>3 DEF x
  <2> QED BY <2>1, <2>2 DEF Recent
<1>6. \A q \in Replicas : loaded'[q] <= now /\ Recent(cache'[q], loaded'[q])
  BY <1>3, <1>5, RulesFacts DEF RulesInv
<1>7. \A q \in Replicas : Recent(cache[q], loaded[q])'
  BY <1>1, <1>6 DEF Recent, Latest
<1> QED BY <1>1, <1>3, <1>4, <1>6, <1>7 DEF RulesInv, NoUpdateLost, Latest

LEMMA PutStepsKeep ==
  ASSUME RulesInv, NEW p \in Puts,
         (\E r \in Replicas, raise \in BOOLEAN : PutBegins(p, r, raise)) \/ PutChecksCooldown(p)
  PROVE  RulesInv'
<1>1. UNCHANGED <<now, rows, cache, loaded, read>>
  BY DEF PutBegins, PutChecksCooldown
<1>2. PICK n \in PutsAtWork : /\ n.base \in 1 .. Latest /\ n.pc # "publish"
                             /\ put' = [put EXCEPT ![p] = n]
  <2>1. ASSUME NEW r \in Replicas, NEW raise \in BOOLEAN, PutBegins(p, r, raise)
        PROVE  \E n \in PutsAtWork : /\ n.base \in 1 .. Latest /\ n.pc # "publish"
                                     /\ put' = [put EXCEPT ![p] = n]
    <3> DEFINE new == [pc |-> "cooldown", on |-> r, base |-> cache[r], raise |-> raise]
    <3>1. cache[r] \in Nat /\ cache[r] \in 1 .. Latest
      BY DEF RulesInv, RulesTypeOK, Recent
    <3>2. new \in PutsAtWork /\ new.base \in 1 .. Latest /\ new.pc # "publish"
      BY <3>1 DEF PutsAtWork, PutPCs
    <3>3. put' = [put EXCEPT ![p] = new]
      BY <2>1 DEF PutBegins
    <3> QED BY <3>2, <3>3
  <2>2. CASE PutChecksCooldown(p)
    <3>1. PICK x \in {"refused", "insert"} : put' = [put EXCEPT ![p].pc = x]
      BY <2>2 DEF PutChecksCooldown
    <3>2. put[p] \in PutsAtWork /\ put[p].base \in 1 .. Latest
      BY <2>2 DEF PutChecksCooldown, RulesInv
    <3> DEFINE new == [put[p] EXCEPT !.pc = x]
    <3>3. new \in PutsAtWork /\ new.base = put[p].base /\ new.pc = x
      BY <3>2 DEF PutsAtWork, PutPCs
    <3>4. put' = [put EXCEPT ![p] = new]
      BY <3>1
    <3> QED BY <3>2, <3>3, <3>4
  <2> QED BY <2>1, <2>2
<1>3. /\ put'[p] = n /\ \A q \in Puts \ {p} : put'[q] = put[q]
      /\ put' \in [Puts -> [pc : {"new"}] \union PutsAtWork]
  BY <1>2 DEF RulesInv, RulesTypeOK, Latest
<1>4. RulesTypeOK'
  BY <1>1, <1>3 DEF RulesInv, RulesTypeOK, Latest
<1> QED BY <1>1, <1>2, <1>3, <1>4 DEF RulesInv, NoUpdateLost, Recent, Latest

\* base + 1 is written by whoever is first, from the version before it.
LEMMA PutInsertsKeep ==
  ASSUME RulesInv, NEW p \in Puts, PutInserts(p)
  PROVE  RulesInv'
<1>1. put[p].pc = "insert" /\ put[p] \in PutsAtWork /\ put[p].base \in 1 .. Latest
  BY DEF PutInserts, RulesInv
<1>2. UNCHANGED <<now, cache, loaded, read>>
  BY DEF PutInserts
<1>3. CASE Conflicts(p)
  <2>1. put' = [put EXCEPT ![p].pc = "refused"] /\ rows' = rows
    BY <1>3 DEF PutInserts
  <2>2. "refused" \in PutPCs
    BY DEF PutPCs
  <2>3. /\ put' \in [Puts -> [pc : {"new"}] \union PutsAtWork]
        /\ put'[p] \in PutsAtWork /\ put'[p].pc = "refused" /\ put'[p].base = put[p].base
        /\ \A q \in Puts \ {p} : put'[q] = put[q]
    BY <1>1, <2>1, <2>2, PutMoves DEF RulesInv
  <2>4. RulesTypeOK'
    BY <1>2, <2>1, <2>3 DEF RulesInv, RulesTypeOK, Latest
  <2> QED BY <1>1, <1>2, <2>1, <2>3, <2>4 DEF RulesInv, NoUpdateLost, Recent, Latest
<1>4. CASE ~Conflicts(p)
  <2> DEFINE row == [base |-> put[p].base, raise |-> put[p].raise, at |-> now]
  <2>1. put' = [put EXCEPT ![p].pc = "publish"] /\ rows' = Append(rows, row)
    BY <1>4 DEF PutInserts, Row
  <2>2. put[p].base = Latest
    BY <1>4 DEF Conflicts
  <2>3. "publish" \in PutPCs
    BY DEF PutPCs
  <2>4. /\ put' \in [Puts -> [pc : {"new"}] \union PutsAtWork]
        /\ put'[p] \in PutsAtWork /\ put'[p].pc = "publish" /\ put'[p].base = Latest
        /\ \A q \in Puts \ {p} : put'[q] = put[q]
    BY <1>1, <2>1, <2>2, <2>3, PutMoves DEF RulesInv
  <2>5. row \in [base : Nat, raise : BOOLEAN, at : Nat] /\ row.base = Latest /\ row.at = now
    BY <1>1, <2>2, RulesFacts DEF PutsAtWork
  <2>6. /\ rows' \in Seq([base : Nat, raise : BOOLEAN, at : Nat])
        /\ Latest' = Latest + 1 /\ rows'[Latest + 1] = row
        /\ \A v \in 1 .. Latest : rows'[v] = rows[v]
    <3> HIDE DEF row
    <3> QED BY <2>1, <2>5 DEF RulesInv, RulesTypeOK, Latest
  <2>7. RulesTypeOK'
    BY <1>2, <2>4, <2>6 DEF RulesInv, RulesTypeOK, Latest
  <2>8. NoUpdateLost'
    <3>1. DOMAIN rows' = 1 .. Latest'
      BY <2>6 DEF Latest
    <3>2. ASSUME NEW v \in 1 .. Latest' PROVE rows'[v].base = v - 1
      <4>1. CASE v \in 1 .. Latest
        BY <2>6, <4>1, RulesFacts DEF RulesInv, NoUpdateLost
      <4>2. CASE v = Latest + 1
        BY <2>5, <2>6, <4>2, RulesFacts
      <4> QED BY <2>6, <4>1, <4>2, RulesFacts
    <3> QED BY <3>1, <3>2 DEF NoUpdateLost
  <2> HIDE DEF row
  <2>9. ASSUME NEW v \in 1 .. Latest'
        PROVE  rows'[v].at <= now /\ (v < Latest' => rows'[v].at <= rows'[v + 1].at)
    <3>1. CASE v \in 1 .. Latest - 1
      <4>1. v \in 1 .. Latest /\ v + 1 \in 1 .. Latest /\ v < Latest
        BY <3>1, RulesFacts
      <4>2. rows[v].at <= now /\ rows[v].at <= rows[v + 1].at
        BY <4>1 DEF RulesInv
      <4> QED BY <2>6, <4>1, <4>2
    <3>2. CASE v = Latest
      <4>1. v \in 1 .. Latest
        BY <3>2, RulesFacts
      <4>2. rows[v].at <= now
        BY <4>1 DEF RulesInv
      <4> QED BY <2>5, <2>6, <3>2, <4>1, <4>2
    <3>3. CASE v = Latest + 1
      BY <2>5, <2>6, <3>3, RulesFacts
    <3>4. Latest \in Nat /\ v \in 1 .. Latest + 1
      BY <2>6, RulesFacts
    <3>5. v \in 1 .. Latest - 1 \/ v = Latest \/ v = Latest + 1
      BY <3>4
    <3> QED BY <3>1, <3>2, <3>3, <3>5
  <2>10. ASSUME NEW v \in 1 .. Latest, NEW n \in Nat, n <= now, Recent(v, n)
         PROVE  v \in 1 .. Latest' /\ (v < Latest' => n <= rows'[v + 1].at + QueryTicks)
    <3>1. CASE v < Latest
      <4>1. v + 1 \in 1 .. Latest /\ v \in 1 .. Latest'
        BY <2>6, <3>1, RulesFacts, SMTT(30)
      <4>2. n <= rows[v + 1].at + QueryTicks
        BY <2>10, <3>1 DEF Recent
      <4> QED BY <2>6, <4>1, <4>2
    <3>2. CASE v = Latest
      <4>1. rows'[v + 1].at = now /\ v \in 1 .. Latest'
        BY <2>5, <2>6, <3>2, RulesFacts
      <4> QED BY <2>10, <4>1, RulesFacts
    <3> QED BY <3>1, <3>2, RulesFacts
  <2>11. ASSUME NEW r \in Replicas PROVE loaded'[r] <= now' /\ Recent(cache[r], loaded[r])'
    <3>1. loaded[r] \in Nat /\ loaded[r] <= now /\ Recent(cache[r], loaded[r]) /\ cache[r] \in 1 .. Latest
      BY DEF RulesInv, RulesTypeOK, Recent
    <3> QED BY <1>2, <2>10, <3>1 DEF Recent
  <2>12. ASSUME NEW r \in Replicas, read[r] # NoRead
         PROVE  /\ read[r].saw \in 1 .. Latest'
                /\ read[r].saw < Latest' => read[r].at <= rows'[read[r].saw + 1].at
    <3>1. /\ read[r].saw \in 1 .. Latest /\ read[r].at <= now
          /\ read[r].saw < Latest => read[r].at <= rows[read[r].saw + 1].at
      BY <2>12 DEF RulesInv
    <3>2. CASE read[r].saw < Latest
      <4>1. read[r].saw + 1 \in 1 .. Latest /\ read[r].saw \in 1 .. Latest'
        <5>1. Latest \in Nat /\ Latest' = Latest + 1
          BY <2>6, RulesFacts
        <5> QED BY <3>1, <3>2, <5>1
      <4> QED BY <2>6, <3>1, <3>2, <4>1
    <3>3. CASE read[r].saw = Latest
      BY <2>5, <2>6, <3>1, <3>3, RulesFacts
    <3> QED BY <3>1, <3>2, <3>3, RulesFacts
  <2>13. ASSUME NEW q \in Puts, put'[q].pc = "publish"
         PROVE  put'[q].base < Latest' /\ now <= rows'[put'[q].base + 1].at + QueryTicks
    <3>1. CASE q = p
      BY <2>4, <2>5, <2>6, <3>1, RulesFacts
    <3>2. CASE q # p
      <4>1. put[q].pc = "publish" /\ put[q].base \in 1 .. Latest /\ put[q].base < Latest
            /\ now <= rows[put[q].base + 1].at + QueryTicks
        BY <2>4, <2>13, <3>2 DEF RulesInv
      <4>2. put[q].base + 1 \in 1 .. Latest /\ put[q].base < Latest'
        BY <2>6, <4>1, RulesFacts
      <4> QED BY <2>4, <2>6, <3>2, <4>1, <4>2
    <3> QED BY <3>1, <3>2
  <2>14. \A q \in Puts : put'[q].pc # "new" => put'[q] \in PutsAtWork /\ put'[q].base \in 1 .. Latest'
    <3>1. \A v \in 1 .. Latest : v \in 1 .. Latest'
      BY <2>6, RulesFacts
    <3>2. Latest \in 1 .. Latest
      BY RulesFacts
    <3> QED BY <2>4, <3>1, <3>2 DEF RulesInv
  <2> QED BY <1>2, <2>7, <2>8, <2>9, <2>11, <2>12, <2>13, <2>14 DEF RulesInv
<1> QED BY <1>3, <1>4

LEMMA PutPublishesKeep ==
  ASSUME RulesInv, NEW p \in Puts, PutPublishes(p)
  PROVE  RulesInv'
<1> DEFINE r == put[p].on
<1>1. /\ put[p].pc = "publish" /\ put[p] \in PutsAtWork /\ put[p].base \in 1 .. Latest
      /\ put[p].base < Latest /\ now <= rows[put[p].base + 1].at + QueryTicks
  BY DEF PutPublishes, RulesInv
<1>2. r \in Replicas /\ "done" \in PutPCs
  BY <1>1 DEF PutsAtWork, PutPCs
<1>3. /\ cache' = [cache EXCEPT ![r] = put[p].base + 1] /\ loaded' = [loaded EXCEPT ![r] = now]
      /\ put' = [put EXCEPT ![p].pc = "done"] /\ UNCHANGED <<now, rows, read>>
  BY DEF PutPublishes
<1>4. /\ put' \in [Puts -> [pc : {"new"}] \union PutsAtWork]
      /\ put'[p] \in PutsAtWork /\ put'[p].pc = "done" /\ put'[p].base = put[p].base
      /\ \A q \in Puts \ {p} : put'[q] = put[q]
  BY <1>1, <1>2, <1>3, PutMoves DEF RulesInv
<1>5. /\ cache'[r] = put[p].base + 1 /\ loaded'[r] = now
      /\ \A q \in Replicas \ {r} : cache'[q] = cache[q] /\ loaded'[q] = loaded[q]
  BY <1>2, <1>3 DEF RulesInv, RulesTypeOK, Latest
<1>6. RulesTypeOK'
  <2>1. put[p].base + 1 \in Nat
    BY <1>1, RulesFacts
  <2>2. cache' \in [Replicas -> Nat] /\ loaded' \in [Replicas -> Nat]
    BY <1>3, <2>1, RulesFacts DEF RulesInv, RulesTypeOK
  <2> QED BY <1>3, <1>4, <2>2 DEF RulesInv, RulesTypeOK, Latest
<1>7. Recent(put[p].base + 1, now)
  <2>1. PICK v \in 1 .. Latest : v = put[p].base + 1
    BY <1>1, RulesFacts
  <2>2. v < Latest => rows[v].at <= rows[v + 1].at /\ v + 1 \in 1 .. Latest
    BY RulesFacts DEF RulesInv
  <2>3. v < Latest => now <= rows[v + 1].at + QueryTicks
    <3>1. rows[v].at \in Nat /\ (v < Latest => rows[v + 1].at \in Nat)
      BY <2>2, RulesFacts
    <3>2. now <= rows[v].at + QueryTicks
      BY <1>1, <2>1
    <3> QED BY <2>2, <3>1, <3>2, RulesFacts
  <2> QED BY <2>1, <2>3 DEF Recent
<1>8. ASSUME NEW q \in Replicas PROVE loaded'[q] <= now' /\ Recent(cache[q], loaded[q])'
  <2>1. loaded'[q] <= now /\ Recent(cache'[q], loaded'[q])
    BY <1>5, <1>7, RulesFacts DEF RulesInv
  <2> QED BY <1>3, <2>1 DEF Recent, Latest
<1> QED BY <1>1, <1>3, <1>4, <1>6, <1>8 DEF RulesInv, NoUpdateLost, Latest

LEMMA RulesStart ==
  ASSUME RulesInit
  PROVE  RulesInv
<1> DEFINE first == [base |-> 0, raise |-> FALSE, at |-> 0]
<1>1. first \in [base : Nat, raise : BOOLEAN, at : Nat] /\ rows = <<first>>
  BY DEF RulesInit
<1>2. Latest = 1 /\ rows[1].base = 0 /\ rows[1].at = 0 /\ DOMAIN rows = 1 .. 1
  BY <1>1 DEF Latest
<1>3. RulesTypeOK
  BY <1>1, <1>2 DEF RulesInit, RulesTypeOK, NoRead
<1>4. \A p \in Puts : put[p].pc = "new"
  BY DEF RulesInit
<1>5. NoUpdateLost
  BY <1>2 DEF NoUpdateLost
<1>6. \A r \in Replicas : loaded[r] <= now /\ Recent(cache[r], loaded[r]) /\ read[r] = NoRead
  BY <1>2 DEF RulesInit, Recent
<1> QED BY <1>2, <1>3, <1>4, <1>5, <1>6 DEF RulesInv, RulesInit

LEMMA RulesStep ==
  ASSUME RulesInv, RulesNext \/ UNCHANGED rulesVars
  PROVE  RulesInv'
<1>1. CASE RulesNext
  BY <1>1, TickKeeps, BeginReadKeeps, EndReadKeeps, PutStepsKeep, PutInsertsKeep, PutPublishesKeep
     DEF RulesNext
<1>2. CASE UNCHANGED rulesVars
  <2>1. UNCHANGED <<now, rows, cache, loaded, read, put>>
    BY <1>2 DEF rulesVars
  <2> QED BY <2>1 DEF RulesInv, RulesTypeOK, NoUpdateLost, Recent, Latest
<1> QED BY <1>1, <1>2

LEMMA DriftFollows ==
  ASSUME RulesInv
  PROVE  DriftBounded
<1> SUFFICES ASSUME NEW r \in Replicas, Fresh(r), cache[r] < Latest
             PROVE  now <= rows[cache[r] + 1].at + TTL + QueryTicks
  BY DEF DriftBounded
<1>1. cache[r] \in 1 .. Latest /\ loaded[r] <= rows[cache[r] + 1].at + QueryTicks
  BY DEF RulesInv, Recent
<1>2. rows[cache[r] + 1].at \in Nat
  BY <1>1, RulesFacts
<1>3. loaded[r] \in Nat /\ now - loaded[r] < TTL
  BY DEF RulesInv, RulesTypeOK, Fresh
<1> QED BY <1>1, <1>2, <1>3, RulesFacts, SMTT(30)

----------------------------------------------------------------------------
(* The front door: buckets that refill with time.                          *)

LEMMA Products ==
  /\ \A m, n \in Nat : m * n \in Nat
  /\ \A m, n, r \in Nat : m <= n => m * r <= n * r /\ r * m <= r * n
  /\ \A m, r \in Nat : (m + 1) * r = m * r + r /\ r * (m + 1) = r * m + r
  /\ \A m \in Nat : 0 * m = 0 /\ m * 0 = 0
OBVIOUS

BucketsOK(b, K, cap, tick) ==
  b \in [at : [K -> 0 .. tick], tokens : [K -> 0 .. cap], pruned : Nat]

\* The tokens a bucket would be found with now.
Left(b, k, cap, rate, tick) == Refilled(b.tokens[k], tick - b.at[k], cap, rate)

LEMMA LeftIsCapped ==
  ASSUME NEW K, NEW b, NEW cap \in Nat, NEW rate \in Nat, NEW tick \in Nat,
         BucketsOK(b, K, cap, tick), NEW k \in K
  PROVE  /\ Left(b, k, cap, rate, tick) \in 0 .. cap
         /\ b.tokens[k] <= Left(b, k, cap, rate, tick)
         /\ Left(b, k, cap, rate, tick) <= Left(b, k, cap, rate, tick + 1)
         /\ Left(b, k, cap, rate, tick + 1) <= Left(b, k, cap, rate, tick) + rate
<1> DEFINE n == b.tokens[k]  d == tick - b.at[k]
<1>1. n \in 0 .. cap /\ d \in Nat /\ (tick + 1) - b.at[k] = d + 1
  BY DEF BucketsOK
<1>2. d * rate \in Nat /\ (d + 1) * rate = d * rate + rate
  BY <1>1, Products
<1> HIDE DEF n, d
<1>3. /\ Left(b, k, cap, rate, tick) = Lesser(cap, n + d * rate)
      /\ Left(b, k, cap, rate, tick + 1) = Lesser(cap, n + (d * rate + rate))
  <2>1. Left(b, k, cap, rate, tick) = Refilled(n, d, cap, rate)
    BY DEF Left, n, d
  <2>2. Left(b, k, cap, rate, tick + 1) = Refilled(n, d + 1, cap, rate)
    <3>1. Left(b, k, cap, rate, tick + 1) = Refilled(n, (tick + 1) - b.at[k], cap, rate)
      BY DEF Left, n
    <3> QED BY <3>1, <1>1
  <2> QED BY <1>1, <1>2, <2>1, <2>2 DEF Refilled
<1> QED BY <1>1, <1>2, <1>3 DEF Lesser, n

LEMMA LookKeeps ==
  ASSUME NEW K, NEW b, NEW cap \in Nat, NEW rate \in Nat, NEW ttl \in Nat, clock \in Nat,
         BucketsOK(b, K, cap, clock), NEW k \in K, cap <= ttl * rate
  PROVE  /\ BucketsOK(Look(b, k, cap, rate, ttl), K, cap, clock)
         /\ Look(b, k, cap, rate, ttl).tokens[k] = Left(b, k, cap, rate, clock)
         /\ Look(b, k, cap, rate, ttl).at[k] = clock
         /\ \A x \in K : Left(Look(b, k, cap, rate, ttl), x, cap, rate, clock) = Left(b, x, cap, rate, clock)
<1> DEFINE due == clock - b.pruned >= PruneEvery
           kept == [x \in K |-> IF due /\ clock - b.at[x] > ttl THEN cap ELSE b.tokens[x]]
           L == Look(b, k, cap, rate, ttl)
<1>1. b.at \in [K -> 0 .. clock] /\ b.tokens \in [K -> 0 .. cap] /\ b.pruned \in Nat
  BY DEF BucketsOK
<1>2. L = [tokens |-> [kept EXCEPT ![k] = Refilled(@, clock - b.at[k], cap, rate)],
           at |-> [b.at EXCEPT ![k] = clock],
           pruned |-> IF due THEN clock ELSE b.pruned]
  BY <1>1 DEF Look
<1>3. kept \in [K -> 0 .. cap]
  BY <1>1
<1>4. ASSUME NEW x \in K
      PROVE  Refilled(kept[x], clock - b.at[x], cap, rate) = Left(b, x, cap, rate, clock)
  <2> DEFINE d == clock - b.at[x]
  <2>1. CASE due /\ d > ttl
    <3>1. d \in Nat /\ ttl <= d
      BY <1>1, <2>1
    <3>2. kept[x] = cap /\ b.tokens[x] \in 0 .. cap
      BY <1>1, <2>1
    <3> HIDE DEF kept, d
    <3>3. PICK m \in Nat : m = d * rate /\ cap <= m
      <4>1. ttl * rate <= d * rate /\ d * rate \in Nat /\ ttl * rate \in Nat
        BY <3>1, Products
      <4> DEFINE m == d * rate  l == ttl * rate
      <4>2. m \in Nat /\ l \in Nat /\ l <= m /\ cap <= l
        BY <4>1
      <4> HIDE DEF l, m
      <4>3. cap <= m
        BY <4>2
      <4> QED BY <4>2, <4>3 DEF m
    <3>4. /\ Left(b, x, cap, rate, clock) = Lesser(cap, b.tokens[x] + m)
          /\ Refilled(cap, d, cap, rate) = Lesser(cap, cap + m)
      BY <3>3 DEF Left, Refilled, d
    <3>5. cap <= b.tokens[x] + m /\ cap <= cap + m
      BY <3>2, <3>3
    <3> QED BY <3>2, <3>4, <3>5 DEF Lesser, d
  <2>2. CASE ~(due /\ d > ttl)
    BY <2>2 DEF Left
  <2> QED BY <2>1, <2>2
<1>5. Left(b, k, cap, rate, clock) \in 0 .. cap
  BY LeftIsCapped
<1> HIDE DEF kept, due, L
<1>6. /\ L.tokens = [kept EXCEPT ![k] = Left(b, k, cap, rate, clock)]
      /\ L.at = [b.at EXCEPT ![k] = clock] /\ L.pruned \in Nat
  BY <1>1, <1>2, <1>3, <1>4
<1>7. BucketsOK(L, K, cap, clock)
  BY <1>1, <1>2, <1>3, <1>5, <1>6 DEF BucketsOK
<1>8. L.tokens[k] = Left(b, k, cap, rate, clock) /\ L.at[k] = clock
  BY <1>1, <1>3, <1>6
<1>9. ASSUME NEW x \in K PROVE Left(L, x, cap, rate, clock) = Left(b, x, cap, rate, clock)
  <2>1. CASE x = k
    <3>1. clock - L.at[x] = 0 /\ 0 * rate = 0
      BY <1>8, <2>1, Products
    <3>2. Left(L, x, cap, rate, clock) = Lesser(cap, Left(b, k, cap, rate, clock) + 0)
      BY <1>8, <2>1, <3>1 DEF Left, Refilled
    <3> QED BY <3>2, <1>5, <2>1 DEF Lesser
  <2>2. CASE x # k
    BY <1>1, <1>3, <1>4, <1>6, <2>2 DEF Left
  <2> QED BY <2>1, <2>2
<1> QED BY <1>7, <1>8, <1>9 DEF L

LEMMA SpendTakes ==
  ASSUME NEW K, NEW b, NEW cap \in Nat, NEW rate \in Nat, clock \in Nat,
         BucketsOK(b, K, cap, clock), NEW k \in K, b.at[k] = clock
  PROVE  /\ BucketsOK(Spend(b, k), K, cap, clock)
         /\ Left(Spend(b, k), k, cap, rate, clock) = IF b.tokens[k] > 0 THEN b.tokens[k] - 1 ELSE 0
         /\ \A x \in K \ {k} : Left(Spend(b, k), x, cap, rate, clock) = Left(b, x, cap, rate, clock)
<1>1. /\ b.at \in [K -> 0 .. clock] /\ b.tokens \in [K -> 0 .. cap]
      /\ b \in [at : [K -> 0 .. clock], tokens : [K -> 0 .. cap], pruned : Nat]
  BY DEF BucketsOK
<1> DEFINE n == IF b.tokens[k] > 0 THEN b.tokens[k] - 1 ELSE 0
<1>2. n \in 0 .. cap /\ 0 * rate = 0
  BY <1>1, Products
<1>3. Spend(b, k) = [b EXCEPT !.tokens = [b.tokens EXCEPT ![k] = n]]
  BY <1>1 DEF Spend
<1>4. /\ Spend(b, k).tokens = [b.tokens EXCEPT ![k] = n] /\ Spend(b, k).at = b.at
      /\ BucketsOK(Spend(b, k), K, cap, clock)
  BY <1>1, <1>2, <1>3 DEF BucketsOK
<1>5. Left(Spend(b, k), k, cap, rate, clock) = Lesser(cap, n + 0)
  BY <1>1, <1>2, <1>4 DEF Left, Refilled
<1>6. Left(Spend(b, k), k, cap, rate, clock) = n
  BY <1>2, <1>5 DEF Lesser
<1>7. \A x \in K \ {k} : Left(Spend(b, k), x, cap, rate, clock) = Left(b, x, cap, rate, clock)
  BY <1>1, <1>4 DEF Left
<1> QED BY <1>4, <1>6, <1>7

----------------------------------------------------------------------------
(* Budgets.                                                                *)

\* A running count within a budget, at tick n, with p more that may be spent
\* at once.
OnBudget(spent, n, p, burst, rate) ==
  /\ spent \in [Ticks -> Nat] /\ p \in Nat
  /\ \A t \in Ticks : t >= n => spent[t] = spent[n]
  /\ \A s, e \in Ticks : s <= e /\ e < n => spent[e] - Before(spent, s) <= burst + rate * (e - s)
  /\ \A s \in Ticks : s <= n => spent[n] - Before(spent, s) + p <= burst + rate * (n - s)

LEMMA BudgetHolds ==
  ASSUME NEW spent, NEW n \in Ticks, NEW p, NEW burst \in Nat, NEW rate \in Nat,
         Horizon \in Nat, OnBudget(spent, n, p, burst, rate)
  PROVE  WithinBudget(spent, burst, rate)
<1> SUFFICES ASSUME NEW s \in Ticks, NEW e \in Ticks, s <= e
             PROVE  spent[e] - Before(spent, s) <= burst + rate * (e - s)
  BY DEF WithinBudget
<1>1. spent \in [Ticks -> Nat] /\ p \in Nat /\ n \in Nat /\ s \in Nat /\ e \in Nat
  BY DEF OnBudget, Ticks
<1>2. CASE e < n
  BY <1>2 DEF OnBudget
<1>3. CASE e >= n /\ s <= n
  <2>1. spent[n] - Before(spent, s) + p <= burst + rate * (n - s) /\ spent[e] = spent[n]
    BY <1>3 DEF OnBudget
  <2>2. rate * (n - s) <= rate * (e - s) /\ rate * (n - s) \in Nat /\ rate * (e - s) \in Nat
    BY <1>1, <1>3, Products
  <2>3. Before(spent, s) \in Nat
    BY <1>1 DEF Before, Ticks
  <2> QED BY <1>1, <2>1, <2>2, <2>3
<1>4. CASE s > n
  <2>1. s - 1 \in Ticks /\ s - 1 >= n /\ s # 0 /\ e >= n
    BY <1>1, <1>4 DEF Ticks
  <2>2. spent[e] = spent[n] /\ Before(spent, s) = spent[n] /\ spent[n] \in Nat
    BY <1>1, <2>1 DEF OnBudget, Before
  <2>3. rate * (e - s) \in Nat
    BY <1>1, Products
  <2> QED BY <2>2, <2>3
<1> QED BY <1>1, <1>2, <1>3, <1>4

LEMMA BudgetWaits ==
  ASSUME NEW spent, NEW n \in Ticks, n + 1 \in Ticks, NEW p, NEW q \in Nat, NEW burst \in Nat,
         NEW rate \in Nat, Horizon \in Nat, OnBudget(spent, n, p, burst, rate),
         q <= p + rate, q <= burst
  PROVE  OnBudget(spent, n + 1, q, burst, rate)
<1>1. spent \in [Ticks -> Nat] /\ p \in Nat /\ n \in Nat /\ Ticks \subseteq Nat
  BY DEF OnBudget, Ticks
<1>2. \A t \in Ticks : t >= n + 1 => spent[t] = spent[n + 1]
  BY <1>1 DEF OnBudget
<1>3. ASSUME NEW s \in Ticks, NEW e \in Ticks, s <= e, e < n + 1
      PROVE  spent[e] - Before(spent, s) <= burst + rate * (e - s)
  BY <1>3, BudgetHolds DEF WithinBudget
<1>4. ASSUME NEW s \in Ticks, s <= n + 1
      PROVE  spent[n + 1] - Before(spent, s) + q <= burst + rate * (n + 1 - s)
  <2>1. spent[n + 1] = spent[n] /\ spent[n] \in Nat /\ s \in Nat
    BY <1>1 DEF OnBudget
  <2>2. CASE s <= n
    <3>1. spent[n] - Before(spent, s) + p <= burst + rate * (n - s)
      BY <2>2 DEF OnBudget
    <3>2. rate * (n + 1 - s) = rate * (n - s) + rate /\ rate * (n - s) \in Nat
      <4>1. n - s \in Nat /\ n + 1 - s = (n - s) + 1
        BY <1>1, <2>1, <2>2
      <4> QED BY <4>1, Products
    <3>3. Before(spent, s) \in Nat
      BY <1>1, <2>1 DEF Before, Ticks
    <3> QED BY <1>1, <2>1, <3>1, <3>2, <3>3
  <2>3. CASE s = n + 1
    <3>1. Before(spent, s) = spent[n] /\ rate * (n + 1 - s) = 0
      BY <1>1, <2>3, Products DEF Before
    <3> QED BY <2>1, <3>1
  <2> QED BY <1>1, <1>4, <2>1, <2>2, <2>3
<1> QED BY <1>1, <1>2, <1>3, <1>4 DEF OnBudget

LEMMA BudgetCounts ==
  ASSUME NEW spent, clock \in Ticks, NEW p, NEW q \in Nat, NEW burst \in Nat,
         NEW rate \in Nat, Horizon \in Nat, OnBudget(spent, clock, p, burst, rate), q + 1 <= p
  PROVE  OnBudget(Counted(spent), clock, q, burst, rate)
<1> DEFINE n == clock  more == Counted(spent)
<1>1. spent \in [Ticks -> Nat] /\ p \in Nat /\ n \in Nat /\ Ticks \subseteq Nat
  BY DEF OnBudget, Ticks
<1>2. /\ more \in [Ticks -> Nat]
      /\ \A t \in Ticks : more[t] = IF t >= n THEN spent[t] + 1 ELSE spent[t]
  BY <1>1 DEF Counted
<1> HIDE DEF more
<1>3. \A s \in Ticks : s <= n => Before(more, s) = Before(spent, s) /\ Before(spent, s) \in Nat
  BY <1>1, <1>2 DEF Before, Ticks
<1>4. \A t \in Ticks : t >= n => more[t] = more[n]
  BY <1>1, <1>2 DEF OnBudget
<1>5. ASSUME NEW s \in Ticks, NEW e \in Ticks, s <= e, e < n
      PROVE  more[e] - Before(more, s) <= burst + rate * (e - s)
  <2>1. more[e] = spent[e] /\ Before(more, s) = Before(spent, s)
    BY <1>1, <1>2, <1>3, <1>5
  <2> QED BY <2>1, <1>5 DEF OnBudget
<1>6. ASSUME NEW s \in Ticks, s <= n
      PROVE  more[n] - Before(more, s) + q <= burst + rate * (n - s)
  <2>1. spent[n] - Before(spent, s) + p <= burst + rate * (n - s)
    BY <1>6 DEF OnBudget
  <2>2. more[n] = spent[n] + 1 /\ spent[n] \in Nat /\ rate * (n - s) \in Nat
    BY <1>1, <1>2, <1>6, Products
  <2> QED BY <1>1, <1>3, <1>6, <2>1, <2>2
<1> QED BY <1>1, <1>2, <1>4, <1>5, <1>6 DEF OnBudget, more

\* A larger budget keeps what the smaller one kept.
LEMMA BudgetGrows ==
  ASSUME NEW spent, NEW n \in Ticks, NEW p, NEW q \in Nat, NEW burst \in Nat, NEW rate \in Nat,
         NEW burst2 \in Nat, NEW rate2 \in Nat, Horizon \in Nat,
         OnBudget(spent, n, p, burst, rate), rate <= rate2, burst <= burst2,
         q - p <= burst2 - burst
  PROVE  OnBudget(spent, n, q, burst2, rate2)
<1>1. spent \in [Ticks -> Nat] /\ p \in Nat /\ n \in Nat /\ Ticks \subseteq Nat
  BY DEF OnBudget, Ticks
<1>2. \A m \in Nat : rate * m <= rate2 * m /\ rate * m \in Nat /\ rate2 * m \in Nat
  BY Products
<1>3. \A s \in Ticks : s <= n => Before(spent, s) \in Nat
  BY <1>1 DEF Before, Ticks
<1>4. ASSUME NEW s \in Ticks, NEW e \in Ticks, s <= e, e < n
      PROVE  spent[e] - Before(spent, s) <= burst2 + rate2 * (e - s)
  <2>1. spent[e] - Before(spent, s) <= burst + rate * (e - s)
    BY <1>4 DEF OnBudget
  <2>2. e - s \in Nat /\ spent[e] \in Nat /\ Before(spent, s) \in Nat
    BY <1>1, <1>3, <1>4
  <2>3. rate * (e - s) <= rate2 * (e - s) /\ rate * (e - s) \in Nat /\ rate2 * (e - s) \in Nat
    BY <1>2, <2>2
  <2> QED BY <2>1, <2>2, <2>3
<1>5. ASSUME NEW s \in Ticks, s <= n
      PROVE  spent[n] - Before(spent, s) + q <= burst2 + rate2 * (n - s)
  <2>1. spent[n] - Before(spent, s) + p <= burst + rate * (n - s)
    BY <1>5 DEF OnBudget
  <2>2. n - s \in Nat /\ spent[n] \in Nat /\ Before(spent, s) \in Nat
    BY <1>1, <1>3, <1>5
  <2>3. rate * (n - s) <= rate2 * (n - s) /\ rate * (n - s) \in Nat /\ rate2 * (n - s) \in Nat
    BY <1>2, <2>2
  <2> QED BY <1>1, <2>1, <2>2, <2>3
<1>6. \A t \in Ticks : t >= n => spent[t] = spent[n]
  BY DEF OnBudget
<1> QED BY <1>1, <1>4, <1>5, <1>6 DEF OnBudget

LEMMA BudgetShrinks ==
  ASSUME NEW spent, NEW n \in Ticks, NEW p \in Nat, NEW q \in Nat, NEW burst \in Nat,
         NEW rate \in Nat, Horizon \in Nat, OnBudget(spent, n, p, burst, rate), q <= p
  PROVE  OnBudget(spent, n, q, burst, rate)
<1>1. q - p <= burst - burst /\ rate <= rate /\ burst <= burst
  OBVIOUS
<1> QED BY <1>1, BudgetGrows

----------------------------------------------------------------------------
(* The doors.                                                              *)

Stations == {"new", "auth", "streamAuth", "left", "401", "refused", "429", "limit", "handler",
             "streaming", "orphan", "thrown", "over", "closed"}
InAuth == {q \in Reqs : where[q] = "auth"}
AgentLeft(a) == Left(limiter, a, Capacity, Refill, clock)
FailuresLeft == Left(failures, "ip", MaxFailures, Forgiven, clock)

DoorTypeOK ==
  /\ clock \in Ticks
  /\ BucketsOK(limiter, Agents, Capacity, clock) /\ BucketsOK(failures, Source, MaxFailures, clock)
  /\ where \in [Reqs -> Stations] /\ caller \in [Reqs -> Agents]
  /\ openStreams \in Nat /\ ledger \in [Agents -> Nat]
  /\ passed \in [Agents -> [Ticks -> Nat]] /\ crowd \in Nat

\* The failures that may still be charged before anything more is forgiven: a
\* token lets all of `crowd` pass the guard, and without one those that have
\* passed it are left.
Exposure == IF FailuresLeft = 0 THEN Cardinality(InAuth) ELSE crowd * FailuresLeft

FailuresKept ==
  /\ Cardinality(InAuth) <= crowd
  /\ FailuresLeft = 0 => Cardinality(InAuth) < crowd \/ InAuth = {}
  /\ MaxFailures = 0 => InAuth = {}
  /\ OnBudget(charged, clock, Exposure, crowd * MaxFailures, crowd * Forgiven)

\* The inductive invariant of the doors: what was spent and what is left in a
\* bucket stay within the budget of every window that ends now.
DoorInv ==
  /\ DoorTypeOK
  /\ \A a \in Agents : OnBudget(passed[a], clock, AgentLeft(a), Capacity, Refill)
  /\ FailuresKept
  /\ StreamsCounted

LEMMA DoorNumbers ==
  /\ {Capacity, Refill, IdleTTL, MaxFailures, Forgiven, FailTTL, MaxStreams,
      MaxStreamsPerAgent, Horizon} \subseteq Nat
  /\ Capacity <= IdleTTL * Refill /\ MaxFailures <= FailTTL * Forgiven
  /\ IsFiniteSet(Reqs) /\ Ticks \subseteq Nat /\ 0 \in Ticks
BY FrontDoorAssumption DEF Ticks

\* A request that moves leaves one station for another.
LEMMA Moved ==
  ASSUME NEW w \in [Reqs -> Stations], NEW r \in Reqs, NEW from \in Stations, NEW to \in Stations,
         from # to, w[r] = from
  PROVE  LET v == [w EXCEPT ![r] = to] IN
         /\ v \in [Reqs -> Stations]
         /\ {q \in Reqs : v[q] = to} = {q \in Reqs : w[q] = to} \union {r}
         /\ {q \in Reqs : v[q] = from} = {q \in Reqs : w[q] = from} \ {r}
         /\ \A st \in Stations \ {from, to} : {q \in Reqs : v[q] = st} = {q \in Reqs : w[q] = st}
         /\ \A T \in SUBSET (Stations \ {from, to}) :
              {q \in Reqs : v[q] \in T} = {q \in Reqs : w[q] \in T}
         /\ r \in {q \in Reqs : w[q] = from} /\ r \notin {q \in Reqs : w[q] = to}
OBVIOUS

LEMMA Counts ==
  ASSUME NEW S \in SUBSET Reqs
  PROVE  IsFiniteSet(S) /\ Cardinality(S) \in Nat /\ (Cardinality(S) = 0 <=> S = {})
<1>1. IsFiniteSet(S)
  BY DoorNumbers, FS_Subset
<1> QED BY <1>1, FS_CardinalityType, FS_EmptySet

LEMMA OneMore ==
  ASSUME NEW S \in SUBSET Reqs, NEW r \in Reqs
  PROVE  /\ r \notin S => Cardinality(S \union {r}) = Cardinality(S) + 1
         /\ r \in S => Cardinality(S) >= 1 /\ Cardinality(S \ {r}) = Cardinality(S) - 1
<1>1. IsFiniteSet(S)
  BY Counts
<1>2. Cardinality(S) \in Nat /\ (Cardinality(S) = 0 <=> S = {})
  BY Counts
<1>3. r \notin S => Cardinality(S \union {r}) = Cardinality(S) + 1
  BY <1>1, FS_AddElement
<1>4. r \in S => Cardinality(S) >= 1 /\ Cardinality(S \ {r}) = Cardinality(S) - 1
  <2>1. Cardinality(S \ {r}) = IF r \in S THEN Cardinality(S) - 1 ELSE Cardinality(S)
    BY <1>1, FS_RemoveElement
  <2>2. r \in S => Cardinality(S) # 0
    BY <1>2
  <2> QED BY <1>2, <2>1, <2>2
<1> QED BY <1>1, <1>2, <1>3, <1>4

LEMMA DoorStarts == DoorInit => DoorInv
<1> SUFFICES ASSUME DoorInit PROVE DoorInv
  OBVIOUS
<1> USE DoorNumbers
<1>1. /\ clock = 0 /\ crowd = 0 /\ openStreams = 0
      /\ limiter = FullBuckets(Agents, Capacity) /\ failures = FullBuckets(Source, MaxFailures)
      /\ where = [r \in Reqs |-> "new"] /\ caller \in [Reqs -> Agents]
      /\ ledger = [a \in Agents |-> 0] /\ passed = [a \in Agents |-> [t \in Ticks |-> 0]]
      /\ charged = [t \in Ticks |-> 0]
  BY DEF DoorInit
<1>2. DoorTypeOK
  BY <1>1 DEF DoorTypeOK, BucketsOK, FullBuckets, Source, Stations
<1>3. ASSUME NEW burst \in Nat, NEW rate \in Nat, NEW p \in 0 .. burst
      PROVE  OnBudget([t \in Ticks |-> 0], 0, p, burst, rate)
  <2>1. \A m \in Nat : rate * m \in Nat
    BY Products
  <2>2. \A t \in Ticks : Before([u \in Ticks |-> 0], t) = 0
    BY DEF Before, Ticks
  <2> DEFINE zero == [u \in Ticks |-> 0]
  <2>3. zero \in [Ticks -> Nat] /\ \A t \in Ticks : zero[t] = 0 /\ Before(zero, t) = 0
    BY <2>2
  <2> HIDE DEF zero
  <2>4. \A s, e \in Ticks : s <= e => zero[e] - Before(zero, s) <= burst + rate * (e - s)
    <3> TAKE s, e \in Ticks
    <3> HAVE s <= e
    <3>1. e - s \in Nat
      BY DEF Ticks
    <3>2. rate * (e - s) \in Nat
      BY <2>1, <3>1
    <3> QED BY <2>3, <3>2
  <2>5. \A s \in Ticks : s <= 0 => zero[0] - Before(zero, s) + p <= burst + rate * (0 - s)
    <3> TAKE s \in Ticks
    <3> HAVE s <= 0
    <3>1. s = 0 /\ rate * (0 - s) = 0
      BY Products DEF Ticks
    <3> QED BY <2>3, <3>1
  <2>6. OnBudget(zero, 0, p, burst, rate)
    BY <2>3, <2>4, <2>5 DEF OnBudget, Ticks
  <2> QED BY <2>6 DEF zero
<1>4. \A a \in Agents : AgentLeft(a) \in 0 .. Capacity
  BY <1>1, <1>2, LeftIsCapped DEF AgentLeft, DoorTypeOK
<1>5. InAuth = {} /\ Slots = {} /\ \A a \in Agents : {r \in Slots : caller[r] = a} = {}
  BY <1>1 DEF InAuth, Slots
<1>6. Cardinality({}) = 0
  BY FS_EmptySet
<1>7. FailuresLeft \in 0 .. MaxFailures
  BY <1>1, <1>2, LeftIsCapped DEF FailuresLeft, DoorTypeOK, Source
<1>8. Exposure = 0
  BY <1>1, <1>5, <1>6, <1>7, Products DEF Exposure
<1>9. FailuresKept
  <2>1. crowd * MaxFailures = 0 /\ crowd * Forgiven = 0
    BY <1>1, Products
  <2>2. OnBudget(charged, clock, Exposure, 0, 0)
    <3>1. 0 \in Nat /\ 0 \in 0 .. 0
      OBVIOUS
    <3>2. OnBudget([t \in Ticks |-> 0], 0, 0, 0, 0)
      BY <3>1, <1>3
    <3> QED BY <3>2, <1>1, <1>8
  <2>3. Cardinality(InAuth) = 0
    BY <1>5, <1>6
  <2> QED BY <1>1, <1>5, <2>1, <2>2, <2>3 DEF FailuresKept
<1>10. StreamsCounted
  BY <1>1, <1>5, <1>6 DEF StreamsCounted
<1> QED BY <1>1, <1>2, <1>3, <1>4, <1>9, <1>10 DEF DoorInv

\* What does not spend: the buckets, the counts and the crowd are as they were.
LEMMA AgentsKeep ==
  ASSUME DoorInv, UNCHANGED <<clock, limiter, passed>>
  PROVE  \A a \in Agents : OnBudget(passed[a], clock, AgentLeft(a), Capacity, Refill)'
BY DEF DoorInv, OnBudget, AgentLeft, Left, Refilled, Lesser, Before

LEMMA FailuresStay ==
  ASSUME DoorInv, UNCHANGED <<clock, failures, charged, crowd>>, InAuth' = InAuth
  PROVE  FailuresKept'
BY DEF DoorInv, FailuresKept, OnBudget, Exposure, FailuresLeft, Left, Refilled, Lesser, Before

LEMMA StreamsStay ==
  ASSUME DoorInv, UNCHANGED <<openStreams, ledger, caller>>, Slots' = Slots
  PROVE  StreamsCounted'
BY DEF DoorInv, StreamsCounted

LEMMA ElapseKeeps == DoorInv /\ Elapse => DoorInv'
<1> SUFFICES ASSUME DoorInv, Elapse PROVE DoorInv'
  OBVIOUS
<1> USE DoorNumbers
<1>t. DoorTypeOK /\ FailuresKept
  BY DEF DoorInv
<1>1. /\ clock' = clock + 1 /\ clock \in Nat /\ clock \in Ticks /\ clock + 1 \in Ticks
      /\ UNCHANGED <<limiter, failures, where, caller, openStreams, ledger, passed, charged, crowd>>
  BY <1>t DEF Elapse, DoorTypeOK, Ticks
<1>2. \A b, K, cap : BucketsOK(b, K, cap, clock) => BucketsOK(b, K, cap, clock + 1)
  <2> SUFFICES ASSUME NEW b, NEW K, NEW cap, BucketsOK(b, K, cap, clock)
               PROVE  BucketsOK(b, K, cap, clock + 1)
    OBVIOUS
  <2>1. 0 .. clock \subseteq 0 .. (clock + 1)
    BY <1>1
  <2> QED BY <2>1 DEF BucketsOK
<1>3. DoorTypeOK'
  BY <1>1, <1>2, <1>t DEF DoorTypeOK
<1>4. ASSUME NEW a \in Agents PROVE OnBudget(passed[a], clock, AgentLeft(a), Capacity, Refill)'
  <2>1. /\ AgentLeft(a) \in 0 .. Capacity
        /\ Left(limiter, a, Capacity, Refill, clock + 1) <= AgentLeft(a) + Refill
    BY <1>1, <1>t, LeftIsCapped DEF AgentLeft, DoorTypeOK
  <2>2. Left(limiter, a, Capacity, Refill, clock + 1) \in 0 .. Capacity
    BY <1>1, <1>2, <1>t, LeftIsCapped DEF DoorTypeOK
  <2>3. OnBudget(passed[a], clock, AgentLeft(a), Capacity, Refill)
    BY DEF DoorInv
  <2>4. OnBudget(passed[a], clock + 1, Left(limiter, a, Capacity, Refill, clock + 1), Capacity, Refill)
    BY <1>1, <2>1, <2>2, <2>3, BudgetWaits
  <2> QED BY <1>1, <2>4 DEF AgentLeft
<1>5. FailuresKept'
  <2> DEFINE n == Cardinality(InAuth)  m == Left(failures, "ip", MaxFailures, Forgiven, clock + 1)
             p == IF m = 0 THEN n ELSE crowd * m
  <2>1. "ip" \in Source
    BY DEF Source
  <2>2. /\ FailuresLeft \in 0 .. MaxFailures /\ FailuresLeft <= m
        /\ m <= FailuresLeft + Forgiven /\ m \in 0 .. MaxFailures
    BY <1>1, <1>2, <1>t, <2>1, LeftIsCapped DEF FailuresLeft, DoorTypeOK
  <2>3. n \in Nat /\ crowd \in Nat /\ n <= crowd /\ (n = 0 <=> InAuth = {})
    <3>1. InAuth \in SUBSET Reqs
      BY DEF InAuth
    <3> QED BY <1>t, <3>1, Counts DEF FailuresKept, DoorTypeOK
  <2>4. /\ crowd * MaxFailures \in Nat /\ crowd * Forgiven \in Nat /\ crowd * m \in Nat
        /\ crowd * m <= crowd * MaxFailures
        /\ crowd * m <= crowd * (FailuresLeft + Forgiven)
        /\ crowd * (FailuresLeft + Forgiven) = crowd * FailuresLeft + crowd * Forgiven
        /\ crowd * FailuresLeft \in Nat
        /\ MaxFailures # 0 => crowd <= crowd * MaxFailures
        /\ crowd * 0 = 0
    BY <2>2, <2>3
  <2> HIDE DEF n, m
  <2>5. p \in Nat /\ p <= Exposure + crowd * Forgiven /\ p <= crowd * MaxFailures
    <3>1. MaxFailures = 0 => n = 0
      BY <1>t, <2>3 DEF FailuresKept
    <3>2. CASE m = 0
      BY <2>2, <2>3, <2>4, <3>1, <3>2 DEF Exposure, n
    <3>3. CASE m # 0
      <4>1. CASE FailuresLeft = 0
        BY <2>2, <2>3, <2>4, <3>3, <4>1 DEF Exposure, n
      <4>2. CASE FailuresLeft # 0
        BY <2>2, <2>3, <2>4, <3>3, <4>2 DEF Exposure
      <4> QED BY <4>1, <4>2
    <3> QED BY <3>2, <3>3
  <2>6. OnBudget(charged, clock, Exposure, crowd * MaxFailures, crowd * Forgiven)
    BY <1>t DEF FailuresKept
  <2>7. OnBudget(charged, clock + 1, p, crowd * MaxFailures, crowd * Forgiven)
    BY <1>1, <2>4, <2>5, <2>6, BudgetWaits
  <2>8. InAuth' = InAuth /\ FailuresLeft' = m
    BY <1>1 DEF InAuth, FailuresLeft, m
  <2>9. Exposure' = p
    BY <1>1, <2>8 DEF Exposure, n
  <2>10. m = 0 => FailuresLeft = 0
    BY <2>2
  <2> QED BY <1>1, <1>t, <2>7, <2>8, <2>9, <2>10 DEF FailuresKept
<1>6. StreamsCounted'
  BY <1>1, StreamsStay DEF Slots
<1> QED BY <1>3, <1>4, <1>5, <1>6 DEF DoorInv

\* The failure budget is read but not spent.
LEMMA BudgetRead ==
  ASSUME DoorInv
  PROVE  /\ "ip" \in Source /\ FailuresLeft \in 0 .. MaxFailures
         /\ BucketsOK(FailureBuckets, Source, MaxFailures, clock)
         /\ FailureBuckets.tokens["ip"] = FailuresLeft /\ FailureBuckets.at["ip"] = clock
         /\ Left(FailureBuckets, "ip", MaxFailures, Forgiven, clock) = FailuresLeft
<1> USE DoorNumbers
<1>1. "ip" \in Source /\ clock \in Nat /\ BucketsOK(failures, Source, MaxFailures, clock)
  BY DEF DoorInv, DoorTypeOK, Source
<1>2. FailuresLeft \in 0 .. MaxFailures
  BY <1>1, LeftIsCapped DEF FailuresLeft
<1> QED BY <1>1, <1>2, LookKeeps DEF FailureBuckets, FailuresLeft

LEMMA CrowdNumbers ==
  ASSUME DoorInv
  PROVE  /\ Cardinality(InAuth) \in Nat /\ crowd \in Nat /\ FailuresLeft \in Nat
         /\ Cardinality(InAuth) <= crowd /\ (Cardinality(InAuth) = 0 <=> InAuth = {})
         /\ crowd * MaxFailures \in Nat /\ crowd * Forgiven \in Nat
         /\ crowd * FailuresLeft \in Nat /\ Exposure \in Nat
<1>1. InAuth \in SUBSET Reqs
  BY DEF InAuth
<1>2. crowd \in Nat /\ FailuresLeft \in Nat /\ Cardinality(InAuth) <= crowd
  BY BudgetRead DEF DoorInv, DoorTypeOK, FailuresKept
<1>3. Cardinality(InAuth) \in Nat /\ (Cardinality(InAuth) = 0 <=> InAuth = {})
  BY <1>1, Counts
<1>4. crowd * MaxFailures \in Nat /\ crowd * Forgiven \in Nat /\ crowd * FailuresLeft \in Nat
  BY <1>2, DoorNumbers, Products
<1> QED BY <1>2, <1>3, <1>4 DEF Exposure

LEMMA GuardKeeps == \A r \in Reqs : DoorInv /\ Guard(r) => DoorInv'
<1> SUFFICES ASSUME NEW r \in Reqs, DoorInv, Guard(r) PROVE DoorInv'
  OBVIOUS
<1> DEFINE to == IF FailuresLeft >= 1 THEN "auth" ELSE "429"
<1>t. DoorTypeOK /\ FailuresKept
  BY DEF DoorInv
<1>1. /\ where[r] = "new" /\ where' = [where EXCEPT ![r] = to] /\ to \in {"auth", "429"}
      /\ failures' = FailureBuckets
      /\ UNCHANGED <<clock, limiter, caller, openStreams, ledger, passed, charged>>
      /\ crowd' = IF Cardinality(InAuth') > crowd THEN Cardinality(InAuth') ELSE crowd
  BY BudgetRead DEF Guard, AtMove, InAuth
<1>2. /\ where' \in [Reqs -> Stations] /\ Slots' = Slots
      /\ InAuth' = IF FailuresLeft >= 1 THEN InAuth \union {r} ELSE InAuth
      /\ r \notin InAuth /\ InAuth \in SUBSET Reqs
  BY <1>t, <1>1, Moved DEF DoorTypeOK, Stations, InAuth, Slots
<1>3. Cardinality(InAuth') = IF FailuresLeft >= 1 THEN Cardinality(InAuth) + 1 ELSE Cardinality(InAuth)
  BY <1>2, OneMore
<1> DEFINE A == Cardinality(InAuth)
<1> HIDE DEF A
<1>4. /\ A \in Nat /\ crowd \in Nat /\ FailuresLeft \in Nat /\ A <= crowd
      /\ FailuresLeft <= MaxFailures /\ MaxFailures \in Nat /\ Forgiven \in Nat
  BY CrowdNumbers, BudgetRead, DoorNumbers DEF A
<1>5. /\ crowd' \in Nat /\ crowd <= crowd' /\ Cardinality(InAuth') <= crowd'
      /\ FailuresLeft = 0 => crowd' = crowd /\ InAuth' = InAuth
      /\ FailuresLeft >= 1 => crowd' \in {crowd, crowd + 1}
  BY <1>1, <1>2, <1>3, <1>4 DEF A
<1>6. DoorTypeOK'
  BY <1>t, <1>1, <1>2, <1>5, BudgetRead DEF DoorTypeOK
<1>7. FailuresLeft' = FailuresLeft
  BY <1>1, BudgetRead DEF FailuresLeft
<1>8. FailuresKept'
  <2>1. OnBudget(charged, clock, Exposure, crowd * MaxFailures, crowd * Forgiven) /\ clock \in Ticks
    BY <1>t DEF FailuresKept, DoorTypeOK
  <2>2. CASE FailuresLeft = 0
    BY <1>t, <1>1, <1>5, <1>7, <2>1, <2>2 DEF FailuresKept, Exposure
  <2>3. CASE FailuresLeft >= 1
    <3>1. Exposure = crowd * FailuresLeft /\ Exposure' = crowd' * FailuresLeft
      BY <1>7, <2>3 DEF Exposure
    <3>2. /\ crowd * MaxFailures \in Nat /\ crowd' * MaxFailures \in Nat
          /\ crowd * Forgiven \in Nat /\ crowd' * Forgiven \in Nat
          /\ crowd * FailuresLeft \in Nat /\ crowd' * FailuresLeft \in Nat
          /\ crowd * Forgiven <= crowd' * Forgiven
          /\ crowd * MaxFailures <= crowd' * MaxFailures
      BY <1>4, <1>5, Products
    <3>3. crowd' * FailuresLeft - crowd * FailuresLeft <= crowd' * MaxFailures - crowd * MaxFailures
      <4>1. CASE crowd' = crowd
        BY <4>1, <3>2
      <4>2. CASE crowd' = crowd + 1
        <5>1. /\ (crowd + 1) * FailuresLeft = crowd * FailuresLeft + FailuresLeft
              /\ (crowd + 1) * MaxFailures = crowd * MaxFailures + MaxFailures
          BY <1>4, Products
        <5> QED BY <4>2, <5>1, <3>2, <1>4
      <4> QED BY <1>5, <2>3, <4>1, <4>2
    <3>4. OnBudget(charged, clock, crowd' * FailuresLeft, crowd' * MaxFailures, crowd' * Forgiven)
      BY <2>1, <3>1, <3>2, <3>3, DoorNumbers, BudgetGrows
    <3>5. MaxFailures # 0
      BY <1>4, <2>3
    <3> QED BY <1>1, <1>5, <1>7, <2>3, <3>1, <3>4, <3>5 DEF FailuresKept
  <2> QED BY <1>4, <2>2, <2>3
<1> QED BY <1>1, <1>2, <1>6, <1>8, AgentsKeep, StreamsStay DEF DoorInv

LEMMA UnauthenticatedKeeps == \A r \in Reqs : DoorInv /\ Unauthenticated(r) => DoorInv'
<1> SUFFICES ASSUME NEW r \in Reqs, DoorInv, Unauthenticated(r) PROVE DoorInv'
  OBVIOUS
<1> DEFINE A == Cardinality(InAuth)  L == IF FailuresLeft > 0 THEN FailuresLeft - 1 ELSE 0
           left == IF L = 0 THEN A - 1 ELSE crowd * L
<1>t. DoorTypeOK /\ FailuresKept
  BY DEF DoorInv
<1>1. /\ where[r] = "auth" /\ where' = [where EXCEPT ![r] = "401"]
      /\ failures' = Spend(FailureBuckets, "ip") /\ charged' = Counted(charged)
      /\ UNCHANGED <<clock, limiter, caller, openStreams, ledger, passed, crowd>>
  BY DEF Unauthenticated, AtMove
<1>2. /\ where' \in [Reqs -> Stations] /\ Slots' = Slots
      /\ InAuth' = InAuth \ {r} /\ r \in InAuth /\ InAuth \in SUBSET Reqs
  BY <1>t, <1>1, Moved DEF DoorTypeOK, Stations, InAuth, Slots
<1>3. Cardinality(InAuth') = A - 1 /\ A >= 1
  BY <1>2, OneMore
<1>4. /\ BucketsOK(failures', Source, MaxFailures, clock) /\ FailuresLeft' = L
      /\ clock \in Nat
  <2>1. clock \in Nat
    BY <1>t, DoorNumbers DEF DoorTypeOK
  <2>2. FailureBuckets.tokens["ip"] = FailuresLeft
    BY BudgetRead
  <2>3. /\ BucketsOK(Spend(FailureBuckets, "ip"), Source, MaxFailures, clock)
        /\ Left(Spend(FailureBuckets, "ip"), "ip", MaxFailures, Forgiven, clock) = L
    BY <2>1, <2>2, BudgetRead, DoorNumbers, SpendTakes
  <2> QED BY <1>1, <2>1, <2>3 DEF FailuresLeft
<1> HIDE DEF A
<1>5. /\ A \in Nat /\ crowd \in Nat /\ FailuresLeft \in Nat /\ A <= crowd
      /\ crowd * MaxFailures \in Nat /\ crowd * Forgiven \in Nat
  BY CrowdNumbers DEF A
<1>6. left \in Nat /\ left + 1 <= Exposure
  <2>1. CASE FailuresLeft = 0
    BY <1>3, <1>5, <2>1 DEF Exposure, A
  <2>2. CASE FailuresLeft = 1
    <3>1. crowd * 1 = crowd
      BY <1>5
    <3> QED BY <1>3, <1>5, <2>2, <3>1 DEF Exposure
  <2>3. CASE FailuresLeft > 1
    <3>1. L \in Nat /\ L # 0 /\ FailuresLeft = L + 1
      BY <1>5, <2>3
    <3>2. crowd * (L + 1) = crowd * L + crowd /\ crowd * L \in Nat
      BY <1>5, <3>1, Products
    <3>3. Exposure = crowd * L + crowd /\ left = crowd * L
      BY <2>3, <3>1, <3>2 DEF Exposure
    <3> QED BY <1>3, <1>5, <3>2, <3>3
  <2> QED BY <1>5, <2>1, <2>2, <2>3
<1>7. OnBudget(Counted(charged), clock, left, crowd * MaxFailures, crowd * Forgiven)
  BY <1>t, <1>5, <1>6, DoorNumbers, BudgetCounts DEF FailuresKept, DoorTypeOK
<1>8. Exposure' = left
  BY <1>1, <1>3, <1>4 DEF Exposure
<1>9. FailuresKept'
  <2>1. Cardinality(InAuth') < crowd
    BY <1>3, <1>5
  <2>2. MaxFailures # 0
    BY <1>t, <1>2 DEF FailuresKept
  <2> QED BY <1>1, <1>5, <1>3, <1>7, <1>8, <2>1, <2>2 DEF FailuresKept
<1>10. DoorTypeOK'
  BY <1>t, <1>1, <1>2, <1>4 DEF DoorTypeOK
<1> QED BY <1>1, <1>2, <1>9, <1>10, AgentsKeep, StreamsStay DEF DoorInv

LEMMA AuthenticatedKeeps == \A r \in Reqs : DoorInv /\ Authenticated(r) => DoorInv'
<1> SUFFICES ASSUME NEW r \in Reqs, DoorInv, Authenticated(r) PROVE DoorInv'
  OBVIOUS
<1> DEFINE A == Cardinality(InAuth)
<1>t. DoorTypeOK /\ FailuresKept
  BY DEF DoorInv
<1>1. /\ UNCHANGED <<clock, limiter, failures, caller, openStreams, ledger, passed, charged, crowd>>
      /\ where[r] = "auth" /\ where' = [where EXCEPT ![r] = "limit"]
  BY DEF Authenticated, AtMove
<1>2. /\ where' \in [Reqs -> Stations] /\ Slots' = Slots
      /\ r \in InAuth /\ InAuth' = InAuth \ {r} /\ InAuth \in SUBSET Reqs
  BY <1>t, <1>1, Moved DEF DoorTypeOK, Stations, InAuth, Slots
<1>3. DoorTypeOK'
  BY <1>t, <1>1, <1>2 DEF DoorTypeOK
<1>4. FailuresKept'
  <2>1. Cardinality(InAuth') = A - 1 /\ A >= 1
    BY <1>2, OneMore
  <2> HIDE DEF A
  <2>2. A \in Nat /\ crowd \in Nat /\ A <= crowd /\ FailuresLeft \in Nat
        /\ crowd * MaxFailures \in Nat /\ crowd * Forgiven \in Nat
    BY CrowdNumbers DEF A
  <2>3. FailuresLeft' = FailuresLeft
    BY <1>1 DEF FailuresLeft, Left, Refilled, Lesser
  <2>4. Exposure' \in Nat /\ Exposure' <= Exposure
    BY <1>1, <2>1, <2>2, <2>3, Products DEF Exposure, A
  <2>5. OnBudget(charged, clock, Exposure, crowd * MaxFailures, crowd * Forgiven) /\ clock \in Ticks
    BY <1>t DEF FailuresKept, DoorTypeOK
  <2>6. OnBudget(charged, clock, Exposure', crowd * MaxFailures, crowd * Forgiven)
    <3>1. Exposure \in Nat
      BY CrowdNumbers
    <3> QED BY <2>2, <2>4, <2>5, <3>1, DoorNumbers, BudgetShrinks
  <2>7. Cardinality(InAuth') < crowd /\ MaxFailures # 0
    BY <1>t, <1>2, <2>1, <2>2 DEF FailuresKept
  <2>8. Cardinality(InAuth') <= crowd
    BY <2>1, <2>2, <2>7
  <2> QED BY <1>1, <2>6, <2>7, <2>8 DEF FailuresKept
<1> QED BY <1>1, <1>2, <1>3, <1>4, AgentsKeep, StreamsStay DEF DoorInv

\* A stream request on its way to admission, or refused before it.
LEMMA AskStreamKeeps ==
  \A r \in Reqs : DoorInv /\ (AskStream(r) \/ ClientLeaves(r) \/ StreamRefused(r)) => DoorInv'
<1> SUFFICES ASSUME NEW r \in Reqs, DoorInv, AskStream(r) \/ ClientLeaves(r) \/ StreamRefused(r)
             PROVE  DoorInv'
  OBVIOUS
<1>1. /\ UNCHANGED <<clock, limiter, failures, caller, openStreams, ledger, passed, charged, crowd>>
      /\ DoorTypeOK
      /\ \E from \in {"new", "streamAuth", "left"}, to \in {"streamAuth", "left", "refused"} :
           from # to /\ where[r] = from /\ where' = [where EXCEPT ![r] = to]
  BY DEF AskStream, ClientLeaves, StreamRefused, AtMove, DoorInv
<1>2. where' \in [Reqs -> Stations] /\ Slots' = Slots /\ InAuth' = InAuth
  <2>1. PICK from \in {"new", "streamAuth", "left"}, to \in {"streamAuth", "left", "refused"} :
          from # to /\ where[r] = from /\ where' = [where EXCEPT ![r] = to]
    BY <1>1
  <2>2. /\ where \in [Reqs -> Stations] /\ from \in Stations /\ to \in Stations
        /\ "auth" \in Stations \ {from, to} /\ {"streaming", "orphan"} \in SUBSET (Stations \ {from, to})
    BY <1>1, <2>1 DEF DoorTypeOK, Stations
  <2> QED BY <2>1, <2>2, Moved DEF InAuth, Slots
<1>3. DoorTypeOK'
  BY <1>1, <1>2 DEF DoorTypeOK
<1> QED BY <1>1, <1>2, <1>3, AgentsKeep, FailuresStay, StreamsStay DEF DoorInv

LEMMA RateLimitKeeps == \A r \in Reqs : DoorInv /\ RateLimit(r) => DoorInv'
<1> SUFFICES ASSUME NEW r \in Reqs, DoorInv, RateLimit(r) PROVE DoorInv'
  OBVIOUS
<1>t. DoorTypeOK
  BY DEF DoorInv
<1>a. PICK a \in Agents : a = caller[r]
  BY <1>t DEF DoorTypeOK
<1> DEFINE seen == Look(limiter, a, Capacity, Refill, IdleTTL)
           ok == seen.tokens[a] >= 1
<1>1. /\ where[r] = "limit" /\ where' = [where EXCEPT ![r] = IF ok THEN "handler" ELSE "429"]
      /\ limiter' = IF ok THEN Spend(seen, a) ELSE seen
      /\ passed' = IF ok THEN [passed EXCEPT ![a] = Counted(@)] ELSE passed
      /\ UNCHANGED <<clock, failures, caller, openStreams, ledger, charged, crowd>>
  BY <1>a DEF RateLimit, AtMove
<1>2. where' \in [Reqs -> Stations] /\ Slots' = Slots /\ InAuth' = InAuth
  BY <1>t, <1>1, Moved DEF DoorTypeOK, Stations, InAuth, Slots
<1>3. clock \in Nat /\ clock \in Ticks /\ BucketsOK(limiter, Agents, Capacity, clock)
      /\ Capacity \in Nat /\ Refill \in Nat /\ IdleTTL \in Nat /\ Capacity <= IdleTTL * Refill
      /\ passed \in [Agents -> [Ticks -> Nat]] /\ Horizon \in Nat
  BY <1>t, DoorNumbers DEF DoorTypeOK
<1>4. /\ BucketsOK(seen, Agents, Capacity, clock) /\ seen.tokens[a] = AgentLeft(a)
      /\ seen.at[a] = clock
      /\ \A x \in Agents : Left(seen, x, Capacity, Refill, clock) = AgentLeft(x)
  BY <1>3, LookKeeps DEF AgentLeft
<1> HIDE DEF seen
<1>5. AgentLeft(a) \in Nat
  <2>1. Left(limiter, a, Capacity, Refill, clock) \in 0 .. Capacity
    BY <1>3, LeftIsCapped
  <2> QED BY <1>3, <2>1 DEF AgentLeft
<1>6. CASE ok
  <2>1. /\ BucketsOK(limiter', Agents, Capacity, clock)
        /\ AgentLeft(a)' = AgentLeft(a) - 1
        /\ \A x \in Agents \ {a} : AgentLeft(x)' = AgentLeft(x)
    <3>1. limiter' = Spend(seen, a) /\ clock' = clock /\ seen.tokens[a] > 0
      BY <1>1, <1>4, <1>5, <1>6
    <3> QED BY <1>3, <1>4, <1>5, <3>1, SpendTakes DEF AgentLeft
  <2>2. /\ passed'[a] = Counted(passed[a]) /\ \A x \in Agents \ {a} : passed'[x] = passed[x]
        /\ passed' = [passed EXCEPT ![a] = Counted(passed[a])]
    BY <1>1, <1>3, <1>6
  <2>3. Counted(passed[a]) \in [Ticks -> Nat]
    BY <1>3 DEF Counted
  <2>4. passed' \in [Agents -> [Ticks -> Nat]]
    BY <1>3, <2>2, <2>3
  <2>5. OnBudget(Counted(passed[a]), clock, AgentLeft(a) - 1, Capacity, Refill)
    <3>1. AgentLeft(a) - 1 \in Nat /\ (AgentLeft(a) - 1) + 1 <= AgentLeft(a)
      BY <1>4, <1>5, <1>6
    <3>2. OnBudget(passed[a], clock, AgentLeft(a), Capacity, Refill)
      BY <1>3 DEF DoorInv
    <3> QED BY <1>3, <3>1, <3>2, BudgetCounts
  <2>6. \A x \in Agents : OnBudget(passed[x], clock, AgentLeft(x), Capacity, Refill)'
    <3> SUFFICES ASSUME NEW x \in Agents
                 PROVE  OnBudget(passed[x], clock, AgentLeft(x), Capacity, Refill)'
      OBVIOUS
    <3>1. OnBudget(passed'[x], clock, AgentLeft(x)', Capacity, Refill)
      <4>1. CASE x = a
        BY <2>1, <2>2, <2>5, <4>1
      <4>2. CASE x # a
        BY <2>1, <2>2, <4>2 DEF DoorInv
      <4> QED BY <4>1, <4>2
    <3>2. clock' = clock
      BY <1>1
    <3> HIDE DEF AgentLeft
    <3> QED BY <3>1, <3>2 DEF OnBudget, Before
  <2>7. DoorTypeOK'
    BY <1>t, <1>1, <1>2, <2>1, <2>4 DEF DoorTypeOK
  <2> QED BY <1>1, <1>2, <2>6, <2>7, FailuresStay, StreamsStay DEF DoorInv
<1>7. CASE ~ok
  <2>1. limiter' = seen /\ clock' = clock /\ passed' = passed
    BY <1>1, <1>7
  <2>2. \A x \in Agents : AgentLeft(x)' = AgentLeft(x)
    BY <1>4, <2>1 DEF AgentLeft
  <2>3. \A x \in Agents : OnBudget(passed[x], clock, AgentLeft(x), Capacity, Refill)'
    BY <2>1, <2>2 DEF DoorInv, OnBudget, Before
  <2>4. DoorTypeOK'
    BY <1>t, <1>1, <1>2, <1>4, <2>1 DEF DoorTypeOK
  <2> QED BY <1>1, <1>2, <2>3, <2>4, FailuresStay, StreamsStay DEF DoorInv
<1> QED BY <1>6, <1>7

\* A slot taken, or given back, changes the count of one agent and the total.
LEMMA SlotsKeep ==
  ASSUME DoorInv, NEW r \in Reqs, UNCHANGED caller,
         \/ /\ r \notin Slots /\ Slots' = Slots \union {r}
            /\ openStreams < MaxStreams /\ ledger[caller[r]] < MaxStreamsPerAgent
            /\ openStreams' = openStreams + 1 /\ ledger' = [ledger EXCEPT ![caller[r]] = @ + 1]
         \/ /\ r \in Slots /\ Slots' = Slots \ {r}
            /\ openStreams' = openStreams - 1
            /\ ledger' = [ledger EXCEPT ![caller[r]] = IF @ > 0 THEN @ - 1 ELSE 0]
  PROVE  StreamsCounted' /\ openStreams' \in Nat /\ ledger' \in [Agents -> Nat]
<1> USE DoorNumbers
<1>a. PICK a \in Agents : a = caller[r]
  BY DEF DoorInv, DoorTypeOK
<1> DEFINE Of(x) == {q \in Slots : caller[q] = x}
<1>1. /\ caller \in [Reqs -> Agents] /\ openStreams \in Nat
      /\ ledger \in [Agents -> Nat] /\ Slots \in SUBSET Reqs /\ Of(a) \in SUBSET Reqs
  BY DEF DoorInv, DoorTypeOK, Slots
<1>2. /\ openStreams = Cardinality(Slots) /\ openStreams <= MaxStreams
      /\ \A x \in Agents : ledger[x] = Cardinality(Of(x)) /\ ledger[x] <= MaxStreamsPerAgent
  BY DEF DoorInv, StreamsCounted
<1>3. \A x \in Agents \ {a} : {q \in Slots' : caller'[q] = x} = Of(x)
  BY <1>a
<1>4. CASE r \notin Slots
  <2>1. {q \in Slots' : caller'[q] = a} = Of(a) \union {r} /\ r \notin Of(a)
    BY <1>a, <1>4
  <2>2. /\ Cardinality(Slots') = openStreams + 1
        /\ Cardinality({q \in Slots' : caller'[q] = a}) = ledger[a] + 1
    <3>1. Slots' = Slots \union {r} /\ ledger[a] = Cardinality(Of(a))
      BY <1>2, <1>4
    <3> HIDE DEF Of
    <3>2. /\ Cardinality(Slots \union {r}) = Cardinality(Slots) + 1
          /\ Cardinality(Of(a) \union {r}) = Cardinality(Of(a)) + 1
      BY <1>1, <1>4, <2>1, OneMore
    <3> QED BY <1>2, <2>1, <3>1, <3>2
  <2> HIDE DEF Of
  <2>3. /\ openStreams' = openStreams + 1 /\ openStreams < MaxStreams
        /\ ledger' = [ledger EXCEPT ![a] = @ + 1] /\ ledger[a] < MaxStreamsPerAgent
    BY <1>a, <1>4
  <2>4. /\ openStreams' = Cardinality(Slots') /\ openStreams' <= MaxStreams
        /\ openStreams' \in Nat /\ ledger' \in [Agents -> Nat]
    BY <1>1, <2>2, <2>3
  <2>5. ASSUME NEW x \in Agents
        PROVE  /\ ledger'[x] = Cardinality({q \in Slots' : caller'[q] = x})
               /\ ledger'[x] <= MaxStreamsPerAgent
    <3>1. CASE x = a
      BY <1>1, <1>2, <2>2, <2>3, <3>1
    <3>2. CASE x # a
      BY <1>1, <1>2, <1>3, <2>3, <3>2
    <3> QED BY <3>1, <3>2
  <2> QED BY <2>4, <2>5 DEF StreamsCounted
<1>5. CASE r \in Slots
  <2>1. {q \in Slots' : caller'[q] = a} = Of(a) \ {r} /\ r \in Of(a)
    BY <1>a, <1>5
  <2>2. /\ Cardinality(Slots') = openStreams - 1 /\ openStreams >= 1
        /\ Cardinality({q \in Slots' : caller'[q] = a}) = ledger[a] - 1 /\ ledger[a] >= 1
    <3>1. Slots' = Slots \ {r} /\ ledger[a] = Cardinality(Of(a))
      BY <1>2, <1>5
    <3> HIDE DEF Of
    <3>2. /\ Cardinality(Slots \ {r}) = Cardinality(Slots) - 1 /\ Cardinality(Slots) >= 1
          /\ Cardinality(Of(a) \ {r}) = Cardinality(Of(a)) - 1 /\ Cardinality(Of(a)) >= 1
      BY <1>1, <1>5, <2>1, OneMore
    <3> QED BY <1>2, <2>1, <3>1, <3>2
  <2> HIDE DEF Of
  <2>3. openStreams' = openStreams - 1 /\ ledger' = [ledger EXCEPT ![a] = ledger[a] - 1]
    BY <1>a, <1>1, <1>5, <2>2
  <2>4. /\ openStreams' = Cardinality(Slots') /\ openStreams' <= MaxStreams
        /\ openStreams' \in Nat /\ ledger' \in [Agents -> Nat]
    BY <1>1, <1>2, <2>2, <2>3
  <2>5. ASSUME NEW x \in Agents
        PROVE  /\ ledger'[x] = Cardinality({q \in Slots' : caller'[q] = x})
               /\ ledger'[x] <= MaxStreamsPerAgent
    <3>1. CASE x = a
      BY <1>1, <1>2, <2>2, <2>3, <3>1
    <3>2. CASE x # a
      BY <1>1, <1>2, <1>3, <2>3, <3>2
    <3> QED BY <3>1, <3>2
  <2> QED BY <2>4, <2>5 DEF StreamsCounted
<1> QED BY <1>4, <1>5

LEMMA AdmitKeeps == \A r \in Reqs : DoorInv /\ Admit(r) => DoorInv'
<1> SUFFICES ASSUME NEW r \in Reqs, DoorInv, Admit(r) PROVE DoorInv'
  OBVIOUS
<1> DEFINE room == openStreams < MaxStreams /\ ledger[caller[r]] < MaxStreamsPerAgent
<1>1. /\ where[r] \in {"streamAuth", "left"}
      /\ \E to \in Stations : /\ where' = [where EXCEPT ![r] = to]
                            /\ to \in IF room THEN {"streaming", "orphan"} ELSE {"429"}
      /\ IF room THEN openStreams' = openStreams + 1 /\ ledger' = [ledger EXCEPT ![caller[r]] = @ + 1]
         ELSE UNCHANGED <<openStreams, ledger>>
      /\ UNCHANGED <<clock, limiter, failures, caller, passed, charged, crowd>> /\ DoorTypeOK
  BY DEF Admit, AtMove, DoorInv, Stations
<1>2. /\ where' \in [Reqs -> Stations] /\ InAuth' = InAuth /\ r \notin Slots
      /\ Slots' = IF room THEN Slots \union {r} ELSE Slots
  <2>1. PICK to \in Stations : /\ where' = [where EXCEPT ![r] = to]
                              /\ to \in IF room THEN {"streaming", "orphan"} ELSE {"429"}
    BY <1>1
  <2> HIDE DEF room
  <2>2. where \in [Reqs -> Stations]
    BY <1>1 DEF DoorTypeOK
  <2>3. where' \in [Reqs -> Stations] /\ where'[r] = to /\ \A q \in Reqs \ {r} : where'[q] = where[q]
    BY <2>1, <2>2
  <2>4. where[r] \notin {"auth", "streaming", "orphan"} /\ to # "auth"
    BY <1>1, <2>1
  <2>5. to \in {"streaming", "orphan"} <=> room
    BY <2>1
  <2>6. InAuth' = InAuth /\ r \notin Slots
    BY <2>3, <2>4 DEF InAuth, Slots
  <2>7. Slots' = IF room THEN Slots \union {r} ELSE Slots
    BY <2>3, <2>4, <2>5 DEF Slots
  <2> QED BY <2>3, <2>6, <2>7
<1>3. StreamsCounted' /\ openStreams' \in Nat /\ ledger' \in [Agents -> Nat]
  <2>1. CASE room
    BY <1>1, <1>2, <2>1, SlotsKeep
  <2>2. CASE ~room
    BY <1>1, <1>2, <2>2, StreamsStay DEF DoorTypeOK
  <2> QED BY <2>1, <2>2
<1>4. DoorTypeOK'
  BY <1>1, <1>2, <1>3 DEF DoorTypeOK
<1> QED BY <1>1, <1>2, <1>3, <1>4, AgentsKeep, FailuresStay DEF DoorInv

LEMMA EndsKeep == \A r \in Reqs : DoorInv /\ (StreamThrows(r) \/ SocketCloses(r)) => DoorInv'
<1> SUFFICES ASSUME NEW r \in Reqs, DoorInv, StreamThrows(r) \/ SocketCloses(r) PROVE DoorInv'
  OBVIOUS
<1>1. /\ UNCHANGED <<clock, limiter, failures, caller, passed, charged, crowd>> /\ DoorTypeOK
      /\ Release(r)
      /\ where[r] \in {"streaming", "orphan", "thrown"}
      /\ \E to \in {"thrown", "over", "closed"} : where' = [where EXCEPT ![r] = to]
  BY DEF StreamThrows, SocketCloses, AtMove, DoorInv
<1>2. where' \in [Reqs -> Stations] /\ InAuth' = InAuth
  <2>1. PICK to \in {"thrown", "over", "closed"} : where' = [where EXCEPT ![r] = to]
    BY <1>1
  <2>2. where[r] # "auth" /\ where'[r] # "auth" /\ \A q \in Reqs \ {r} : where'[q] = where[q]
    BY <1>1, <2>1 DEF DoorTypeOK
  <2>3. where' \in [Reqs -> Stations]
    BY <1>1, <2>1 DEF DoorTypeOK, Stations
  <2> QED BY <2>2, <2>3 DEF InAuth
<1>5. where'[r] \notin {"streaming", "orphan"} /\ \A q \in Reqs \ {r} : where'[q] = where[q]
  BY <1>1 DEF DoorTypeOK
<1>3. StreamsCounted' /\ openStreams' \in Nat /\ ledger' \in [Agents -> Nat]
  <2>1. CASE where[r] \in {"streaming", "orphan"}
    <3>1. r \in Slots /\ Slots' = Slots \ {r}
      BY <1>5, <2>1 DEF Slots
    <3>2. /\ openStreams' = openStreams - 1
          /\ ledger' = [ledger EXCEPT ![caller[r]] = IF @ > 0 THEN @ - 1 ELSE 0]
      BY <1>1, <2>1 DEF Release
    <3> QED BY <1>1, <3>1, <3>2, SlotsKeep
  <2>2. CASE where[r] = "thrown"
    <3>1. Slots' = Slots
      BY <1>5, <2>2 DEF Slots
    <3>2. UNCHANGED <<openStreams, ledger>>
      BY <1>1, <2>2 DEF Release
    <3> QED BY <1>1, <3>1, <3>2, StreamsStay DEF DoorTypeOK
  <2> QED BY <1>1, <2>1, <2>2
<1>4. DoorTypeOK'
  BY <1>1, <1>2, <1>3 DEF DoorTypeOK
<1> QED BY <1>1, <1>2, <1>3, <1>4, AgentsKeep, FailuresStay DEF DoorInv

LEMMA DoorStep ==
  ASSUME DoorInv, DoorNext \/ UNCHANGED doorVars
  PROVE  DoorInv'
<1>1. CASE DoorNext
  BY <1>1, ElapseKeeps, AskStreamKeeps, GuardKeeps, UnauthenticatedKeeps, AuthenticatedKeeps,
     RateLimitKeeps, AdmitKeeps, EndsKeep DEF DoorNext
<1>2. CASE UNCHANGED doorVars
  <2>1. UNCHANGED <<clock, limiter, failures, where, caller, openStreams, ledger, passed, charged, crowd>>
    BY <1>2 DEF doorVars
  <2>2. InAuth' = InAuth /\ Slots' = Slots
    BY <2>1 DEF InAuth, Slots
  <2>3. DoorTypeOK'
    BY <2>1 DEF DoorInv, DoorTypeOK
  <2> QED BY <2>1, <2>2, <2>3, AgentsKeep, FailuresStay, StreamsStay DEF DoorInv
<1> QED BY <1>1, <1>2

LEMMA DoorsFollow == DoorInv => AdmissionBounded
<1> SUFFICES ASSUME DoorInv PROVE BudgetsKept
  BY DEF AdmissionBounded, DoorInv
<1>1. clock \in Ticks
  BY DEF DoorInv, DoorTypeOK
<1>2. \A a \in Agents : WithinBudget(passed[a], Capacity, Refill)
  BY <1>1, DoorNumbers, BudgetHolds DEF DoorInv
<1>3. WithinBudget(charged, crowd * MaxFailures, crowd * Forgiven)
  BY <1>1, CrowdNumbers, DoorNumbers, BudgetHolds DEF DoorInv, FailuresKept
<1> QED BY <1>2, <1>3 DEF BudgetsKept

----------------------------------------------------------------------------
(* The theorems.                                                           *)

LEMMA Parts ==
  ASSUME [ServicesNext]_servicesVars
  PROVE  /\ IdemNext \/ UNCHANGED idemVars
         /\ RulesNext \/ UNCHANGED rulesVars
         /\ DoorNext \/ UNCHANGED doorVars
         /\ StreamNext \/ UNCHANGED streamVars
<1>1. CASE UNCHANGED servicesVars
  BY <1>1 DEF servicesVars
<1>2. CASE ServicesNext
  BY <1>2 DEF ServicesNext, Only
<1> QED BY <1>1, <1>2

\* The inductive invariants of the gate, the rules, the doors, the chain and the
\* stream hold together.
THEOREM ServicesAreSound == ServicesSpec => [](IdemInv /\ RulesInv /\ DoorInv /\ ChainInv /\ StreamInv)
<1> DEFINE I == IdemInv /\ RulesInv /\ DoorInv /\ ChainInv /\ StreamInv
<1>1. ServicesInit => I
  BY IdemStarts, RulesStart, DoorStarts, ChainStarts, StreamStarts DEF ServicesInit
<1>2. I /\ [ServicesNext]_servicesVars => I'
  BY Parts, IdemStep, RulesStep, DoorStep, ChainStep, StreamMoves
<1> QED BY <1>1, <1>2, PTL DEF ServicesSpec

\* Under one idempotency key two executions overlap only once Redis lost the lease.
THEOREM ExecutionsAreExclusive == ServicesSpec => []ExecutionsExclusive
<1>1. IdemInv => ExecutionsExclusive
  BY DEF IdemInv
<1> QED BY <1>1, ServicesAreSound, PTL

\* A replayed answer is the success of a call with the same key and body.
THEOREM ReplaysAreTrue == ServicesSpec => []ReplayIsTrue
<1>1. IdemInv => ReplayIsTrue
  BY DEF IdemInv
<1> QED BY <1>1, ServicesAreSound, PTL

\* Every version of the rules was merged from the one before it.
THEOREM UpdatesAreKept == ServicesSpec => []NoUpdateLost
<1>1. RulesInv => NoUpdateLost
  BY DEF RulesInv
<1> QED BY <1>1, ServicesAreSound, PTL

\* No replica serves rules that were superseded longer ago than a cache
\* lifetime and a query.
THEOREM DriftIsBounded == ServicesSpec => []DriftBounded
<1>1. RulesInv => DriftBounded
  BY DriftFollows
<1> QED BY <1>1, ServicesAreSound, PTL

\* In every window an agent gets at most its burst and the refill, a source
\* fails at most its budget once for every request between guard and verdict,
\* and both counts of streams tell the slots taken and not given back, each at
\* most once, within their ceilings.  They are not the open sockets: a stream
\* that threw is open and uncounted, one whose client left early the reverse.
THEOREM DoorsAreBounded == ServicesSpec => []AdmissionBounded
<1>1. DoorInv => AdmissionBounded
  BY DoorsFollow
<1> QED BY <1>1, ServicesAreSound, PTL

\* Whatever replicas append, throw or die, every link of the audit log holds.
THEOREM ChainIsUnbroken == ServicesSpec => []ChainVerifies
<1>1. ChainInv => ChainVerifies
  BY DEF ChainInv
<1> QED BY <1>1, ServicesAreSound, PTL

\* A browser's frames come in the order of the chain, each once, whatever is
\* replayed, buffered, published meanwhile or cut off.
THEOREM FramesComeInOrder == ServicesSpec => []FramesInOrder
<1>1. ChainInv /\ StreamInv => FramesInOrder
  BY StreamFollows
<1> QED BY <1>1, ServicesAreSound, PTL

\* No row the bus of the stream's own process publishes falls between history,
\* buffer and live frames: only rows of other replicas and rows behind a replay
\* that threw are passed over.
THEOREM OnlyForeignRowsArePassedOver == ServicesSpec => []PassedOverWasElsewhere
<1>1. ChainInv /\ StreamInv => PassedOverWasElsewhere
  BY StreamFollows
<1> QED BY <1>1, ServicesAreSound, PTL
=============================================================================
