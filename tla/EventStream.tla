---------------------------- MODULE EventStream ----------------------------
(***************************************************************************)
(* The hash-chained audit log, appended to by every replica of the API,    *)
(* and the event stream of one transaction from it: the bus of the replica *)
(* the browser is connected to, the replay, the poll that closes a stream  *)
(* and the browser that reconnects and folds the frames.                   *)
(*                                                                         *)
(* A row is its transaction and a kind.  Every row goes through            *)
(* PipelineEmitter, the only caller of chain.append that server.ts wires,  *)
(* and is published once it is durable; a "last" one makes the trace look  *)
(* terminal (a narrative, a decline).  tailFor's limit of 1000 rows is     *)
(* above what one transaction writes.                                      *)
(***************************************************************************)
EXTENDS Naturals, Sequences, FiniteSets, SequencesExt

CONSTANTS
  Servers,        \* API replicas
  Home,           \* the one the browser is connected to
  MaxRows,        \* bound on the log
  MaxReconnects,
  MaxBreaks       \* bound on crashes, lost connections and statements that throw

ASSUME StreamAssumption ==
  Home \in Servers /\ {MaxRows, MaxReconnects, MaxBreaks} \subseteq Nat

VARIABLES
  log,       \* audit_log: transaction, kind, server and the seq its prev_hash is of
  tail,      \* AuditChain.tail.lastSeq of a server
  appending, \* append at the head of a server's queue: pc, row
  settled,   \* proposal_txs.outcome_json IS NOT NULL
  conn,      \* the connection: pc, lastSentSeq, buffered, rows a query read
  wire,      \* frames written to the socket and not yet read, by seq
  page,      \* the browser: status, attempt, opened, alreadyTerminal, trace log
  blind,     \* a replay threw
  breaks

streamVars == <<log, tail, appending, settled, conn, wire, page, blind, breaks>>

Idle == [pc |-> "idle"]
NoConn == [pc |-> "none", sent |-> 0, buffer |-> <<>>, rows |-> <<>>]
OurKinds == {"emitted", "last"}

StreamInit ==
  /\ log = <<>>
  /\ tail = [s \in Servers |-> 0]
  /\ appending = [s \in Servers |-> Idle]
  /\ settled = FALSE
  /\ conn = NoConn
  /\ wire = <<>>
  /\ page = [status |-> "connecting", attempt |-> 0, opened |-> FALSE,
             knows |-> FALSE, shown |-> <<>>, final |-> FALSE]
  /\ blind = FALSE
  /\ breaks = 0

Breaks == breaks < MaxBreaks /\ breaks' = breaks + 1

----------------------------------------------------------------------------
(* The chain.                                                              *)

LogEnd == Len(log)
Locked == \E s \in Servers : appending[s].pc = "locked"

\* Mutant: prev_hash is taken from the tail this process wrote last.
PrevOf_Cached(s) == tail[s]

PrevOf(s) == LogEnd

\* BEGIN, the advisory lock and the read of the true tail.
AppendLocks(s, ours, kind) ==
  /\ appending[s] = Idle /\ ~Locked /\ LogEnd < MaxRows
  /\ appending' = [appending EXCEPT ![s] =
       [pc |-> "locked", row |-> [ours |-> ours, kind |-> kind, on |-> s, prev |-> PrevOf(s)]]]
  /\ UNCHANGED <<log, tail, settled, conn, wire, page, blind, breaks>>

\* INSERT and COMMIT.
AppendCommits(s) ==
  /\ appending[s].pc = "locked"
  /\ log' = Append(log, appending[s].row)
  /\ tail' = [tail EXCEPT ![s] = LogEnd + 1]
  /\ appending' = [appending EXCEPT ![s].pc = "durable"]
  /\ UNCHANGED <<settled, conn, wire, page, blind, breaks>>

AppendThrows(s) ==
  /\ appending[s].pc = "locked" /\ Breaks
  /\ appending' = [appending EXCEPT ![s] = Idle]
  /\ UNCHANGED <<log, tail, settled, conn, wire, page, blind>>

Connected == conn.pc # "none"
Subscribed == conn.pc \notin {"none", "ended"}
Replaying == conn.pc \in {"query", "replay"}

\* Mutant: what is published during the replay is not buffered.
Hear_NotReplaying(n) ==
  IF ~Subscribed \/ Replaying \/ n <= conn.sent THEN UNCHANGED <<conn, wire>>
  ELSE conn' = [conn EXCEPT !.sent = n] /\ wire' = Append(wire, n)

\* The subscriber of the stream.
Hear(n) ==
  IF ~Subscribed THEN UNCHANGED <<conn, wire>>
  ELSE IF Replaying THEN conn' = [conn EXCEPT !.buffer = Append(@, n)] /\ UNCHANGED wire
  ELSE IF n > conn.sent THEN conn' = [conn EXCEPT !.sent = n] /\ wire' = Append(wire, n)
  ELSE UNCHANGED <<conn, wire>>

\* The append resolves: the row goes to the bus of its own process.
Published(s) ==
  /\ appending[s].pc = "durable"
  /\ LET row == appending[s].row IN
       IF s = Home /\ row.ours THEN Hear(tail[s])
       ELSE UNCHANGED <<conn, wire>>
  /\ appending' = [appending EXCEPT ![s] = Idle]
  /\ UNCHANGED <<log, tail, settled, page, blind, breaks>>

OutcomeRecorded ==
  /\ ~settled
  /\ settled' = TRUE
  /\ UNCHANGED <<log, tail, appending, conn, wire, page, blind, breaks>>

----------------------------------------------------------------------------
(* The stream.                                                             *)

Ascending(S) ==
  CHOOSE s \in [1 .. Cardinality(S) -> S] :
    \A i, j \in 1 .. Cardinality(S) : i < j => s[i] < s[j]
TailFor(n) == Ascending({i \in 1 .. LogEnd : log[i].ours /\ i > n})
LastOf(s, n) == IF s = <<>> THEN n ELSE s[Len(s)]

\* tailFor(tx, lastSentSeq) runs, for the replay or for the last drain.
Query ==
  /\ conn.pc \in {"query", "drain"}
  /\ conn' = [conn EXCEPT !.pc = IF @ = "query" THEN "replay" ELSE "finish",
                          !.rows = TailFor(conn.sent)]
  /\ UNCHANGED <<log, tail, appending, settled, wire, page, blind, breaks>>

\* It throws, which a stream survives.
QueryThrows ==
  /\ conn.pc \in {"query", "drain"} /\ Breaks
  /\ conn' = [conn EXCEPT !.pc = IF @ = "query" THEN "replay" ELSE "finish", !.rows = <<>>]
  /\ blind' = (blind \/ conn.pc = "query")
  /\ UNCHANGED <<log, tail, appending, settled, wire, page>>

Newer(s, n) ==
  LET kept == Ascending({k \in DOMAIN s : s[k] > n}) IN [k \in DOMAIN kept |-> s[kept[k]]]

\* Mutant: the buffer is flushed without the comparison.
Flushed_Twice(rows, buffer) == rows \o buffer

\* What goes out of the buffer after the replayed rows.
Flushed(rows, buffer) == rows \o Newer(buffer, LastOf(rows, conn.sent))

ReplayHistory ==
  LET out == Flushed(conn.rows, conn.buffer) IN
  /\ conn.pc = "replay"
  /\ conn' = [pc |-> "ask", sent |-> LastOf(out, conn.sent), buffer |-> <<>>, rows |-> <<>>]
  /\ wire' = wire \o out
  /\ UNCHANGED <<log, tail, appending, settled, page, blind, breaks>>

\* isTerminal after the replay, then at every tick of the poll.
AskTerminal ==
  /\ conn.pc = "ask" \/ (conn.pc = "live" /\ settled)
  /\ conn' = [conn EXCEPT !.pc = IF settled THEN "drain" ELSE "live"]
  /\ UNCHANGED <<log, tail, appending, settled, wire, page, blind, breaks>>

\* The first question throws: neither heartbeat nor poll is armed, and nothing
\* ends the response, whose headers are sent.  It still forwards live frames.
\* (A question of the poll that throws is a rejection nobody handles, which
\* ends the process: ServerCrashes.)
AskThrows ==
  /\ conn.pc = "ask" /\ Breaks
  /\ conn' = [conn EXCEPT !.pc = "unpolled"]
  /\ UNCHANGED <<log, tail, appending, settled, wire, page, blind>>

\* finish: the rows beyond what went out meanwhile, then the subscription and
\* the response end.
Finish ==
  LET out == Newer(conn.rows, conn.sent) IN
  /\ conn.pc = "finish"
  /\ wire' = wire \o out
  /\ conn' = [conn EXCEPT !.pc = "ended", !.sent = LastOf(out, @)]
  /\ UNCHANGED <<log, tail, appending, settled, page, blind, breaks>>

----------------------------------------------------------------------------
(* The browser.                                                            *)

HeadSeq == LastOf(page.shown, 0)

\* A ticket is minted and the EventSource opens with lastEventId = headSeq; the
\* stream subscribes before anything else.
Connect ==
  /\ page.status = "connecting" /\ ~Connected
  /\ conn' = [NoConn EXCEPT !.pc = "query", !.sent = HeadSeq]
  /\ page' = [page EXCEPT !.status = "open", !.attempt = 0, !.opened = TRUE]
  /\ UNCHANGED <<log, tail, appending, settled, wire, blind, breaks>>

\* Mutant: a page that knows of the end dials again when the server closes.
Rescheduled_Redials(p) ==
  IF p.final THEN [p EXCEPT !.status = "closed"]
  ELSE IF p.attempt >= MaxReconnects THEN [p EXCEPT !.status = "error"]
  ELSE [p EXCEPT !.status = "connecting", !.attempt = @ + 1]

\* scheduleReconnect.
Rescheduled(p) ==
  IF p.final \/ (p.knows /\ p.opened) THEN [p EXCEPT !.status = "closed"]
  ELSE IF p.attempt >= MaxReconnects THEN [p EXCEPT !.status = "error"]
  ELSE [p EXCEPT !.status = "connecting", !.attempt = @ + 1]

\* No ticket, or the first request is answered with an error: the source is
\* closed and a redial is scheduled.  A ticket refused for good (401, 404) closes
\* the page at once.
ConnectFails ==
  /\ page.status = "connecting" /\ ~Connected /\ Breaks
  /\ page' \in {Rescheduled(page), [page EXCEPT !.status = "closed"]}
  /\ UNCHANGED <<log, tail, appending, settled, conn, wire, blind>>

\* A frame is folded into the trace, once.
Receive ==
  /\ wire # <<>>
  /\ wire' = Tail(wire)
  /\ LET n == wire[1] IN
       page' = [page EXCEPT
         !.shown = IF n \in ToSet(@) THEN @ ELSE Append(@, n),
         !.final = @ \/ log[n].kind = "last"]
  /\ UNCHANGED <<log, tail, appending, settled, conn, blind, breaks>>

\* The end of the response, read after its last frame.
SeesEnd ==
  /\ conn.pc = "ended" /\ wire = <<>>
  /\ conn' = NoConn
  /\ page' = Rescheduled(page)
  /\ UNCHANGED <<log, tail, appending, settled, wire, blind, breaks>>

\* The connection is lost with whatever is on the wire.
ConnectionLost ==
  /\ Connected /\ Breaks
  /\ conn' = NoConn /\ wire' = <<>>
  /\ page' = Rescheduled(page)
  /\ UNCHANGED <<log, tail, appending, settled, blind>>

\* The status poll reports the end: the hook starts over, from an empty trace.
LearnsTerminal ==
  /\ settled /\ ~page.knows
  /\ page' = [page EXCEPT !.status = "connecting", !.attempt = 0, !.opened = FALSE,
                          !.knows = TRUE, !.shown = <<>>, !.final = FALSE]
  /\ conn' = NoConn /\ wire' = <<>>
  /\ UNCHANGED <<log, tail, appending, settled, blind, breaks>>

\* A server dies: its queue, and the stream when it served it.
ServerCrashes(s) ==
  /\ Breaks
  /\ appending' = [appending EXCEPT ![s] = Idle]
  /\ IF s = Home /\ Connected
       THEN conn' = NoConn /\ wire' = <<>> /\ page' = Rescheduled(page)
       ELSE UNCHANGED <<conn, wire, page>>
  /\ tail' = [tail EXCEPT ![s] = LogEnd]
  /\ UNCHANGED <<log, settled, blind>>

----------------------------------------------------------------------------
StreamStep == Query \/ ReplayHistory \/ AskTerminal \/ Finish
PageStep == Connect \/ Receive \/ SeesEnd
AppendStep(s) == AppendCommits(s) \/ Published(s)

StreamNext ==
  \/ \E s \in Servers, kind \in OurKinds : AppendLocks(s, TRUE, kind)
  \/ \E s \in Servers : AppendLocks(s, FALSE, "emitted")
  \/ \E s \in Servers : AppendStep(s) \/ AppendThrows(s) \/ ServerCrashes(s)
  \/ OutcomeRecorded
  \/ StreamStep \/ QueryThrows \/ AskThrows
  \/ PageStep \/ LearnsTerminal \/ ConnectFails \/ ConnectionLost

----------------------------------------------------------------------------
\* verifyGlobal finds no broken link, whatever replicas append, throw or die.
ChainVerifies == \A i \in 1 .. LogEnd : log[i].prev = i - 1

Resume == IF Connected /\ conn.sent > HeadSeq THEN conn.sent ELSE HeadSeq
OnTheWay(i) == i \in ToSet(page.shown \o wire)
Misses(i) == log[i].ours /\ i <= Resume /\ ~OnTheWay(i)

\* The frames of a connection come in the order of the chain, each once, and
\* continue where the trace stands: a reconnect repeats nothing.
FramesInOrder ==
  LET frames == page.shown \o wire IN
  \A i \in 1 .. Len(frames) - 1 : frames[i] < frames[i + 1]

\* A row published on the bus of the stream's own process is never lost between
\* history, buffer and live frames: the only rows the resume position passes
\* over were appended by another replica, or were behind a replay that threw.
PassedOverWasElsewhere ==
  \A i \in 1 .. LogEnd : Misses(i) /\ ~blind => log[i].on # Home

\* Once the outcome is recorded the page stops reconnecting, unless its stream
\* is one whose first isTerminal threw: the server never ends that one, and the
\* page that has already started over for the outcome does not leave it either.
StreamEnds ==
  settled ~> \/ page.status \in {"closed", "error"}
             \/ conn.pc = "unpolled" /\ page.knows
=============================================================================
