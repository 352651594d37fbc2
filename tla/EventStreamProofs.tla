--------------------------- MODULE EventStreamProofs ---------------------------
(***************************************************************************)
(* The audit log and the stream from it, for any number of replicas, rows, *)
(* reconnects and faults: every link of the chain holds, frames are in the *)
(* order of the log, and what the stream's resume position passes over was *)
(* never published on its bus.                                             *)
(*                                                                         *)
(* Two invariants.  ChainInv: who holds the lock is alone and has read the *)
(* tail that still is the tail.  StreamInv: the server's lastSentSeq is    *)
(* the last frame the browser has or will have, and a row that is due is   *)
(* on its way, in the rows a query read, in the buffer or about to be      *)
(* published.  Both are about sets of rows; what is sent is a sequence, so *)
(* the first part relates increasing sequences to their sets.              *)
(***************************************************************************)
EXTENDS EventStream, SequenceTheorems, FiniteSetTheorems, WellFoundedInduction, TLAPS

----------------------------------------------------------------------------
(* Increasing sequences and the sets they stand for.                       *)

Up(s) == \A i, j \in 1 .. Len(s) : i < j => s[i] < s[j]

\* The set of a sequence, by its indices.
LEMMA ToSetIs ==
  ASSUME NEW S, NEW s \in Seq(S)
  PROVE  /\ ToSet(s) = {s[i] : i \in 1 .. Len(s)} /\ ToSet(s) = Range(s)
         /\ \A i \in 1 .. Len(s) : s[i] \in ToSet(s)
         /\ \A x \in ToSet(s) : \E i \in 1 .. Len(s) : s[i] = x
<1>1. DOMAIN s = 1 .. Len(s)
  OBVIOUS
<1> QED BY <1>1 DEF ToSet, Range

\* A set of naturals that is not empty has a least element.
LEMMA LeastNat ==
  ASSUME NEW T, T \subseteq Nat, T # {}
  PROVE  \E x \in T : \A y \in T : x <= y
<1> DEFINE R == {ss \in Nat \X Nat : ss[1] < ss[2]}
<1>1. IsWellFoundedOn(R, Nat)
  BY NatLessThanWellFounded DEF OpToRel
<1>2. PICK x \in T : \A y \in T : ~(<<y, x>> \in R)
  BY <1>1, WFMin
<1>3. \A y \in T : ~(y < x)
  BY <1>2
<1> QED BY <1>3

Rises(s, S) ==
  /\ s \in [1 .. Cardinality(S) -> S]
  /\ \A i, j \in 1 .. Cardinality(S) : i < j => s[i] < s[j]

\* Bounded sets of naturals are finite.
LEMMA BoundedIsFinite ==
  ASSUME NEW n \in Nat, NEW S \in SUBSET (1 .. n)
  PROVE  IsFiniteSet(S) /\ Cardinality(S) \in Nat
<1>1. IsFiniteSet(1 .. n)
  BY FS_Interval
<1> QED BY <1>1, FS_Subset, FS_CardinalityType

\* A set of naturals can be listed upwards: by induction on its bound.
LEMMA RisingExists ==
  \A n \in Nat : \A S \in SUBSET (1 .. n) : \E s : Rises(s, S)
<1> DEFINE T == {n \in Nat : \E S \in SUBSET (1 .. n) : ~\E s : Rises(s, S)}
<1> SUFFICES ASSUME T # {} PROVE FALSE
  OBVIOUS
<1>1. PICK n \in T : \A m \in T : n <= m
  BY LeastNat
<1>2. n \in Nat
  OBVIOUS
<1>3. PICK S \in SUBSET (1 .. n) : ~\E s : Rises(s, S)
  OBVIOUS
<1>4. n # 0
  <2> SUFFICES ASSUME n = 0 PROVE \E s : Rises(s, S)
    BY <1>3
  <2>1. S = {} /\ Cardinality({}) = 0
    BY FS_EmptySet
  <2>2. Rises(<<>>, {})
    BY <2>1 DEF Rises
  <2> QED BY <2>1, <2>2
<1>5. n - 1 \in Nat /\ n - 1 \notin T
  <2> HIDE DEF T
  <2>1. n - 1 \in Nat /\ ~(n <= n - 1)
    BY <1>2, <1>4
  <2> QED BY <1>1, <2>1
<1> DEFINE L == S \ {n}
<1>6. L \in SUBSET (1 .. (n - 1))
  BY <1>2
<1> HIDE DEF L
<1>0. \A x \in L : x \in Nat /\ x < n
  BY <1>2, <1>6
<1>7. PICK s : Rises(s, L)
  BY <1>5, <1>6
<1>8. S # L
  BY <1>3, <1>7
<1>9. n \in S /\ S = L \union {n} /\ n \notin L
  BY <1>8 DEF L
<1> DEFINE c == Cardinality(L)
<1>10. Cardinality(S) = c + 1 /\ c \in Nat
  BY <1>5, <1>6, <1>9, BoundedIsFinite, FS_AddElement
<1> HIDE DEF c
<1> DEFINE r == [i \in 1 .. (c + 1) |-> IF i = c + 1 THEN n ELSE s[i]]
<1>11. s \in [1 .. c -> L] /\ \A i, j \in 1 .. c : i < j => s[i] < s[j]
  BY <1>7 DEF Rises, c
<1>12. r \in [1 .. (c + 1) -> S]
  BY <1>9, <1>10, <1>11
<1>13. \A i, j \in 1 .. (c + 1) : i < j => r[i] < r[j]
  <2> TAKE i, j \in 1 .. (c + 1)
  <2> HAVE i < j
  <2>1. i \in 1 .. c /\ r[i] = s[i] /\ s[i] \in L
    BY <1>10, <1>11
  <2>2. CASE j = c + 1
    <3>1. s[i] < n
      BY <1>0, <2>1
    <3>2. r[j] = n
      BY <2>2
    <3> QED BY <2>1, <3>1, <3>2
  <2>3. CASE j # c + 1
    BY <1>10, <1>11, <2>1, <2>3
  <2> QED BY <2>2, <2>3
<1>14. Rises(r, S)
  BY <1>10, <1>12, <1>13 DEF Rises
<1> QED BY <1>3, <1>14

\* Ascending(S) lists the whole of S, upwards.
LEMMA AscendingIs ==
  ASSUME NEW n \in Nat, NEW S \in SUBSET (1 .. n)
  PROVE  /\ Ascending(S) \in Seq(S) /\ Up(Ascending(S)) /\ ToSet(Ascending(S)) = S
<1> DEFINE s == Ascending(S)  c == Cardinality(S)
<1>1. \E x : Rises(x, S)
  BY RisingExists
<1>2. \E x \in [1 .. c -> S] : \A i, j \in 1 .. c : i < j => x[i] < x[j]
  BY <1>1 DEF Rises
<1>3. s \in [1 .. c -> S] /\ \A i, j \in 1 .. c : i < j => s[i] < s[j]
  BY <1>2 DEF Ascending
<1>0. \A x \in S : x \in Nat
  OBVIOUS
<1>4. IsFiniteSet(S) /\ c \in Nat
  BY BoundedIsFinite
<1> HIDE DEF s, c
<1>5. s \in Seq(S) /\ Len(s) = c /\ DOMAIN s = 1 .. c
  BY <1>3, <1>4
<1>6. ASSUME NEW y \in S PROVE \E i \in 1 .. c : s[i] = y
  <2> SUFFICES ASSUME \A i \in 1 .. c : s[i] # y PROVE FALSE
    OBVIOUS
  <2>1. s \in [1 .. c -> S \ {y}]
    <3>1. \A i \in 1 .. c : s[i] \in S \ {y}
      BY <1>3
    <3> QED BY <1>3, <3>1
  <2>2. IsFiniteSet(S \ {y}) /\ Cardinality(S \ {y}) = c - 1
    BY <1>4, FS_RemoveElement DEF c
  <2>3. IsFiniteSet(1 .. c) /\ Cardinality(1 .. c) = c
    BY <1>4, FS_Interval
  <2>4. PICK i, j \in 1 .. c : i # j /\ s[i] = s[j]
    BY <1>4, <2>1, <2>2, <2>3, FS_PigeonHole
  <2>5. s[i] \in Nat /\ s[j] \in Nat
    <3>1. s[i] \in S /\ s[j] \in S
      BY <1>3
    <3> QED BY <1>0, <3>1
  <2>6. i < j \/ j < i
    BY <1>4, <2>4
  <2> QED BY <1>3, <2>4, <2>5, <2>6
<1>7. ToSet(s) = S
  BY <1>3, <1>5, <1>6 DEF ToSet
<1>8. Up(s)
  BY <1>3, <1>5 DEF Up
<1> QED BY <1>5, <1>7, <1>8 DEF s

\* Newer(s, n) keeps what is beyond n, in order.
LEMMA NewerIs ==
  ASSUME NEW s \in Seq(Nat), Up(s), NEW n \in Nat
  PROVE  /\ Newer(s, n) \in Seq(Nat) /\ Up(Newer(s, n))
         /\ ToSet(Newer(s, n)) = {x \in ToSet(s) : x > n}
<1> DEFINE P == {k \in DOMAIN s : s[k] > n}  a == Ascending(P)  r == Newer(s, n)
<1>1. Len(s) \in Nat /\ DOMAIN s = 1 .. Len(s) /\ P \in SUBSET (1 .. Len(s))
  OBVIOUS
<1>2. a \in Seq(P) /\ Up(a) /\ ToSet(a) = P
  BY <1>1, AscendingIs
<1>3. r = [k \in DOMAIN a |-> s[a[k]]]
  BY DEF Newer
<1> HIDE DEF a, r
<1>4. Len(a) \in Nat /\ DOMAIN a = 1 .. Len(a) /\ \A k \in 1 .. Len(a) : a[k] \in P
  BY <1>2
<1>5. r \in Seq(Nat) /\ Len(r) = Len(a) /\ \A k \in 1 .. Len(a) : r[k] = s[a[k]] /\ s[a[k]] \in Nat
  BY <1>3, <1>4
<1>6. Up(r)
  BY <1>1, <1>2, <1>4, <1>5 DEF Up
<1>7. ToSet(r) = {s[k] : k \in P}
  <2>1. ToSet(r) = {s[a[k]] : k \in 1 .. Len(a)}
    <3>1. ToSet(r) = {r[k] : k \in 1 .. Len(r)}
      BY <1>5, ToSetIs
    <3> QED BY <1>5, <3>1, ZenonT(60)
  <2>2. P = {a[k] : k \in 1 .. Len(a)}
    BY <1>2, ToSetIs
  <2> HIDE DEF P
  <2> QED BY <2>1, <2>2
<1>8. {s[k] : k \in P} = {x \in ToSet(s) : x > n}
  BY DEF ToSet
<1> QED BY <1>5, <1>6, <1>7, <1>8 DEF r

\* Where the elements of a concatenation come from.
LEMMA JoinedParts ==
  ASSUME NEW s \in Seq(Nat), NEW u \in Seq(Nat)
  PROVE  LET r == s \o u IN
         /\ r \in Seq(Nat) /\ Len(r) \in Nat /\ Len(s) \in Nat /\ Len(u) \in Nat
         /\ \A i \in 1 .. Len(s) : i \in 1 .. Len(r) /\ r[i] = s[i]
         /\ \A i \in 1 .. Len(u) : i + Len(s) \in 1 .. Len(r) /\ r[i + Len(s)] = u[i]
         /\ \A k \in 1 .. Len(r) : k \in 1 .. Len(s) \/ \E i \in 1 .. Len(u) : k = i + Len(s)
<1> DEFINE r == s \o u
<1>1. /\ r \in Seq(Nat) /\ Len(r) = Len(s) + Len(u) /\ Len(s) \in Nat /\ Len(u) \in Nat
      /\ \A i \in 1 .. Len(r) : r[i] = IF i <= Len(s) THEN s[i] ELSE u[i - Len(s)]
  BY ConcatProperties
<1> HIDE DEF r
<1>2. ASSUME NEW i \in 1 .. Len(s) PROVE i \in 1 .. Len(r) /\ r[i] = s[i]
  <2>1. i \in 1 .. Len(r) /\ i <= Len(s)
    BY <1>1
  <2> QED BY <1>1, <2>1
<1>3. ASSUME NEW i \in 1 .. Len(u) PROVE i + Len(s) \in 1 .. Len(r) /\ r[i + Len(s)] = u[i]
  <2>1. i + Len(s) \in 1 .. Len(r) /\ ~(i + Len(s) <= Len(s)) /\ (i + Len(s)) - Len(s) = i
    BY <1>1
  <2> QED BY <1>1, <2>1
<1>4. ASSUME NEW k \in 1 .. Len(r) PROVE k \in 1 .. Len(s) \/ \E i \in 1 .. Len(u) : k = i + Len(s)
  <2>1. CASE k <= Len(s)
    BY <1>1, <2>1
  <2>2. CASE k > Len(s)
    <3>1. k - Len(s) \in 1 .. Len(u) /\ k = (k - Len(s)) + Len(s)
      BY <1>1, <2>2
    <3> QED BY <3>1
  <2> QED BY <1>1, <2>1, <2>2
<1> QED BY <1>1, <1>2, <1>3, <1>4 DEF r

\* Two increasing sequences join if the second begins past the first.
LEMMA UpJoins ==
  ASSUME NEW s \in Seq(Nat), NEW u \in Seq(Nat)
  PROVE  /\ s \o u \in Seq(Nat) /\ ToSet(s \o u) = ToSet(s) \union ToSet(u)
         /\ Up(s) /\ Up(u) /\ (\A x \in ToSet(s), y \in ToSet(u) : x < y) => Up(s \o u)
<1> DEFINE r == s \o u
<1>1. /\ r \in Seq(Nat) /\ Len(s) \in Nat
      /\ \A i \in 1 .. Len(s) : r[i] = s[i]
      /\ \A i \in 1 .. Len(u) : r[i + Len(s)] = u[i]
      /\ \A k \in 1 .. Len(r) : k \in 1 .. Len(s) \/ \E i \in 1 .. Len(u) : k = i + Len(s)
  BY JoinedParts
<1>2. Range(r) = Range(s) \union Range(u)
  BY RangeConcatenation
<1> HIDE DEF r
<1>3. ToSet(r) = ToSet(s) \union ToSet(u)
  <2>1. ToSet(r) = Range(r) /\ ToSet(s) = Range(s) /\ ToSet(u) = Range(u)
    BY <1>1, ToSetIs
  <2> QED BY <1>2, <2>1
<1>4. ASSUME Up(s), Up(u), \A x \in ToSet(s), y \in ToSet(u) : x < y
      PROVE  Up(r)
  <2> SUFFICES ASSUME NEW i \in 1 .. Len(r), NEW j \in 1 .. Len(r), i < j
               PROVE  r[i] < r[j]
    BY DEF Up
  <2>1. CASE i \in 1 .. Len(s) /\ j \in 1 .. Len(s)
    BY <1>1, <1>4, <2>1 DEF Up
  <2>2. ASSUME NEW k \in 1 .. Len(u), NEW l \in 1 .. Len(u), i = k + Len(s), j = l + Len(s)
        PROVE  r[i] < r[j]
    <3>1. k < l
      BY <1>1, <2>2
    <3> QED BY <1>1, <1>4, <2>2, <3>1 DEF Up
  <2>3. ASSUME i \in 1 .. Len(s), NEW l \in 1 .. Len(u), j = l + Len(s)
        PROVE  r[i] < r[j]
    <3>1. s[i] \in ToSet(s) /\ u[l] \in ToSet(u)
      BY <2>3, ToSetIs
    <3> QED BY <1>1, <1>4, <2>3, <3>1
  <2>4. ASSUME NEW k \in 1 .. Len(u), i = k + Len(s), j \in 1 .. Len(s)
        PROVE  FALSE
    BY <1>1, <2>4
  <2> QED BY <1>1, <2>1, <2>2, <2>3, <2>4
<1> QED BY <1>1, <1>3, <1>4 DEF r

\* Both parts of an increasing concatenation increase, one past the other.
LEMMA UpSplits ==
  ASSUME NEW s \in Seq(Nat), NEW u \in Seq(Nat), Up(s \o u)
  PROVE  Up(s) /\ Up(u) /\ \A x \in ToSet(s), y \in ToSet(u) : x < y
<1> DEFINE r == s \o u
<1>1. /\ Len(s) \in Nat
      /\ \A i \in 1 .. Len(s) : i \in 1 .. Len(r) /\ r[i] = s[i]
      /\ \A i \in 1 .. Len(u) : i + Len(s) \in 1 .. Len(r) /\ r[i + Len(s)] = u[i]
  BY JoinedParts
<1>2. \A i, j \in 1 .. Len(r) : i < j => r[i] < r[j]
  BY DEF Up
<1> HIDE DEF r
<1>3. Up(s)
  BY <1>1, <1>2 DEF Up
<1>4. Up(u)
  <2> SUFFICES ASSUME NEW i \in 1 .. Len(u), NEW j \in 1 .. Len(u), i < j PROVE u[i] < u[j]
    BY DEF Up
  <2>1. i + Len(s) < j + Len(s)
    BY <1>1
  <2> QED BY <1>1, <1>2, <2>1
<1>5. ASSUME NEW x \in ToSet(s), NEW y \in ToSet(u) PROVE x < y
  <2>1. PICK i \in 1 .. Len(s) : s[i] = x
    BY ToSetIs
  <2>2. PICK j \in 1 .. Len(u) : u[j] = y
    BY ToSetIs
  <2>3. i < j + Len(s)
    BY <1>1
  <2> QED BY <1>1, <1>2, <2>1, <2>2, <2>3
<1> QED BY <1>3, <1>4, <1>5

\* LastOf(s, n) is the greatest of an increasing s, or n.
LEMMA LastIs ==
  ASSUME NEW s \in Seq(Nat), NEW n \in Nat
  PROVE  /\ LastOf(s, n) \in Nat /\ (s = <<>> => LastOf(s, n) = n) /\ ToSet(s) \subseteq Nat
         /\ s # <<>> => LastOf(s, n) \in ToSet(s) /\ (Up(s) => \A x \in ToSet(s) : x <= LastOf(s, n))
         /\ s = <<>> <=> ToSet(s) = {}
<1>1. CASE s = <<>>
  BY <1>1 DEF LastOf, ToSet
<1>2. CASE s # <<>>
  <2>1. Len(s) \in Nat \ {0} /\ Len(s) \in DOMAIN s /\ DOMAIN s = 1 .. Len(s)
    BY <1>2
  <2>2. LastOf(s, n) = s[Len(s)] /\ s[Len(s)] \in ToSet(s) /\ ToSet(s) \subseteq Nat
    BY <1>2, <2>1 DEF LastOf, ToSet
  <2>3. Up(s) => \A x \in ToSet(s) : x <= s[Len(s)]
    BY <2>1 DEF Up, ToSet
  <2> QED BY <1>2, <2>2, <2>3
<1> QED BY <1>1, <1>2

\* The last of a concatenation is that of its second part, if it has one.
LEMMA LastJoins ==
  ASSUME NEW s \in Seq(Nat), NEW u \in Seq(Nat), NEW n \in Nat
  PROVE  LastOf(s \o u, n) = LastOf(u, LastOf(s, n))
<1>1. /\ Len(s \o u) = Len(s) + Len(u) /\ Len(s) \in Nat /\ Len(u) \in Nat
      /\ \A i \in 1 .. Len(s \o u) : (s \o u)[i] = IF i <= Len(s) THEN s[i] ELSE u[i - Len(s)]
  BY ConcatProperties
<1>2. CASE u = <<>>
  <2>1. s \o u = s
    BY <1>2
  <2> QED BY <1>2, <2>1 DEF LastOf
<1>3. CASE u # <<>>
  <2>1. Len(u) > 0 /\ s \o u # <<>>
    BY <1>1, <1>3
  <2>2. (s \o u)[Len(s \o u)] = u[Len(u)]
    BY <1>1, <2>1
  <2> QED BY <1>3, <2>1, <2>2 DEF LastOf
<1> QED BY <1>2, <1>3

\* Concatenation is associative; stated first for three sequences, where it is
\* the provers' own.
LEMMA Regroup ==
  ASSUME NEW a \in Seq(Nat), NEW b \in Seq(Nat), NEW c \in Seq(Nat)
  PROVE  a \o (b \o c) = (a \o b) \o c
BY SMTT(30)

LEMMA RegroupAll ==
  /\ \A a, b, c \in Seq(Nat) : a \o (b \o c) = (a \o b) \o c
  /\ <<>> \in Seq(Nat)
<1>1. \A a, b, c \in Seq(Nat) : a \o (b \o c) = (a \o b) \o c
  BY Regroup, Zenon
<1>2. <<>> \in Seq(Nat)
  OBVIOUS
<1> QED BY <1>1, <1>2

\* Appending something greater keeps a sequence increasing.
LEMMA AppendUp ==
  ASSUME NEW s \in Seq(Nat), NEW x \in Nat
  PROVE  /\ Append(s, x) \in Seq(Nat) /\ ToSet(Append(s, x)) = ToSet(s) \union {x}
         /\ Up(s) /\ (\A y \in ToSet(s) : y < x) => Up(Append(s, x))
         /\ \A u \in Seq(Nat) : u \o Append(s, x) = (u \o s) \o <<x>>
<1>1. Append(s, x) = s \o <<x>> /\ <<x>> \in Seq(Nat)
  OBVIOUS
<1>2. ToSet(<<x>>) = {x} /\ Up(<<x>>)
  BY DEF ToSet, Up
<1>3. \A u \in Seq(Nat) : u \o (s \o <<x>>) = (u \o s) \o <<x>>
  BY <1>1, ConcatAssociative
<1> QED BY <1>1, <1>2, <1>3, UpJoins, ZenonT(60)


----------------------------------------------------------------------------
(* The chain of the audit log.                                             *)

AuditRows == [ours : BOOLEAN, kind : OurKinds, on : Servers, prev : Nat]

ChainTypeOK ==
  /\ log \in Seq(AuditRows)
  /\ appending \in [Servers -> {Idle} \union [pc : {"locked", "durable"}, row : AuditRows]]

\* The inductive invariant of the chain.  Who holds the lock is alone, and has
\* read the tail that still is the tail.
ChainInv ==
  /\ ChainTypeOK
  /\ \A s \in Servers : appending[s].pc = "locked" => appending[s].row.prev = LogEnd
  /\ \A s, u \in Servers :
       appending[s].pc = "locked" /\ appending[u].pc = "locked" => s = u
  /\ ChainVerifies

\* An append takes the lock and reads the tail: nobody else has it.
LEMMA LocksKeep ==
  ASSUME ChainInv, NEW s \in Servers, NEW ours \in BOOLEAN, NEW kind \in OurKinds,
         AppendLocks(s, ours, kind)
  PROVE  ChainInv'
<1> DEFINE new == [pc |-> "locked",
                   row |-> [ours |-> ours, kind |-> kind, on |-> s, prev |-> LogEnd]]
<1>1. /\ ~Locked /\ appending' = [appending EXCEPT ![s] = new] /\ log' = log
  BY DEF AppendLocks, PrevOf
<1>2. LogEnd \in Nat
  BY DEF ChainInv, ChainTypeOK, LogEnd
<1>3. new \in [pc : {"locked", "durable"}, row : AuditRows] /\ new.row.prev = LogEnd
  BY <1>2 DEF AuditRows
<1>4. appending'[s].row.prev = LogEnd /\ \A u \in Servers \ {s} : appending'[u] = appending[u]
  BY <1>1, <1>3 DEF ChainInv, ChainTypeOK
<1>5. ChainTypeOK'
  BY <1>1, <1>3 DEF ChainInv, ChainTypeOK
<1> QED BY <1>1, <1>4, <1>5 DEF ChainInv, ChainVerifies, Locked, LogEnd

\* The row is written behind the tail that was read, and the lock is free.
LEMMA CommitKeeps ==
  ASSUME ChainInv, NEW s \in Servers, AppendCommits(s)
  PROVE  ChainInv'
<1> DEFINE row == appending[s].row
<1>1. /\ appending[s].pc = "locked" /\ log' = Append(log, row)
      /\ appending' = [appending EXCEPT ![s].pc = "durable"]
  BY DEF AppendCommits
<1>2. row \in AuditRows /\ row.prev = LogEnd
  BY <1>1 DEF ChainInv, ChainTypeOK, Idle
<1>3. /\ log' \in Seq(AuditRows) /\ LogEnd' = LogEnd + 1 /\ LogEnd \in Nat
      /\ log'[LogEnd + 1] = row /\ \A i \in 1 .. LogEnd : log'[i] = log[i]
  <2> HIDE DEF row
  <2> QED BY <1>1, <1>2 DEF ChainInv, ChainTypeOK, LogEnd
<1>4. /\ appending'[s].pc = "durable"
      /\ appending'[s] \in [pc : {"locked", "durable"}, row : AuditRows]
      /\ \A u \in Servers \ {s} : appending'[u] = appending[u]
  <2>1. appending[s] \in [pc : {"locked", "durable"}, row : AuditRows]
    BY <1>1 DEF ChainInv, ChainTypeOK, Idle
  <2>2. appending'[s] = [appending[s] EXCEPT !.pc = "durable"]
    BY <1>1 DEF ChainInv, ChainTypeOK
  <2> QED BY <1>1, <2>1, <2>2 DEF ChainInv, ChainTypeOK
<1>5. ChainTypeOK'
  BY <1>1, <1>3, <1>4 DEF ChainInv, ChainTypeOK
<1>6. \A u \in Servers : appending'[u].pc # "locked"
  BY <1>1, <1>4 DEF ChainInv
<1>7. ChainVerifies'
  <2> SUFFICES ASSUME NEW i \in 1 .. LogEnd' PROVE log'[i].prev = i - 1
    BY DEF ChainVerifies
  <2>1. CASE i = LogEnd + 1
    BY <1>2, <1>3, <2>1
  <2>2. CASE i # LogEnd + 1
    <3>1. i \in 1 .. LogEnd
      BY <1>3, <2>2
    <3> QED BY <1>3, <3>1 DEF ChainInv, ChainVerifies
  <2> QED BY <2>1, <2>2
<1> QED BY <1>5, <1>6, <1>7 DEF ChainInv

\* Everything else at most clears an append that is not at its head.
LEMMA ChainCalm ==
  ASSUME ChainInv, log' = log,
         appending' = appending \/ \E s \in Servers : appending' = [appending EXCEPT ![s] = Idle]
  PROVE  ChainInv'
<1>1. ChainTypeOK' /\ \A s \in Servers : appending'[s].pc = "locked" => appending'[s] = appending[s]
  BY DEF ChainInv, ChainTypeOK, Idle
<1> QED BY <1>1 DEF ChainInv, ChainVerifies, LogEnd

\* The empty log is a chain.
LEMMA ChainStarts ==
  ASSUME StreamInit
  PROVE  ChainInv
BY DEF StreamInit, ChainInv, ChainTypeOK, ChainVerifies, Idle, LogEnd

\* Every step of the module keeps the chain.
LEMMA ChainStep ==
  ASSUME ChainInv, StreamNext \/ UNCHANGED streamVars
  PROVE  ChainInv'
<1>1. ASSUME NEW s \in Servers, NEW kind \in OurKinds, AppendLocks(s, TRUE, kind) PROVE ChainInv'
  BY <1>1, LocksKeep
<1>2. ASSUME NEW s \in Servers, AppendLocks(s, FALSE, "emitted") PROVE ChainInv'
  BY <1>2, LocksKeep DEF OurKinds
<1>3. ASSUME NEW s \in Servers, AppendCommits(s) PROVE ChainInv'
  BY <1>3, CommitKeeps
<1>4. ASSUME NEW s \in Servers, Published(s) \/ AppendThrows(s) \/ ServerCrashes(s) PROVE ChainInv'
  BY <1>4, ChainCalm DEF Published, AppendThrows, ServerCrashes
<1>5. CASE OutcomeRecorded \/ StreamStep \/ QueryThrows \/ AskThrows \/ PageStep \/ LearnsTerminal
           \/ ConnectFails \/ ConnectionLost
  <2>1. log' = log /\ appending' = appending
    BY <1>5 DEF OutcomeRecorded, StreamStep, Query, ReplayHistory, AskTerminal, Finish, QueryThrows,
                AskThrows, PageStep, Connect, Receive, SeesEnd, LearnsTerminal, ConnectFails, ConnectionLost
  <2> QED BY <2>1, ChainCalm
<1>6. CASE UNCHANGED streamVars
  BY <1>6, ChainCalm DEF streamVars
<1> QED BY <1>1, <1>2, <1>3, <1>4, <1>5, <1>6 DEF StreamNext, AppendStep

----------------------------------------------------------------------------
(* The stream of one transaction.                                          *)

ConnPCs == {"none", "query", "replay", "ask", "live", "unpolled", "drain", "finish", "ended"}
Frames == page.shown \o wire

\* A row the bus of the stream's own process publishes, and one it is about to.
Due(i) == log[i].ours /\ log[i].on = Home
Pending(i) == appending[Home].pc = "durable" /\ tail[Home] = i

Below(s, n) == \A x \in ToSet(s) : x < n

Pages ==
  [status : {"connecting", "open", "closed", "error"}, attempt : Nat, opened : BOOLEAN,
   knows : BOOLEAN, shown : Seq(Nat), final : BOOLEAN]

StreamTypeOK ==
  /\ conn \in [pc : ConnPCs, sent : Nat, buffer : Seq(Nat), rows : Seq(Nat)]
  /\ page \in Pages
  /\ wire \in Seq(Nat) /\ tail \in [Servers -> Nat] /\ blind \in BOOLEAN

\* An append that is durable wrote the row of its server's tail, which is past
\* whatever the bus has published.
AppendsTold ==
  /\ \A s \in Servers : appending[s] # Idle => appending[s].row.on = s
  /\ appending[Home].pc = "durable" =>
       /\ tail[Home] \in 1 .. LogEnd /\ log[tail[Home]] = appending[Home].row
       /\ Below(conn.buffer, tail[Home])

\* What a sequence of rows is: rows of the log, upwards.
Listed(s) == Up(s) /\ ToSet(s) \subseteq 1 .. LogEnd

\* The server knows how far the browser will be once the wire is empty.
InStep ==
  /\ Listed(Frames) /\ Listed(conn.buffer) /\ Listed(conn.rows)
  /\ IF Connected THEN conn.sent = LastOf(Frames, 0) ELSE wire = <<>>
  /\ conn.pc = "replay" => \A x \in ToSet(conn.rows) : x > conn.sent

\* Where a row is that is due: on its way to the browser, in what a query read,
\* in the buffer, or about to be published.
Whereabouts(i) ==
  /\ i <= LastOf(Frames, 0) => i \in ToSet(Frames)
  /\ conn.pc = "replay" /\ i > conn.sent =>
       i \in ToSet(conn.rows) \/ (Below(conn.rows, i) /\ (i \in ToSet(conn.buffer) \/ Pending(i)))
  /\ conn.pc \in {"ask", "live", "unpolled", "drain", "finish"} /\ i > conn.sent => Pending(i)
  /\ conn.pc = "finish" /\ i > conn.sent => i \in ToSet(conn.rows) \/ Below(conn.rows, i)

Kept == \A i \in 1 .. LogEnd : Due(i) => Whereabouts(i)

\* The inductive invariant of the stream.
StreamInv == StreamTypeOK /\ AppendsTold /\ InStep /\ (~blind => Kept)


\* What the invariants say of the types, and of the frames.
LEMMA Known ==
  ASSUME ChainInv, StreamInv
  PROVE  /\ LogEnd \in Nat /\ conn.pc \in ConnPCs /\ conn.sent \in Nat
         /\ conn.buffer \in Seq(Nat) /\ conn.rows \in Seq(Nat)
         /\ page.shown \in Seq(Nat) /\ wire \in Seq(Nat) /\ Frames \in Seq(Nat)
         /\ ToSet(Frames) = ToSet(page.shown) \union ToSet(wire)
         /\ ToSet(Frames) \subseteq Nat /\ LastOf(Frames, 0) \in Nat
         /\ \A x \in ToSet(Frames) : x <= LastOf(Frames, 0)
         /\ LastOf(Frames, 0) # 0 => LastOf(Frames, 0) \in ToSet(Frames)
         /\ LastOf(Frames, 0) <= LogEnd
<1>1. /\ LogEnd \in Nat /\ conn.pc \in ConnPCs /\ conn.sent \in Nat
      /\ conn.buffer \in Seq(Nat) /\ conn.rows \in Seq(Nat)
      /\ page.shown \in Seq(Nat) /\ wire \in Seq(Nat)
  BY DEF ChainInv, ChainTypeOK, LogEnd, StreamInv, StreamTypeOK, Pages
<1>2. Frames \in Seq(Nat) /\ ToSet(Frames) = ToSet(page.shown) \union ToSet(wire)
  BY <1>1, UpJoins DEF Frames
<1>3. Up(Frames) /\ ToSet(Frames) \subseteq 1 .. LogEnd
  BY DEF StreamInv, InStep, Listed
<1>4. /\ LastOf(Frames, 0) \in Nat /\ (Frames = <<>> => LastOf(Frames, 0) = 0)
      /\ ToSet(Frames) \subseteq Nat
      /\ Frames # <<>> => LastOf(Frames, 0) \in ToSet(Frames)
      /\ \A x \in ToSet(Frames) : x <= LastOf(Frames, 0)
  BY <1>2, <1>3, LastIs
<1>5. LastOf(Frames, 0) <= LogEnd
  BY <1>1, <1>3, <1>4
<1> QED BY <1>1, <1>2, <1>4, <1>5

\* Whatever ends the connection and takes the wire with it: the browser is left
\* with what it has, or starts over.
LEMMA DisconnectKeeps ==
  ASSUME ChainInv, StreamInv, StreamTypeOK', conn' = NoConn, wire' = <<>>,
         page'.shown \in {page.shown, <<>>}, log' = log, blind' = blind,
         \A s \in Servers : appending'[s] # Idle => appending'[s] = appending[s] /\ tail'[s] = tail[s]
  PROVE  StreamInv'
<1>1. Frames' = page'.shown /\ page'.shown \in Seq(Nat) /\ LogEnd' = LogEnd
  BY DEF Frames, StreamTypeOK, Pages, LogEnd
<1>2. Up(page.shown) /\ \A x \in ToSet(page.shown), y \in ToSet(wire) : x < y
  <2>1. page.shown \in Seq(Nat) /\ wire \in Seq(Nat)
    BY Known
  <2>2. Up(page.shown \o wire)
    BY DEF StreamInv, InStep, Listed, Frames
  <2> QED BY <2>1, <2>2, UpSplits
<1>3. Listed(<<>>)
  BY DEF Listed, Up, ToSet
<1>4. Listed(page.shown)
  BY <1>2, Known DEF StreamInv, InStep, Listed
<1>5. Listed(Frames)' /\ Listed(conn.buffer)' /\ Listed(conn.rows)'
  BY <1>1, <1>3, <1>4 DEF Listed, NoConn
<1>6. InStep'
  BY <1>5 DEF InStep, NoConn, Connected
<1>7. AppendsTold'
  <2>1. ToSet(<<>>) = {}
    BY DEF ToSet
  <2>2. Home \in Servers
    BY StreamAssumption
  <2> QED BY <1>1, <2>1, <2>2 DEF StreamInv, AppendsTold, Below, NoConn, Idle
<1>8. ASSUME ~blind PROVE Kept'
  <2> SUFFICES ASSUME NEW i \in 1 .. LogEnd, Due(i)', i <= LastOf(page'.shown, 0)
               PROVE  i \in ToSet(page'.shown)
    BY <1>1 DEF Kept, Whereabouts, NoConn
  <2>1. Due(i) /\ Whereabouts(i)
    BY <1>8 DEF Due, StreamInv, Kept
  <2>2. LastOf(<<>>, 0) = 0
    BY DEF LastOf
  <2>3. page'.shown = page.shown /\ page.shown # <<>>
    BY <2>2
  <2>4. LastOf(page.shown, 0) \in ToSet(page.shown) /\ LastOf(page.shown, 0) \in Nat
    BY <2>3, Known, LastIs
  <2>5. LastOf(page.shown, 0) <= LastOf(Frames, 0)
    BY <2>4, Known
  <2>6. i \in ToSet(Frames)
    BY <2>1, <2>3, <2>4, <2>5, Known DEF Whereabouts
  <2>7. i \notin ToSet(wire)
    BY <1>2, <2>3, <2>4
  <2> QED BY <2>3, <2>6, <2>7, Known
<1> QED BY <1>6, <1>7, <1>8 DEF StreamInv

\* A connection that is not there has its type.
LEMMA NoConnOK ==
  /\ NoConn \in [pc : ConnPCs, sent : Nat, buffer : Seq(Nat), rows : Seq(Nat)]
  /\ <<>> \in Seq(Nat)
BY DEF NoConn, ConnPCs

\* A page that redials keeps its type and its trace.
LEMMA Redials ==
  ASSUME NEW p \in Pages
  PROVE  Rescheduled(p) \in Pages /\ Rescheduled(p).shown = p.shown
<1>1. Rescheduled(p) = [p EXCEPT !.status = "closed"] => Rescheduled(p) \in Pages /\ Rescheduled(p).shown = p.shown
  BY DEF Pages
<1>2. Rescheduled(p) = [p EXCEPT !.status = "error"] => Rescheduled(p) \in Pages /\ Rescheduled(p).shown = p.shown
  BY DEF Pages
<1>3. Rescheduled(p) = [p EXCEPT !.status = "connecting", !.attempt = @ + 1] =>
        Rescheduled(p) \in Pages /\ Rescheduled(p).shown = p.shown
  <2>1. p.attempt + 1 \in Nat
    BY DEF Pages
  <2>2. [p EXCEPT !.status = "connecting", !.attempt = @ + 1]
          = [p EXCEPT !.status = "connecting", !.attempt = p.attempt + 1]
    BY DEF Pages
  <2> DEFINE n == p.attempt + 1
  <2>3. n \in Nat
    BY <2>1
  <2> HIDE DEF n
  <2>4. LET q == [p EXCEPT !.status = "connecting", !.attempt = n] IN q \in Pages /\ q.shown = p.shown
    BY <2>3 DEF Pages
  <2> QED BY <2>2, <2>4 DEF n
<1> QED BY <1>1, <1>2, <1>3 DEF Rescheduled

\* A step of the log alone: the rows there are, and who hears of them.
LEMMA StillKept ==
  ASSUME ChainInv, StreamInv, log' = log, UNCHANGED <<wire, blind>>, page'.shown = page.shown,
         conn'.sent = conn.sent, conn'.buffer = conn.buffer, conn'.rows = conn.rows,
         conn'.pc = conn.pc \/ (conn.pc \in {"ask", "live"} /\ conn'.pc \in {"live", "drain", "unpolled"}),
         Pending(tail[Home]) => Pending(tail[Home])' /\ tail'[Home] = tail[Home]
  PROVE  InStep' /\ (~blind' => Kept')
<1>1. Frames' = Frames /\ LogEnd' = LogEnd
  BY DEF Frames, LogEnd
<1>2. InStep'
  BY <1>1 DEF StreamInv, InStep, Listed, Connected
<1>3. ASSUME ~blind PROVE Kept'
  <2> SUFFICES ASSUME NEW i \in 1 .. LogEnd, Due(i)' PROVE Whereabouts(i)'
    BY <1>1 DEF Kept
  <2>1. Whereabouts(i)
    BY <1>3 DEF Due, StreamInv, Kept
  <2>2. Pending(i) => Pending(i)'
    BY DEF Pending
  <2> QED BY <1>1, <2>1, <2>2 DEF Whereabouts, Below
<1> QED BY <1>2, <1>3

\* An append that begins or throws tells nobody.
LEMMA AppendBegins ==
  ASSUME ChainInv, StreamInv, NEW s \in Servers,
         \/ \E ours \in BOOLEAN, kind \in OurKinds : AppendLocks(s, ours, kind)
         \/ AppendThrows(s)
  PROVE  StreamInv'
<1>1. /\ UNCHANGED <<log, tail, conn, wire, page, blind>> /\ appending[s].pc # "durable"
      /\ \A u \in Servers \ {s} : appending'[u] = appending[u]
      /\ appending'[s].pc # "durable" /\ (appending'[s] # Idle => appending'[s].row.on = s)
  BY DEF AppendLocks, AppendThrows, Idle, ChainInv, ChainTypeOK
<1>2. Home \in Servers
  BY StreamAssumption
<1>3. StreamTypeOK'
  BY <1>1 DEF StreamInv, StreamTypeOK
<1>4. AppendsTold'
  BY <1>1, <1>2 DEF StreamInv, AppendsTold, LogEnd, Below
<1>5. InStep' /\ (~blind' => Kept')
  BY <1>1, <1>2, StillKept DEF Pending
<1> QED BY <1>3, <1>4, <1>5 DEF StreamInv

\* A commit adds a row that is about to be published, past every other.
LEMMA CommitTells ==
  ASSUME ChainInv, StreamInv, NEW s \in Servers, AppendCommits(s)
  PROVE  StreamInv'
<1> DEFINE row == appending[s].row
<1>1. /\ appending[s].pc = "locked" /\ log' = Append(log, row) /\ Home \in Servers
      /\ tail' = [tail EXCEPT ![s] = LogEnd + 1]
      /\ appending' = [appending EXCEPT ![s].pc = "durable"]
      /\ UNCHANGED <<conn, wire, page, blind>>
  BY StreamAssumption DEF AppendCommits
<1>2. row \in AuditRows /\ row.on = s /\ log \in Seq(AuditRows) /\ LogEnd \in Nat
  BY <1>1, Known DEF ChainInv, ChainTypeOK, Idle, StreamInv, AppendsTold
<1>3. /\ LogEnd' = LogEnd + 1 /\ log'[LogEnd + 1] = row
      /\ \A i \in 1 .. LogEnd : log'[i] = log[i]
  <2> HIDE DEF row
  <2> QED BY <1>1, <1>2 DEF LogEnd
<1>4. /\ appending'[s].pc = "durable" /\ appending'[s].row = row
      /\ tail'[s] = LogEnd + 1
      /\ \A u \in Servers \ {s} : appending'[u] = appending[u] /\ tail'[u] = tail[u]
      /\ tail' \in [Servers -> Nat]
  <2>1. appending[s] \in [pc : {"locked", "durable"}, row : AuditRows]
    BY <1>1 DEF ChainInv, ChainTypeOK, Idle
  <2>2. appending'[s] = [appending[s] EXCEPT !.pc = "durable"]
    BY <1>1 DEF ChainInv, ChainTypeOK
  <2>3. tail \in [Servers -> Nat]
    BY DEF StreamInv, StreamTypeOK
  <2> QED BY <1>1, <1>2, <2>1, <2>2, <2>3 DEF ChainInv, ChainTypeOK
<1> HIDE DEF row
<1>5. StreamTypeOK'
  BY <1>1, <1>4 DEF StreamInv, StreamTypeOK
<1>6. \A n : n \in 1 .. LogEnd => n \in 1 .. LogEnd' /\ n < LogEnd + 1
  BY <1>2, <1>3
<1>7. AppendsTold'
  <2>1. \A u \in Servers : appending'[u] # Idle => appending'[u].row.on = u
    BY <1>2, <1>4 DEF StreamInv, AppendsTold
  <2>2. CASE s = Home
    <3>1. LogEnd + 1 \in 1 .. LogEnd'
      BY <1>2, <1>3
    <3>2. Below(conn'.buffer, LogEnd + 1)
      BY <1>1, <1>2, <1>3, <1>6 DEF Below, StreamInv, InStep, Listed
    <3> QED BY <1>3, <1>4, <2>1, <2>2, <3>1, <3>2 DEF AppendsTold, Below
  <2>3. CASE s # Home
    <3>1. appending'[Home] = appending[Home] /\ tail'[Home] = tail[Home]
      BY <1>1, <1>4, <2>3
    <3> QED BY <1>1, <1>3, <1>6, <2>1, <3>1 DEF StreamInv, AppendsTold, Below
  <2> QED BY <2>2, <2>3
<1>8. Frames' = Frames
  BY <1>1 DEF Frames
<1>9. InStep'
  BY <1>1, <1>6, <1>8 DEF StreamInv, InStep, Listed, Connected
<1>10. ASSUME ~blind PROVE Kept'
  <2> SUFFICES ASSUME NEW i \in 1 .. LogEnd', Due(i)' PROVE Whereabouts(i)'
    BY DEF Kept
  <2>1. CASE i \in 1 .. LogEnd
    <3>1. Whereabouts(i)
      BY <1>3, <1>10, <2>1 DEF Due, StreamInv, Kept
    <3>2. Pending(i) => Pending(i)'
      BY <1>1, <1>4 DEF Pending
    <3> QED BY <1>1, <1>8, <3>1, <3>2 DEF Whereabouts, Below
  <2>2. CASE i = LogEnd + 1
    <3>1. s = Home
      BY <1>2, <1>3, <2>2 DEF Due
    <3>2. Pending(i)'
      BY <1>4, <2>2, <3>1 DEF Pending
    <3>3. ~(i <= LastOf(Frames, 0))
      BY <1>2, <2>2, Known
    <3>4. Below(conn.rows, i)
      BY <1>6, <2>2 DEF Below, StreamInv, InStep, Listed
    <3> QED BY <1>1, <1>8, <3>2, <3>3, <3>4 DEF Whereabouts, Below
  <2> QED BY <1>2, <1>3, <2>1, <2>2
<1> QED BY <1>1, <1>5, <1>7, <1>9, <1>10 DEF StreamInv

\* The bus of the stream's server tells of one row.
LEMMA PublishTells ==
  ASSUME ChainInv, StreamInv, NEW s \in Servers, Published(s)
  PROVE  StreamInv'
<1>1. /\ appending[s].pc = "durable" /\ Home \in Servers
      /\ appending' = [appending EXCEPT ![s] = Idle]
      /\ UNCHANGED <<log, tail, page, blind>>
  BY StreamAssumption DEF Published
<1>2. /\ appending'[s] = Idle /\ \A u \in Servers \ {s} : appending'[u] = appending[u]
      /\ Idle.pc = "idle"
  BY <1>1 DEF ChainInv, ChainTypeOK, Idle
<1>3. CASE s # Home
  <2>1. UNCHANGED <<conn, wire>> /\ appending'[Home] = appending[Home]
    BY <1>1, <1>2, <1>3 DEF Published
  <2>2. StreamTypeOK' /\ AppendsTold'
    BY <1>1, <1>2, <2>1 DEF StreamInv, StreamTypeOK, AppendsTold, LogEnd, Below
  <2>3. InStep' /\ (~blind' => Kept')
    BY <1>1, <2>1, StillKept DEF Pending
  <2> QED BY <2>2, <2>3 DEF StreamInv
<1>4. CASE s = Home
  <2> DEFINE n == tail[Home]
  <2>1. n \in 1 .. LogEnd /\ log[n] = appending[Home].row /\ Below(conn.buffer, n)
    BY <1>1, <1>4 DEF StreamInv, AppendsTold
  <2>2. appending'[Home] = Idle /\ ~\E i : Pending(i)'
    BY <1>2, <1>4 DEF Pending
  <2>3. \A i : Pending(i) => i = n
    BY DEF Pending
  <2>4. ASSUME conn'.buffer \in Seq(Nat)
        PROVE  AppendsTold'
    BY <1>1, <1>2, <1>4, <2>2 DEF StreamInv, AppendsTold, Idle
  <2>5. n \in Nat /\ LogEnd' = LogEnd /\ LogEnd \in Nat
    BY <1>1, <2>1, Known DEF LogEnd
  <2>6. CASE UNCHANGED <<conn, wire>>
    <3>1. \/ ~Due(n) \/ ~Subscribed \/ (~Replaying /\ n <= conn.sent)
      <4>1. CASE ~appending[Home].row.ours
        BY <2>1, <4>1 DEF Due
      <4>2. CASE appending[Home].row.ours
        <5>1. Hear(n)
          BY <1>1, <1>4, <4>2 DEF Published
        <5>2. ASSUME Subscribed, Replaying PROVE FALSE
          <6>1. conn'.buffer = Append(conn.buffer, n)
            BY <5>1, <5>2, Known DEF Hear, StreamInv, StreamTypeOK
          <6>2. n \in ToSet(conn.buffer)
            BY <2>5, <2>6, <6>1, Known, AppendUp
          <6> QED BY <2>1, <2>5, <6>2 DEF Below
        <5>3. ASSUME Subscribed, ~Replaying, ~(n <= conn.sent) PROVE FALSE
          <6>1. n > conn.sent
            BY <2>5, <5>3, Known
          <6>2. conn'.sent = n
            BY <5>1, <5>3, <6>1 DEF Hear, StreamInv, StreamTypeOK
          <6> QED BY <2>5, <2>6, <6>1, <6>2, Known
        <5> QED BY <5>2, <5>3
      <4> QED BY <4>1, <4>2
    <3>2. StreamTypeOK'
      BY <1>1, <2>6 DEF StreamInv, StreamTypeOK
    <3>3. Frames' = Frames
      BY <1>1, <2>6 DEF Frames
    <3>4. InStep'
      BY <1>1, <2>5, <2>6, <3>3 DEF StreamInv, InStep, Listed, Connected
    <3>5. ASSUME ~blind PROVE Kept'
      <4> SUFFICES ASSUME NEW i \in 1 .. LogEnd, Due(i)' PROVE Whereabouts(i)'
        BY <2>5 DEF Kept
      <4>1. Due(i) /\ Whereabouts(i) /\ i \in Nat
        BY <1>1, <3>5, <2>5 DEF Due, StreamInv, Kept
      <4>2. ASSUME Pending(i) PROVE ~Subscribed \/ (~Replaying /\ ~(i > conn.sent))
        BY <2>3, <2>5, <3>1, <4>1, <4>2, Known
      <4> QED BY <1>1, <2>6, <3>3, <4>1, <4>2 DEF Whereabouts, Below, Subscribed, Replaying
    <3> QED BY <1>1, <2>4, <2>6, <3>2, <3>4, <3>5, Known DEF StreamInv
  <2>7. CASE Replaying /\ conn' = [conn EXCEPT !.buffer = Append(@, n)] /\ UNCHANGED wire
    <3>1. /\ conn'.buffer = Append(conn.buffer, n) /\ conn'.pc = conn.pc
          /\ conn'.sent = conn.sent /\ conn'.rows = conn.rows
          /\ conn.buffer \in Seq(Nat) /\ conn.pc \in {"query", "replay"}
      BY <2>7, Known DEF StreamInv, StreamTypeOK, Replaying
    <3>2. /\ conn'.buffer \in Seq(Nat) /\ ToSet(conn'.buffer) = ToSet(conn.buffer) \union {n}
          /\ Up(conn'.buffer)
      BY <2>1, <2>5, <3>1, AppendUp DEF Below, StreamInv, InStep, Listed
    <3>3. StreamTypeOK'
      BY <1>1, <2>7, <3>1, <3>2 DEF StreamInv, StreamTypeOK
    <3>4. Frames' = Frames
      BY <1>1, <2>7 DEF Frames
    <3>5. InStep'
      BY <1>1, <2>1, <2>5, <2>7, <3>1, <3>2, <3>4 DEF StreamInv, InStep, Listed, Connected
    <3>6. ASSUME ~blind PROVE Kept'
      <4> SUFFICES ASSUME NEW i \in 1 .. LogEnd, Due(i)' PROVE Whereabouts(i)'
        BY <2>5 DEF Kept
      <4>1. Whereabouts(i)
        BY <1>1, <3>6, <2>5 DEF Due, StreamInv, Kept
      <4>2. Pending(i) => i \in ToSet(conn'.buffer)
        BY <2>3, <3>2
      <4> QED BY <1>1, <3>1, <3>2, <3>4, <4>1, <4>2 DEF Whereabouts, Below
    <3> QED BY <1>1, <2>4, <3>2, <3>3, <3>5, <3>6 DEF StreamInv
  <2>8. CASE /\ Subscribed /\ ~Replaying /\ n > conn.sent
             /\ conn' = [conn EXCEPT !.sent = n] /\ wire' = Append(wire, n)
    <3>1. /\ conn'.buffer = conn.buffer /\ conn'.pc = conn.pc
          /\ conn'.sent = n /\ conn'.rows = conn.rows
          /\ conn.pc \in {"ask", "live", "unpolled", "drain", "finish"}
      BY <2>8, Known DEF StreamInv, StreamTypeOK, Replaying, Subscribed, ConnPCs
    <3>2. wire' \in Seq(Nat) /\ <<n>> \in Seq(Nat) /\ Frames' = Frames \o <<n>>
      <4>1. n \in Nat /\ wire \in Seq(Nat) /\ page.shown \in Seq(Nat)
        BY <2>5, Known
      <4>2. Append(wire, n) \in Seq(Nat) /\ <<n>> \in Seq(Nat)
        BY <4>1
      <4>3. page.shown \o Append(wire, n) = (page.shown \o wire) \o <<n>>
        <5> HIDE DEF n
        <5> QED BY <4>1, AppendUp
      <4> QED BY <1>1, <2>8, <4>2, <4>3 DEF Frames
    <3>3. conn.sent = LastOf(Frames, 0)
      BY <3>1 DEF StreamInv, InStep, Connected
    <3>4. Up(<<n>>) /\ ToSet(<<n>>) = {n} /\ LastOf(<<n>>, conn.sent) = n
      BY DEF Up, ToSet, LastOf
    <3>5. /\ Up(Frames') /\ ToSet(Frames') = ToSet(Frames) \union {n}
          /\ LastOf(Frames', 0) = n
      <4>1. \A x \in ToSet(Frames) : x < n
        BY <2>5, <2>8, <3>3, Known
      <4>2. Up(Frames)
        BY DEF StreamInv, InStep, Listed
      <4>3. Frames \in Seq(Nat) /\ <<n>> \in Seq(Nat)
        BY <3>2, Known
      <4>4. /\ ToSet(Frames \o <<n>>) = ToSet(Frames) \union ToSet(<<n>>)
            /\ Up(Frames \o <<n>>)
        BY <3>4, <4>1, <4>2, <4>3, UpJoins
      <4>5. LastOf(Frames \o <<n>>, 0) = LastOf(<<n>>, LastOf(Frames, 0))
        BY <4>3, LastJoins
      <4>6. LastOf(<<n>>, LastOf(Frames, 0)) = n
        BY <3>3, <3>4
      <4> QED BY <3>2, <3>4, <4>4, <4>5, <4>6
    <3>6. StreamTypeOK'
      BY <1>1, <2>5, <2>8, <3>1, <3>2 DEF StreamInv, StreamTypeOK
    <3>7. InStep'
      BY <1>1, <2>1, <2>5, <3>1, <3>5 DEF StreamInv, InStep, Listed, Connected
    <3>8. ASSUME ~blind PROVE Kept'
      <4> SUFFICES ASSUME NEW i \in 1 .. LogEnd, Due(i)' PROVE Whereabouts(i)'
        BY <2>5 DEF Kept
      <4>1. Whereabouts(i) /\ i \in Nat
        BY <1>1, <3>8, <2>5 DEF Due, StreamInv, Kept
      <4>2. i > conn.sent => i = n
        BY <2>3, <3>1, <4>1 DEF Whereabouts
      <4>3. ~(i > n)
        BY <2>5, <2>8, <4>1, <4>2, Known
      <4>4. i \in ToSet(Frames')
        BY <2>5, <3>3, <3>5, <4>1, <4>2, Known DEF Whereabouts
      <4> QED BY <3>1, <4>3, <4>4 DEF Whereabouts
    <3> QED BY <1>1, <2>4, <3>1, <3>6, <3>7, <3>8, Known DEF StreamInv
  <2> QED BY <1>1, <1>4, <2>6, <2>7, <2>8 DEF Published, Hear
<1> QED BY <1>3, <1>4

\* What a query reads, and what is left when it throws.
LEMMA QueryReads ==
  ASSUME ChainInv, StreamInv, Query \/ QueryThrows
  PROVE  StreamInv'
<1> DEFINE R == conn'.rows  S == {i \in 1 .. LogEnd : log[i].ours /\ i > conn.sent}
<1>1. /\ UNCHANGED <<log, tail, appending, wire, page>> /\ Home \in Servers
      /\ conn.pc \in {"query", "drain"}
      /\ conn' = [conn EXCEPT !.pc = IF @ = "query" THEN "replay" ELSE "finish", !.rows = R]
      /\ (R = TailFor(conn.sent) /\ blind' = blind) \/ (R = <<>> /\ blind' = (blind \/ conn.pc = "query"))
  BY StreamAssumption DEF Query, QueryThrows, StreamInv, StreamTypeOK
<1>2. /\ R \in Seq(Nat) /\ Up(R) /\ ToSet(R) \subseteq S
      /\ (ToSet(R) = S) \/ (ToSet(R) = {} /\ (conn.pc = "query" => blind'))
  <2>1. LogEnd \in Nat /\ S \in SUBSET (1 .. LogEnd)
    BY Known
  <2>2. CASE R = TailFor(conn.sent)
    <3>1. /\ Ascending(S) \in Seq(S) /\ Up(Ascending(S)) /\ ToSet(Ascending(S)) = S
      BY <2>1, AscendingIs
    <3>2. R = Ascending(S)
      BY <2>2 DEF TailFor
    <3>3. Seq(S) \subseteq Seq(Nat)
      <4>1. S \subseteq Nat
        BY <2>1
      <4> QED BY <4>1, SeqMonotonic
    <3> QED BY <3>1, <3>2, <3>3
  <2>3. CASE R = <<>> /\ (conn.pc = "query" => blind')
    BY <2>3 DEF Up, ToSet
  <2> QED BY <1>1, <2>2, <2>3
<1> HIDE DEF R
<1>3. /\ conn'.sent = conn.sent /\ conn'.buffer = conn.buffer /\ conn'.rows = R
      /\ conn'.pc = IF conn.pc = "query" THEN "replay" ELSE "finish"
      /\ Frames' = Frames /\ LogEnd' = LogEnd
  BY <1>1 DEF StreamInv, StreamTypeOK, Frames, LogEnd
<1>4. StreamTypeOK'
  BY <1>1, <1>2, <1>3 DEF StreamInv, StreamTypeOK, ConnPCs
<1>5. AppendsTold'
  BY <1>1, <1>3 DEF StreamInv, AppendsTold, Below
<1>6. InStep'
  BY <1>1, <1>2, <1>3 DEF StreamInv, InStep, Listed, Connected
<1>7. ASSUME ~blind' PROVE Kept'
  <2> SUFFICES ASSUME NEW i \in 1 .. LogEnd, Due(i)' PROVE Whereabouts(i)'
    BY <1>3 DEF Kept
  <2>0. ~blind
    BY <1>1, <1>7
  <2>1. Whereabouts(i) /\ Due(i)
    BY <1>1, <2>0 DEF Due, StreamInv, Kept
  <2>2. i > conn.sent => i \in ToSet(R) \/ (ToSet(R) = {} /\ conn.pc # "query")
    BY <1>2, <1>7, <2>1 DEF Due
  <2>3. Pending(i)' = Pending(i)
    BY <1>1 DEF Pending
  <2>4. conn.pc \in {"query", "drain"}
    BY <1>1
  <2>5. conn'.pc = "replay" /\ i > conn'.sent => i \in ToSet(conn'.rows)
    BY <1>3, <2>2, <2>4
  <2>6. conn'.pc = "finish" /\ i > conn'.sent =>
          Pending(i)' /\ (i \in ToSet(conn'.rows) \/ Below(conn'.rows, i))
    BY <1>3, <2>1, <2>2, <2>3, <2>4 DEF Whereabouts, Below
  <2>7. conn'.pc \in {"replay", "finish"} /\ Frames' = Frames
    BY <1>3
  <2> QED BY <2>1, <2>5, <2>6, <2>7 DEF Whereabouts
<1> QED BY <1>4, <1>5, <1>6, <1>7 DEF StreamInv

\* Frames that go out: `out`, which is past what went out before.
LEMMA FramesGo ==
  ASSUME ChainInv, StreamInv, NEW out \in Seq(Nat), Up(out), ToSet(out) \subseteq 1 .. LogEnd,
         \A x \in ToSet(out) : x > LastOf(Frames, 0)
  PROVE  LET f == Frames \o out IN
         /\ wire \o out \in Seq(Nat) /\ page.shown \o (wire \o out) = f
         /\ Listed(f) /\ ToSet(f) = ToSet(Frames) \union ToSet(out)
         /\ LastOf(f, 0) = LastOf(out, LastOf(Frames, 0))
         /\ LastOf(Frames, 0) <= LastOf(f, 0) /\ LastOf(f, 0) \in Nat
         /\ \A x \in ToSet(out) : x <= LastOf(f, 0)
         /\ out # <<>> => LastOf(f, 0) \in ToSet(out)
<1> DEFINE f == Frames \o out  n == LastOf(Frames, 0)
<1>1. /\ Frames \in Seq(Nat) /\ wire \in Seq(Nat) /\ page.shown \in Seq(Nat) /\ n \in Nat
      /\ Up(Frames) /\ ToSet(Frames) \subseteq 1 .. LogEnd /\ \A x \in ToSet(Frames) : x <= n /\ x \in Nat
  BY Known DEF StreamInv, InStep, Listed
<1>2. wire \o out \in Seq(Nat) /\ page.shown \o (wire \o out) = (page.shown \o wire) \o out
  <2>1. wire \o out \in Seq(Nat)
    BY <1>1, ConcatProperties
  <2> QED BY <1>1, <2>1, RegroupAll, ZenonT(60)
<1>3. /\ \A x \in ToSet(out) : x \in Nat
      /\ LastOf(out, n) \in Nat /\ (out = <<>> => LastOf(out, n) = n)
      /\ out # <<>> => LastOf(out, n) \in ToSet(out)
      /\ \A x \in ToSet(out) : x <= LastOf(out, n)
  BY <1>1, LastIs
<1>4. \A x \in ToSet(Frames), y \in ToSet(out) : x < y
  BY <1>1, <1>3
<1>5. f \in Seq(Nat) /\ ToSet(f) = ToSet(Frames) \union ToSet(out) /\ Up(f)
  BY <1>1, <1>4, UpJoins
<1>6. LastOf(f, 0) = LastOf(out, n)
  BY <1>1, LastJoins
<1>7. n <= LastOf(out, n)
  BY <1>1, <1>3
<1> QED BY <1>1, <1>2, <1>3, <1>5, <1>6, <1>7 DEF Listed, Frames

\* The replay sends the rows it read, then what is newer of the buffer.
LEMMA ReplayGoes ==
  ASSUME ChainInv, StreamInv, ReplayHistory
  PROVE  StreamInv'
<1> DEFINE new == Newer(conn.buffer, LastOf(conn.rows, conn.sent))
           out == Flushed(conn.rows, conn.buffer)
<1>1. /\ conn.pc = "replay" /\ UNCHANGED <<log, tail, appending, page, blind>>
      /\ conn' = [pc |-> "ask", sent |-> LastOf(out, conn.sent), buffer |-> <<>>, rows |-> <<>>]
      /\ wire' = wire \o out
  BY DEF ReplayHistory
<1>2. /\ conn.sent = LastOf(Frames, 0) /\ conn.sent \in Nat /\ LogEnd \in Nat /\ LogEnd' = LogEnd
      /\ conn.rows \in Seq(Nat) /\ Up(conn.rows) /\ ToSet(conn.rows) \subseteq 1 .. LogEnd
      /\ \A x \in ToSet(conn.rows) : x > conn.sent /\ x \in Nat
      /\ conn.buffer \in Seq(Nat) /\ Up(conn.buffer) /\ ToSet(conn.buffer) \subseteq 1 .. LogEnd
  BY <1>1, Known DEF StreamInv, InStep, Listed, Connected, LogEnd
<1> DEFINE last == LastOf(conn.rows, conn.sent)
<1>3. /\ last \in Nat /\ last >= conn.sent /\ \A x \in ToSet(conn.rows) : x <= last
      /\ last = conn.sent \/ last \in ToSet(conn.rows)
  BY <1>2, LastIs
<1>4. new \in Seq(Nat) /\ Up(new) /\ ToSet(new) = {x \in ToSet(conn.buffer) : x > last}
  BY <1>2, <1>3, NewerIs
<1>5. out = conn.rows \o new
  BY DEF Flushed
<1> HIDE DEF new, out, last
<1>6. /\ out \in Seq(Nat) /\ ToSet(out) = ToSet(conn.rows) \union ToSet(new) /\ Up(out)
  <2>1. \A x \in ToSet(conn.rows), y \in ToSet(new) : x < y
    BY <1>2, <1>3, <1>4
  <2> QED BY <1>2, <1>4, <1>5, <2>1, UpJoins
<1>7. ToSet(out) \subseteq 1 .. LogEnd /\ \A x \in ToSet(out) : x > LastOf(Frames, 0)
  BY <1>2, <1>3, <1>4, <1>6
<1>8. /\ Frames' = Frames \o out /\ wire' \in Seq(Nat) /\ Listed(Frames')
      /\ ToSet(Frames') = ToSet(Frames) \union ToSet(out)
      /\ LastOf(Frames', 0) = LastOf(out, conn.sent) /\ LastOf(Frames', 0) \in Nat
      /\ LastOf(Frames', 0) >= conn.sent
      /\ \A x \in ToSet(out) : x <= LastOf(Frames', 0)
      /\ LastOf(Frames', 0) = conn.sent \/ LastOf(Frames', 0) \in ToSet(out)
  <2>1. Frames' = page.shown \o (wire \o out)
    BY <1>1 DEF Frames
  <2>2. out = <<>> => LastOf(out, conn.sent) = conn.sent
    BY DEF LastOf
  <2> QED BY <1>1, <1>2, <1>6, <1>7, <2>1, <2>2, FramesGo
<1>9. StreamTypeOK'
  BY <1>1, <1>8 DEF StreamInv, StreamTypeOK, ConnPCs
<1>10. Listed(<<>>) /\ ToSet(<<>>) = {}
  BY DEF Listed, Up, ToSet
<1>11. AppendsTold'
  BY <1>1, <1>2, <1>10 DEF StreamInv, AppendsTold, Below
<1>12. InStep'
  BY <1>1, <1>2, <1>8, <1>10 DEF InStep, Listed, Connected
<1>13. ASSUME ~blind PROVE Kept'
  <2> SUFFICES ASSUME NEW i \in 1 .. LogEnd, Due(i)' PROVE Whereabouts(i)'
    BY <1>2 DEF Kept
  <2>1. Whereabouts(i) /\ i \in Nat
    BY <1>1, <1>2, <1>13 DEF Due, StreamInv, Kept
  <2>2. Pending(i)' = Pending(i) /\ (Pending(i) => Below(conn.buffer, i))
    BY <1>1 DEF Pending, StreamInv, AppendsTold
  <2>3. \/ i <= conn.sent /\ i \in ToSet(Frames)
        \/ i > conn.sent /\ i \in ToSet(conn.rows)
        \/ i > conn.sent /\ Below(conn.rows, i) /\ i \in ToSet(conn.buffer)
        \/ i > conn.sent /\ Below(conn.rows, i) /\ Pending(i)
    BY <1>1, <1>2, <2>1 DEF Whereabouts
  <2>4. CASE i > conn.sent /\ Below(conn.rows, i) /\ Pending(i)
    <3>1. \A x \in ToSet(out) : x < i
      BY <1>4, <1>6, <2>2, <2>4 DEF Below
    <3>2. ~(i <= LastOf(Frames', 0))
      BY <1>2, <1>8, <2>1, <2>4, <3>1
    <3> QED BY <1>1, <2>2, <2>4, <3>2 DEF Whereabouts
  <2>5. CASE i > conn.sent /\ Below(conn.rows, i) /\ i \in ToSet(conn.buffer)
    <3>1. i > last
      BY <1>3, <2>5 DEF Below
    <3>2. i \in ToSet(out)
      BY <1>4, <1>6, <2>5, <3>1
    <3>3. i \in ToSet(Frames') /\ ~(i > conn'.sent)
      BY <1>1, <1>8, <2>1, <3>2
    <3> QED BY <1>1, <3>3 DEF Whereabouts
  <2>6. CASE i \in ToSet(conn.rows) \/ (i <= conn.sent /\ i \in ToSet(Frames))
    <3>1. i \in ToSet(Frames') /\ ~(i > conn'.sent)
      BY <1>1, <1>2, <1>6, <1>8, <2>1, <2>6
    <3> QED BY <1>1, <3>1 DEF Whereabouts
  <2> QED BY <2>3, <2>4, <2>5, <2>6
<1> QED BY <1>1, <1>9, <1>11, <1>12, <1>13 DEF StreamInv

\* The last drain sends what is newer of its rows.
LEMMA FinishGoes ==
  ASSUME ChainInv, StreamInv, Finish
  PROVE  StreamInv'
<1> DEFINE out == Newer(conn.rows, conn.sent)
<1>1. /\ conn.pc = "finish" /\ UNCHANGED <<log, tail, appending, page, blind>>
      /\ conn' = [conn EXCEPT !.pc = "ended", !.sent = LastOf(out, @)]
      /\ wire' = wire \o out
  BY DEF Finish
<1>2. /\ conn.sent = LastOf(Frames, 0) /\ conn.sent \in Nat /\ LogEnd \in Nat /\ LogEnd' = LogEnd
      /\ conn.rows \in Seq(Nat) /\ Up(conn.rows) /\ ToSet(conn.rows) \subseteq 1 .. LogEnd
  BY <1>1, Known DEF StreamInv, InStep, Listed, Connected, LogEnd
<1>3. out \in Seq(Nat) /\ Up(out) /\ ToSet(out) = {x \in ToSet(conn.rows) : x > conn.sent}
  BY <1>2, NewerIs
<1> HIDE DEF out
<1>4. /\ Frames' = Frames \o out /\ wire' \in Seq(Nat) /\ Listed(Frames')
      /\ ToSet(Frames') = ToSet(Frames) \union ToSet(out)
      /\ LastOf(Frames', 0) = LastOf(out, conn.sent) /\ LastOf(Frames', 0) \in Nat
      /\ LastOf(Frames', 0) = conn.sent \/ LastOf(Frames', 0) \in ToSet(out)
  <2>1. Frames' = page.shown \o (wire \o out)
    BY <1>1 DEF Frames
  <2>2. ToSet(out) \subseteq 1 .. LogEnd /\ \A x \in ToSet(out) : x > LastOf(Frames, 0)
    BY <1>2, <1>3
  <2>3. out = <<>> => LastOf(out, conn.sent) = conn.sent
    BY DEF LastOf
  <2> QED BY <1>1, <1>2, <1>3, <2>1, <2>2, <2>3, FramesGo
<1>5. /\ conn'.pc = "ended" /\ conn'.sent = LastOf(out, conn.sent)
      /\ conn'.buffer = conn.buffer /\ conn'.rows = conn.rows
  BY <1>1 DEF StreamInv, StreamTypeOK
<1>6. StreamTypeOK'
  BY <1>1, <1>4, <1>5 DEF StreamInv, StreamTypeOK, ConnPCs
<1>7. AppendsTold'
  BY <1>1, <1>2, <1>5 DEF StreamInv, AppendsTold, Below
<1>8. InStep'
  BY <1>2, <1>4, <1>5 DEF StreamInv, InStep, Listed, Connected
<1>9. ASSUME ~blind PROVE Kept'
  <2> SUFFICES ASSUME NEW i \in 1 .. LogEnd, Due(i)', i <= LastOf(Frames', 0)
               PROVE  i \in ToSet(Frames')
    BY <1>2, <1>5 DEF Kept, Whereabouts
  <2>1. Whereabouts(i) /\ i \in Nat
    BY <1>1, <1>2, <1>9 DEF Due, StreamInv, Kept
  <2>2. CASE i <= conn.sent
    BY <1>2, <1>4, <2>1, <2>2 DEF Whereabouts
  <2>3. CASE i > conn.sent
    <3>1. LastOf(Frames', 0) \in ToSet(conn.rows)
      BY <1>2, <1>3, <1>4, <2>1, <2>3
    <3>2. ~Below(conn.rows, i)
      BY <1>4, <2>1, <3>1 DEF Below
    <3>3. i \in ToSet(conn.rows)
      BY <1>1, <2>1, <2>3, <3>2 DEF Whereabouts
    <3> QED BY <1>3, <1>4, <2>3, <3>3
  <2> QED BY <1>2, <2>1, <2>2, <2>3
<1> QED BY <1>1, <1>6, <1>7, <1>8, <1>9 DEF StreamInv

\* The poll, and the record it reads, move no frame.
LEMMA AskKeeps ==
  ASSUME ChainInv, StreamInv, AskTerminal \/ AskThrows \/ ConnectFails \/ OutcomeRecorded
  PROVE  StreamInv'
<1>1. /\ UNCHANGED <<log, tail, appending, wire, blind>> /\ Home \in Servers
      /\ page' \in {page, Rescheduled(page), [page EXCEPT !.status = "closed"]}
      /\ \/ conn' = conn
         \/ /\ conn.pc \in {"ask", "live"} /\ page' = page
            /\ \E pc \in {"live", "drain", "unpolled"} : conn' = [conn EXCEPT !.pc = pc]
  BY StreamAssumption DEF AskTerminal, AskThrows, ConnectFails, OutcomeRecorded
<1>2. page'.shown = page.shown /\ StreamTypeOK'
  <2>1. page'.shown = page.shown /\ page' \in Pages
    BY <1>1, Redials DEF StreamInv, StreamTypeOK, Pages
  <2> QED BY <1>1, <2>1 DEF StreamInv, StreamTypeOK, ConnPCs
<1>3. /\ conn'.sent = conn.sent /\ conn'.buffer = conn.buffer /\ conn'.rows = conn.rows
      /\ conn'.pc = conn.pc \/ (conn.pc \in {"ask", "live"} /\ conn'.pc \in {"live", "drain", "unpolled"})
  BY <1>1 DEF StreamInv, StreamTypeOK
<1>4. AppendsTold'
  BY <1>1, <1>3 DEF StreamInv, AppendsTold, Below, LogEnd
<1>5. InStep' /\ (~blind' => Kept')
  BY <1>1, <1>2, <1>3, StillKept DEF Pending
<1> QED BY <1>2, <1>4, <1>5 DEF StreamInv

\* A new connection resumes at the head of the browser's trace.
LEMMA ConnectOpens ==
  ASSUME ChainInv, StreamInv, Connect
  PROVE  StreamInv'
<1>1. /\ conn.pc = "none" /\ UNCHANGED <<log, tail, appending, wire, blind>>
      /\ conn' = [NoConn EXCEPT !.pc = "query", !.sent = HeadSeq]
      /\ page' = [page EXCEPT !.status = "open", !.attempt = 0, !.opened = TRUE]
  BY DEF Connect, Connected
<1>2. page.shown \in Seq(Nat) /\ wire = <<>> /\ page \in Pages
  BY <1>1, Known DEF StreamInv, InStep, Connected, StreamTypeOK
<1>3. page'.shown = page.shown /\ page' \in Pages
  BY <1>1, <1>2 DEF Pages
<1>4. HeadSeq \in Nat /\ Frames' = Frames /\ LastOf(Frames, 0) = HeadSeq /\ LogEnd' = LogEnd
  <2>1. Frames = page.shown /\ Frames' = page'.shown
    BY <1>1, <1>2, <1>3 DEF Frames
  <2> QED BY <1>1, <1>3, <2>1, Known DEF HeadSeq, LogEnd
<1>5. /\ conn'.pc = "query" /\ conn'.sent = HeadSeq /\ conn'.buffer = <<>> /\ conn'.rows = <<>>
      /\ conn' \in [pc : ConnPCs, sent : Nat, buffer : Seq(Nat), rows : Seq(Nat)]
  <2>1. conn' = [pc |-> "query", sent |-> HeadSeq, buffer |-> <<>>, rows |-> <<>>]
    BY <1>1 DEF NoConn
  <2> QED BY <1>4, <2>1, RegroupAll DEF ConnPCs
<1>6. StreamTypeOK'
  BY <1>1, <1>3, <1>5 DEF StreamInv, StreamTypeOK
<1>7. Listed(<<>>) /\ ToSet(<<>>) = {}
  BY DEF Listed, Up, ToSet
<1>8. AppendsTold'
  BY <1>1, <1>4, <1>5, <1>7 DEF StreamInv, AppendsTold, Below
<1>9. InStep'
  BY <1>4, <1>5, <1>7 DEF StreamInv, InStep, Listed, Connected
<1>10. ASSUME ~blind PROVE Kept'
  BY <1>1, <1>4, <1>5, <1>10 DEF StreamInv, Kept, Due, Whereabouts
<1> QED BY <1>1, <1>6, <1>8, <1>9, <1>10 DEF StreamInv

\* A frame goes from the wire to the page; what is out stays as it is.
LEMMA ReceiveKeeps ==
  ASSUME ChainInv, StreamInv, Receive
  PROVE  StreamInv'
<1> DEFINE n == wire[1]
<1>1. /\ wire # <<>> /\ wire' = Tail(wire) /\ UNCHANGED <<log, tail, appending, conn, blind>>
      /\ page' = [page EXCEPT !.shown = IF n \in ToSet(@) THEN @ ELSE Append(@, n),
                              !.final = @ \/ log[n].kind = "last"]
  BY DEF Receive
<1>2. wire \in Seq(Nat) /\ page.shown \in Seq(Nat) /\ page \in Pages
  BY Known DEF StreamInv, StreamTypeOK
<1>3. n \in Nat /\ Tail(wire) \in Seq(Nat) /\ wire = <<n>> \o Tail(wire) /\ <<n>> \in Seq(Nat)
  BY <1>1, <1>2
<1>4. n \notin ToSet(page.shown)
  <2>1. Up(page.shown \o wire)
    BY DEF StreamInv, InStep, Listed, Frames
  <2>2. n \in ToSet(wire)
    <3>1. 1 \in 1 .. Len(wire)
      BY <1>1, <1>2
    <3> QED BY <1>2, <3>1, ToSetIs
  <2>3. \A x \in ToSet(page.shown) : x < n
    BY <1>2, <2>1, <2>2, UpSplits
  <2> QED BY <1>3, <2>3
<1>5. page'.shown = Append(page.shown, n) /\ page' \in Pages
  <2>1. (page.final \/ log[n].kind = "last") \in BOOLEAN /\ Append(page.shown, n) \in Seq(Nat)
    BY <1>2, <1>3
  <2>2. page' = [page EXCEPT !.shown = Append(page.shown, n), !.final = (page.final \/ log[n].kind = "last")]
    BY <1>1, <1>2, <1>4 DEF Pages
  <2> HIDE DEF n
  <2> QED BY <1>2, <2>1, <2>2 DEF Pages
<1> HIDE DEF n
<1>6. Frames' = Frames /\ LogEnd' = LogEnd
  <2>1. Append(page.shown, n) = page.shown \o <<n>>
    BY <1>2, <1>3, AppendIsConcat
  <2>2. (page.shown \o <<n>>) \o Tail(wire) = page.shown \o (<<n>> \o Tail(wire))
    BY <1>2, <1>3, RegroupAll, ZenonT(60)
  <2> QED BY <1>1, <1>3, <1>5, <2>1, <2>2 DEF Frames, LogEnd
<1>7. StreamTypeOK'
  BY <1>1, <1>3, <1>5 DEF StreamInv, StreamTypeOK
<1>8. AppendsTold'
  BY <1>1, <1>6 DEF StreamInv, AppendsTold, Below
<1>9. InStep'
  BY <1>1, <1>6 DEF StreamInv, InStep, Listed, Connected
<1>10. ASSUME ~blind PROVE Kept'
  <2>1. Kept
    BY <1>10 DEF StreamInv
  <2>2. \A i : Pending(i)' = Pending(i)
    BY <1>1 DEF Pending
  <2> QED BY <1>1, <1>6, <2>1, <2>2 DEF Kept, Due, Whereabouts, Below
<1> QED BY <1>1, <1>7, <1>8, <1>9, <1>10 DEF StreamInv

\* The end of a response, a lost connection, a failed dial and a page that
\* starts over.
LEMMA BreaksKeep ==
  ASSUME ChainInv, StreamInv, SeesEnd \/ ConnectionLost \/ LearnsTerminal
  PROVE  StreamInv'
<1>1. /\ conn' = NoConn /\ wire' = <<>> /\ UNCHANGED <<log, tail, appending, blind>>
      /\ \/ page' = Rescheduled(page)
         \/ page' = [page EXCEPT !.status = "connecting", !.attempt = 0, !.opened = FALSE,
                                 !.knows = TRUE, !.shown = <<>>, !.final = FALSE]
  BY DEF SeesEnd, ConnectionLost, LearnsTerminal
<1>2. page \in Pages
  BY DEF StreamInv, StreamTypeOK
<1>3. page' \in Pages /\ page'.shown \in {page.shown, <<>>}
  <2>1. CASE page' = Rescheduled(page)
    BY <1>2, <2>1, Redials
  <2>2. CASE page' = [page EXCEPT !.status = "connecting", !.attempt = 0, !.opened = FALSE,
                                  !.knows = TRUE, !.shown = <<>>, !.final = FALSE]
    <3>1. page' \in Pages
      BY <1>2, <2>2, RegroupAll DEF Pages
    <3> QED BY <1>2, <2>2, <3>1 DEF Pages
  <2> QED BY <1>1, <2>1, <2>2
<1>4. StreamTypeOK'
  BY <1>1, <1>3, NoConnOK DEF StreamInv, StreamTypeOK
<1> QED BY <1>1, <1>3, <1>4, DisconnectKeeps

\* A server dies with its append and, if it is the stream's, the connection.
LEMMA CrashKeeps ==
  ASSUME ChainInv, StreamInv, NEW s \in Servers, ServerCrashes(s)
  PROVE  StreamInv'
<1>1. /\ appending' = [appending EXCEPT ![s] = Idle] /\ tail' = [tail EXCEPT ![s] = LogEnd]
      /\ log' = log /\ blind' = blind /\ Home \in Servers
      /\ IF s = Home /\ Connected
           THEN conn' = NoConn /\ wire' = <<>> /\ page' = Rescheduled(page)
           ELSE UNCHANGED <<conn, wire, page>>
  BY StreamAssumption DEF ServerCrashes
<1>2. /\ appending'[s] = Idle /\ tail' \in [Servers -> Nat]
      /\ \A u \in Servers \ {s} : appending'[u] = appending[u] /\ tail'[u] = tail[u]
  BY <1>1, Known DEF ChainInv, ChainTypeOK, StreamInv, StreamTypeOK
<1>3. page \in Pages
  BY DEF StreamInv, StreamTypeOK
<1>4. CASE s = Home
  <2>1. (conn' = NoConn /\ wire' = <<>>) \/ (conn.pc = "none" /\ UNCHANGED <<conn, wire, page>>)
    BY <1>1, <1>4 DEF Connected
  <2>2. page' \in Pages /\ page'.shown = page.shown
    BY <1>1, <1>3, Redials
  <2>3. StreamTypeOK'
    BY <1>1, <1>2, <2>1, <2>2, NoConnOK DEF StreamInv, StreamTypeOK
  <2>4. CASE conn' = NoConn /\ wire' = <<>>
    BY <1>1, <1>2, <2>2, <2>3, <2>4, DisconnectKeeps
  <2>5. CASE conn.pc = "none" /\ UNCHANGED <<conn, wire, page>>
    <3>1. Frames' = Frames /\ LogEnd' = LogEnd
      BY <1>1, <2>5 DEF Frames, LogEnd
    <3>2. AppendsTold'
      BY <1>2, <1>4 DEF StreamInv, AppendsTold, Idle
    <3>3. InStep'
      BY <2>5, <3>1 DEF StreamInv, InStep, Listed, Connected
    <3>4. ASSUME ~blind PROVE Kept'
      BY <1>1, <2>5, <3>1, <3>4 DEF StreamInv, Kept, Due, Whereabouts
    <3> QED BY <1>1, <2>3, <3>2, <3>3, <3>4 DEF StreamInv
  <2> QED BY <2>1, <2>4, <2>5
<1>5. CASE s # Home
  <2>1. UNCHANGED <<conn, wire, page>> /\ appending'[Home] = appending[Home] /\ tail'[Home] = tail[Home]
    BY <1>1, <1>2, <1>5
  <2>2. StreamTypeOK'
    BY <1>1, <1>2, <2>1 DEF StreamInv, StreamTypeOK
  <2>3. AppendsTold'
    BY <1>1, <1>2, <2>1 DEF StreamInv, AppendsTold, LogEnd, Below
  <2>4. InStep' /\ (~blind' => Kept')
    BY <1>1, <2>1, StillKept DEF Pending
  <2> QED BY <2>2, <2>3, <2>4 DEF StreamInv
<1> QED BY <1>4, <1>5

\* Nothing is sent and nothing is due.
LEMMA StreamStarts ==
  ASSUME StreamInit
  PROVE  StreamInv
<1>1. /\ log = <<>> /\ conn = NoConn /\ wire = <<>> /\ page.shown = <<>> /\ page \in Pages
      /\ blind = FALSE /\ tail \in [Servers -> Nat] /\ Home \in Servers
      /\ \A s \in Servers : appending[s] = Idle
  BY StreamAssumption DEF StreamInit, Pages
<1>2. Frames = <<>> /\ LogEnd = 0
  BY <1>1 DEF Frames, LogEnd
<1>3. Listed(<<>>) /\ ToSet(<<>>) = {} /\ LastOf(<<>>, 0) = 0
  BY DEF Listed, Up, ToSet, LastOf
<1>4. StreamTypeOK
  BY <1>1, NoConnOK DEF StreamTypeOK
<1>5. AppendsTold /\ InStep /\ Kept
  BY <1>1, <1>2, <1>3 DEF AppendsTold, InStep, Kept, NoConn, Connected, Idle
<1> QED BY <1>4, <1>5 DEF StreamInv

\* Every step of the module keeps the invariant of the stream.
LEMMA StreamMoves ==
  ASSUME ChainInv, StreamInv, StreamNext \/ UNCHANGED streamVars
  PROVE  StreamInv'
<1>1. ASSUME NEW s \in Servers, NEW ours \in BOOLEAN, NEW kind \in OurKinds, AppendLocks(s, ours, kind)
      PROVE  StreamInv'
  BY <1>1, AppendBegins
<1>2. ASSUME NEW s \in Servers, AppendCommits(s) PROVE StreamInv'
  BY <1>2, CommitTells
<1>3. ASSUME NEW s \in Servers, Published(s) PROVE StreamInv'
  BY <1>3, PublishTells
<1>4. ASSUME NEW s \in Servers, AppendThrows(s) PROVE StreamInv'
  BY <1>4, AppendBegins
<1>5. ASSUME NEW s \in Servers, ServerCrashes(s) PROVE StreamInv'
  BY <1>5, CrashKeeps
<1>6. CASE OutcomeRecorded \/ StreamStep \/ QueryThrows \/ AskThrows
  BY <1>6, AskKeeps, QueryReads, ReplayGoes, FinishGoes DEF StreamStep
<1>7. CASE PageStep \/ LearnsTerminal \/ ConnectFails \/ ConnectionLost
  BY <1>7, AskKeeps, ConnectOpens, ReceiveKeeps, BreaksKeep DEF PageStep
<1>8. CASE UNCHANGED streamVars
  <2>1. UNCHANGED <<log, tail, appending, conn, wire, page, blind>>
    BY <1>8 DEF streamVars
  <2>2. StreamTypeOK' /\ AppendsTold'
    BY <2>1 DEF StreamInv, StreamTypeOK, AppendsTold, LogEnd, Below
  <2>3. InStep' /\ (~blind' => Kept')
    BY <2>1, StillKept DEF Pending
  <2> QED BY <2>2, <2>3 DEF StreamInv
<1> QED BY <1>1, <1>2, <1>3, <1>4, <1>5, <1>6, <1>7, <1>8 DEF StreamNext, AppendStep, OurKinds

\* The two properties of the run.
LEMMA StreamFollows ==
  ASSUME ChainInv, StreamInv
  PROVE  FramesInOrder /\ PassedOverWasElsewhere
<1>1. FramesInOrder
  <2>1. Up(Frames) /\ Len(Frames) \in Nat
    BY Known DEF StreamInv, InStep, Listed
  <2>2. \A i \in 1 .. Len(Frames) - 1 : i \in 1 .. Len(Frames) /\ i + 1 \in 1 .. Len(Frames) /\ i < i + 1
    BY <2>1
  <2> QED BY <2>1, <2>2 DEF FramesInOrder, Up, Frames
<1>2. PassedOverWasElsewhere
  <2> SUFFICES ASSUME NEW i \in 1 .. LogEnd, Misses(i), ~blind, Due(i) PROVE FALSE
    BY DEF PassedOverWasElsewhere, Due, Misses
  <2>1. Whereabouts(i) /\ i \in Nat /\ i > 0
    BY Known DEF StreamInv, Kept
  <2>2. i \notin ToSet(Frames) /\ i <= Resume
    BY DEF Misses, OnTheWay, Frames
  <2>3. ~(i <= LastOf(Frames, 0))
    BY <2>1, <2>2 DEF Whereabouts
  <2>4. HeadSeq \in Nat /\ HeadSeq <= LastOf(Frames, 0)
    <3>1. HeadSeq \in Nat /\ (HeadSeq = 0 \/ HeadSeq \in ToSet(page.shown))
      BY Known, LastIs DEF HeadSeq
    <3> QED BY <3>1, Known
  <2>5. Connected => conn.sent = LastOf(Frames, 0)
    BY DEF StreamInv, InStep
  <2> QED BY <2>1, <2>2, <2>3, <2>4, <2>5, Known DEF Resume
<1> QED BY <1>1, <1>2
=============================================================================
