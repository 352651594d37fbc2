---------------------------- MODULE OffersProofs ----------------------------
(***************************************************************************)
(* Offers, for any catalogue, cart, rules and answers of a model: what the *)
(* gate recomputes, what is minted, held and shown never makes or loses a  *)
(* paisa or a unit; the gate says what the policy says of the cart as it   *)
(* came; and whoever wrote an offer, it sells what the shelf holds and     *)
(* quotes only what the shelf justifies.                                   *)
(*                                                                         *)
(* The arithmetic is sums over sequences of any length.  A sum is brought  *)
(* to its steps once (SumSteps); the lemmas after it add, scale, compare   *)
(* and count by going along them.  Then the artefacts of the money, the    *)
(* gate rule by rule (Marked says what each entry of the trace is, and     *)
(* SoundFate what it means of the lines as they came), the two writers of  *)
(* an offer (Offered), and last the invariant of a decision (OffersInv).   *)
(***************************************************************************)
EXTENDS Offers, FiniteSetTheorems, SequenceTheorems, WellFoundedInduction, TLAPS

----------------------------------------------------------------------------
(* Folds, step by step.                                                    *)

\* A set of naturals that is not empty has a least element.
LEMMA LeastNat ==
  ASSUME NEW T, T \subseteq Nat, T # {}
  PROVE  \E x \in T : \A y \in T : x <= y
<1> DEFINE R == {ss \in Nat \X Nat : ss[1] < ss[2]}
<1>1. IsWellFoundedOn(R, Nat)
  BY NatLessThanWellFounded DEF OpToRel
<1>2. PICK x \in T : \A y \in T : ~(<<y, x>> \in R)
  BY <1>1, WFMin
<1>3. \A y \in T : ~(y < x)
  BY <1>2
<1> QED BY <1>3

\* The greatest of a set of naturals, bounded by n.
LEMMA MaxIs ==
  ASSUME NEW n \in Nat, NEW s \in SUBSET (1 .. n), s # {}
  PROVE  /\ Max(s) \in s /\ \A y \in s : Max(s) >= y
<1> DEFINE T == {m \in Nat : \A y \in s : m >= y}
<1>1. n \in T
  OBVIOUS
<1>2. PICK m \in T : \A k \in T : m <= k
  <2> HIDE DEF T
  <2>1. T \subseteq Nat /\ T # {}
    BY <1>1 DEF T
  <2> QED BY <2>1, LeastNat
<1>3. m \in s
  <2> SUFFICES ASSUME m \notin s PROVE FALSE
    OBVIOUS
  <2>1. m \in Nat /\ \A y \in s : y \in Nat /\ y > 0 /\ m >= y /\ m # y
    OBVIOUS
  <2>2. m - 1 \in T
    <3>1. \A y \in s : m - 1 >= y
      BY <2>1
    <3>2. m - 1 \in Nat
      <4>1. PICK y \in s : TRUE
        OBVIOUS
      <4> QED BY <2>1, <4>1
    <3> QED BY <3>1, <3>2
  <2>3. m <= m - 1
    <3> HIDE DEF T
    <3> QED BY <1>2, <2>2
  <2> QED BY <2>1, <2>3
<1>4. \E x \in s : \A y \in s : x >= y
  BY <1>3
<1> QED BY <1>4 DEF Max

\* A prefix of 1 .. n, and the one before it.
LEMMA PrefixIs ==
  ASSUME NEW n \in Nat, NEW k \in 1 .. n
  PROVE  /\ k \in Nat /\ k - 1 \in 0 .. n /\ ~(k <= k - 1)
         /\ 1 .. k \in SUBSET (1 .. n) /\ 1 .. k # {} /\ Max(1 .. k) = k
         /\ (1 .. k) \ {k} = 1 .. (k - 1)
<1>1. k \in Nat /\ k - 1 \in 0 .. n /\ ~(k <= k - 1)
  OBVIOUS
<1>2. k \in 1 .. k /\ 1 .. k \in SUBSET (1 .. n)
  OBVIOUS
<1>3. (1 .. k) \ {k} = 1 .. (k - 1)
  OBVIOUS
<1>4. Max(1 .. k) \in 1 .. k /\ Max(1 .. k) >= k
  BY <1>2, MaxIs
<1>5. Max(1 .. k) = k
  BY <1>1, <1>4
<1> QED BY <1>1, <1>2, <1>3, <1>5

\* A step that stays in A can be taken along 1 .. n, from any base in A.
Folds(g, base, F, n) ==
  \A s \in SUBSET (1 .. n) : g[s] = IF s = {} THEN base ELSE F[Max(s)][g[s \ {Max(s)}]]

\* By least counterexample: the function is extended from 1 .. m - 1 to 1 .. m.
LEMMA FoldExists ==
  ASSUME NEW n \in Nat, NEW A, NEW base \in A, NEW F \in [1 .. n -> [A -> A]]
  PROVE  \E g \in [SUBSET (1 .. n) -> A] : Folds(g, base, F, n)
<1> DEFINE P(m) == \E g \in [SUBSET (1 .. m) -> A] : Folds(g, base, F, m)
           T == {m \in 0 .. n : ~P(m)}
<1> SUFFICES ASSUME T # {} PROVE FALSE
  <2>1. P(n) => \E g \in [SUBSET (1 .. n) -> A] : Folds(g, base, F, n)
    OBVIOUS
  <2> HIDE DEF P
  <2>2. n \in 0 .. n
    OBVIOUS
  <2> QED BY <2>1, <2>2
<1>1. PICK m \in T : \A k \in T : m <= k
  <2>1. T \subseteq Nat
    OBVIOUS
  <2> HIDE DEF T
  <2> QED BY <2>1, LeastNat
<1>2. m \in 0 .. n /\ ~P(m)
  OBVIOUS
<1>3. m # 0
  <2> SUFFICES ASSUME m = 0 PROVE P(0)
    BY <1>2
  <2> DEFINE g == [s \in SUBSET (1 .. 0) |-> base]
  <2>1. g \in [SUBSET (1 .. 0) -> A] /\ \A s \in SUBSET (1 .. 0) : s = {} /\ g[s] = base
    OBVIOUS
  <2> HIDE DEF g
  <2>2. Folds(g, base, F, 0)
    BY <2>1 DEF Folds
  <2> QED BY <2>1, <2>2
<1> DEFINE k == m - 1
<1>4. k \in 0 .. n /\ m = k + 1 /\ k \in Nat /\ m \in 1 .. n
  BY <1>2, <1>3
<1>5. P(k)
  <2>1. k \notin T
    <3> HIDE DEF T
    <3>1. ~(m <= k) 
      BY <1>4
    <3> QED BY <1>1, <3>1
  <2> QED BY <1>4, <2>1
<1> HIDE DEF k
<1>6. PICK g \in [SUBSET (1 .. k) -> A] : Folds(g, base, F, k)
  BY <1>5
<1> DEFINE h == [s \in SUBSET (1 .. m) |-> IF m \in s THEN F[m][g[s \ {m}]] ELSE g[s]]
<1>7. \A s \in SUBSET (1 .. m) : s \ {m} \in SUBSET (1 .. k) /\ (m \notin s => s \in SUBSET (1 .. k))
  BY <1>4
<1>8. \A s \in SUBSET (1 .. m) : h[s] \in A
  <2> TAKE s \in SUBSET (1 .. m)
  <2>1. CASE m \in s
    <3>1. s \ {m} \in SUBSET (1 .. k)
      BY <1>7
    <3>2. F[m] \in [A -> A]
      BY <1>3, <1>4
    <3>3. \A u \in SUBSET (1 .. k) : g[u] \in A
      OBVIOUS
    <3>4. F[m][g[s \ {m}]] \in A
      BY <3>1, <3>2, <3>3
    <3>5. h[s] = F[m][g[s \ {m}]]
      BY <2>1
    <3> HIDE DEF h
    <3> QED BY <3>4, <3>5
  <2>2. CASE m \notin s
    BY <1>7, <2>2
  <2> QED BY <2>1, <2>2
<1>9. h \in [SUBSET (1 .. m) -> A]
  BY <1>8
<1>10. Folds(h, base, F, m)
  <2> SUFFICES ASSUME NEW s \in SUBSET (1 .. m)
               PROVE  h[s] = IF s = {} THEN base ELSE F[Max(s)][h[s \ {Max(s)}]]
    BY DEF Folds
  <2>1. CASE m \in s
    <3>1. Max(s) = m
      <4>1. m \in Nat /\ s # {}
        BY <1>4, <2>1
      <4>2. Max(s) \in s /\ \A y \in s : Max(s) >= y
        BY <4>1, MaxIs
      <4>3. Max(s) \in 1 .. m /\ Max(s) >= m
        BY <2>1, <4>2
      <4> QED BY <4>1, <4>3
    <3>2. h[s \ {m}] = g[s \ {m}]
      OBVIOUS
    <3>3. h[s] = F[m][g[s \ {m}]]
      BY <2>1
    <3> HIDE DEF h
    <3> QED BY <2>1, <3>1, <3>2, <3>3
  <2>2. CASE m \notin s
    <3>1. s \in SUBSET (1 .. k) /\ h[s] = g[s]
      BY <1>7, <2>2
    <3>2. CASE s # {}
      <4>1. Max(s) \in s
        BY <1>4, <3>1, <3>2, MaxIs
      <4>2. h[s \ {Max(s)}] = g[s \ {Max(s)}]
        BY <2>2
      <4> HIDE DEF h
      <4> QED BY <1>6, <3>1, <3>2, <4>2 DEF Folds
    <3>3. CASE s = {}
      <4> HIDE DEF h
      <4> QED BY <1>6, <3>1, <3>3 DEF Folds
    <3> QED BY <3>2, <3>3
  <2> QED BY <2>1, <2>2
<1> HIDE DEF h
<1>11. P(m)
  BY <1>9, <1>10
<1> QED BY <1>2, <1>11

\* What holds of 0 and is handed on at every step holds up to n.
LEMMA Climbs ==
  ASSUME NEW n \in Nat, NEW T, 0 \in T, \A k \in 1 .. n : k - 1 \in T => k \in T
  PROVE  \A k \in 0 .. n : k \in T
<1> DEFINE U == {k \in 0 .. n : k \notin T}
<1> SUFFICES ASSUME U # {} PROVE FALSE
  OBVIOUS
<1>1. PICK k \in U : \A m \in U : k <= m
  <2>1. U \subseteq Nat
    OBVIOUS
  <2> HIDE DEF U
  <2> QED BY <2>1, LeastNat
<1>2. k \in 1 .. n /\ k - 1 \in 0 .. n /\ ~(k <= k - 1) /\ k \notin T
  OBVIOUS
<1>3. k - 1 \notin U
  <2> HIDE DEF U
  <2> QED BY <1>1, <1>2
<1> QED BY <1>2, <1>3

----------------------------------------------------------------------------
(* Sums.                                                                   *)

\* A sum is reached by adding the numbers one after the other.
Sums(g, s, n) == g \in [0 .. n -> Int] /\ g[0] = 0 /\ \A k \in 1 .. n : g[k] = g[k - 1] + s[k]

LEMMA SumSteps ==
  ASSUME NEW n \in Nat, NEW s \in [1 .. n -> Int]
  PROVE  \E g : Sums(g, s, n) /\ g[n] = SumSeq(s)
<1> DEFINE Turn(g) == [u \in SUBSET (1 .. n) |-> IF u = {} THEN 0 ELSE g[u \ {Max(u)}] + s[Max(u)]]
           F == [i \in 1 .. n |-> [a \in Int |-> a + s[i]]]
<1>1. DOMAIN s = 1 .. n
  OBVIOUS
<1>2. SumSeq(s) = (CHOOSE g : g = Turn(g))[1 .. n]
  BY <1>1 DEF SumSeq, FoldLeft, MapThenFoldSet
<1>3. F \in [1 .. n -> [Int -> Int]]
  OBVIOUS
<1>4. PICK f \in [SUBSET (1 .. n) -> Int] : Folds(f, 0, F, n)
  <2>1. 0 \in Int
    OBVIOUS
  <2> HIDE DEF F
  <2> QED BY <1>3, <2>1, FoldExists
<1>5. f = Turn(f)
  <2>1. ASSUME NEW u \in SUBSET (1 .. n), u # {} PROVE F[Max(u)][f[u \ {Max(u)}]] = f[u \ {Max(u)}] + s[Max(u)]
    <3>1. Max(u) \in 1 .. n
      BY <2>1, MaxIs
    <3>2. f[u \ {Max(u)}] \in Int
      OBVIOUS
    <3> QED BY <3>1, <3>2
  <2>2. \A u \in SUBSET (1 .. n) : f[u] = IF u = {} THEN 0 ELSE f[u \ {Max(u)}] + s[Max(u)]
    <3> HIDE DEF F
    <3> QED BY <1>4, <2>1 DEF Folds
  <2> QED BY <2>2
<1> DEFINE h == CHOOSE x : x = Turn(x)
<1>6. h = Turn(h)
  <2> HIDE DEF Turn
  <2> QED BY <1>5
<1> HIDE DEF h
<1>7. \A u \in SUBSET (1 .. n) : h[u] = IF u = {} THEN 0 ELSE h[u \ {Max(u)}] + s[Max(u)]
  BY <1>6
<1>8. \A k \in 1 .. n : h[1 .. k] = h[1 .. (k - 1)] + s[k]
  BY <1>7, PrefixIs, ZenonT(40)
<1>9. h[1 .. 0] = 0
  <2>1. 1 .. 0 = {} /\ {} \in SUBSET (1 .. n)
    OBVIOUS
  <2> QED BY <1>7, <2>1
<1> DEFINE T == {k \in 0 .. n : h[1 .. k] \in Int}
<1>10. \A k \in 0 .. n : k \in T
  <2>1. 0 \in T
    BY <1>9
  <2>2. ASSUME NEW k \in 1 .. n, k - 1 \in T PROVE k \in T
    <3>1. h[1 .. (k - 1)] \in Int /\ s[k] \in Int /\ k \in 0 .. n
      BY <2>2
    <3>2. h[1 .. k] \in Int
      BY <1>8, <3>1
    <3> QED BY <3>1, <3>2
  <2> HIDE DEF T
  <2> QED BY <2>1, <2>2, Climbs
<1> DEFINE g == [k \in 0 .. n |-> h[1 .. k]]
<1>11. g \in [0 .. n -> Int]
  <2>1. \A k \in 0 .. n : h[1 .. k] \in Int
    BY <1>10
  <2> QED BY <2>1
<1>12. \A k \in 0 .. n : g[k] = h[1 .. k]
  OBVIOUS
<1>13. n \in 0 .. n /\ 0 \in 0 .. n /\ \A k \in 1 .. n : k \in 0 .. n /\ k - 1 \in 0 .. n
  OBVIOUS
<1> HIDE DEF g
<1>14. Sums(g, s, n)
  BY <1>8, <1>9, <1>11, <1>12, <1>13 DEF Sums
<1>15. g[n] = SumSeq(s)
  BY <1>2, <1>12, <1>13 DEF h
<1> QED BY <1>14, <1>15

\* A sum of integers is one, and that of none is 0.
LEMMA SumIsInt ==
  ASSUME NEW n \in Nat, NEW s \in [1 .. n -> Int]
  PROVE  SumSeq(s) \in Int /\ (n = 0 => SumSeq(s) = 0)
BY SumSteps DEF Sums

\* The sum of sums.
Adds(s, t, u, n) ==
  /\ n \in Nat /\ s \in [1 .. n -> Int] /\ t \in [1 .. n -> Int] /\ u \in [1 .. n -> Int]
  /\ \A i \in 1 .. n : u[i] = s[i] + t[i]

LEMMA SumAdds ==
  ASSUME NEW n, NEW s, NEW t, NEW u, Adds(s, t, u, n)
  PROVE  SumSeq(u) = SumSeq(s) + SumSeq(t)
<1>0. n \in Nat /\ s \in [1 .. n -> Int] /\ t \in [1 .. n -> Int] /\ u \in [1 .. n -> Int]
      /\ \A i \in 1 .. n : u[i] = s[i] + t[i]
  BY DEF Adds
<1>1. PICK a : Sums(a, s, n) /\ a[n] = SumSeq(s)
  BY <1>0, SumSteps
<1>2. PICK b : Sums(b, t, n) /\ b[n] = SumSeq(t)
  BY <1>0, SumSteps
<1>3. PICK c : Sums(c, u, n) /\ c[n] = SumSeq(u)
  BY <1>0, SumSteps
<1> DEFINE T == {k \in 0 .. n : c[k] = a[k] + b[k]}
<1>4. 0 \in T
  BY <1>0, <1>1, <1>2, <1>3 DEF Sums
<1>5. ASSUME NEW k \in 1 .. n, k - 1 \in T PROVE k \in T
  <2>1. k \in 0 .. n /\ k - 1 \in 0 .. n /\ c[k - 1] = a[k - 1] + b[k - 1]
    BY <1>0, <1>5
  <2>2. a[k] = a[k - 1] + s[k] /\ b[k] = b[k - 1] + t[k] /\ c[k] = c[k - 1] + (s[k] + t[k])
    BY <1>0, <1>1, <1>2, <1>3 DEF Sums
  <2>3. a[k - 1] \in Int /\ b[k - 1] \in Int /\ s[k] \in Int /\ t[k] \in Int
    BY <1>0, <1>1, <1>2, <2>1 DEF Sums
  <2> QED BY <2>1, <2>2, <2>3
<1>6. n \in T
  <2> HIDE DEF T
  <2>1. n \in 0 .. n
    BY <1>0
  <2> QED BY <1>0, <1>4, <1>5, <2>1, Climbs
<1> QED BY <1>1, <1>2, <1>3, <1>6

\* A multiple of a sum.
LEMMA SumScales ==
  ASSUME NEW n \in Nat, NEW s \in [1 .. n -> Int], NEW u \in [1 .. n -> Int], NEW c \in Int,
         \A i \in 1 .. n : u[i] = c * s[i]
  PROVE  SumSeq(u) = c * SumSeq(s)
<1>1. PICK a : Sums(a, s, n) /\ a[n] = SumSeq(s)
  BY SumSteps
<1>2. PICK b : Sums(b, u, n) /\ b[n] = SumSeq(u)
  BY SumSteps
<1> DEFINE T == {k \in 0 .. n : b[k] = c * a[k]}
<1>3. 0 \in T
  BY <1>1, <1>2 DEF Sums
<1>4. ASSUME NEW k \in 1 .. n, k - 1 \in T PROVE k \in T
  <2>1. k \in 0 .. n /\ k - 1 \in 0 .. n /\ b[k - 1] = c * a[k - 1]
    BY <1>4
  <2>2. a[k] = a[k - 1] + s[k] /\ b[k] = b[k - 1] + c * s[k]
    BY <1>1, <1>2 DEF Sums
  <2>3. a[k - 1] \in Int /\ s[k] \in Int
    BY <1>1, <2>1 DEF Sums
  <2>4. c * (a[k - 1] + s[k]) = c * a[k - 1] + c * s[k]
    BY <2>3
  <2> QED BY <2>1, <2>2, <2>4
<1>5. n \in T
  <2> HIDE DEF T
  <2>1. n \in 0 .. n
    OBVIOUS
  <2> QED BY <1>3, <1>4, <2>1, Climbs
<1> QED BY <1>1, <1>2, <1>5

\* A larger sum of larger numbers, and what the sum tells when they are not all equal.
LEMMA SumCompares ==
  ASSUME NEW n \in Nat, NEW s \in [1 .. n -> Int], NEW t \in [1 .. n -> Int],
         \A i \in 1 .. n : s[i] <= t[i]
  PROVE  /\ SumSeq(s) <= SumSeq(t)
         /\ \A i \in 1 .. n : t[i] - s[i] <= SumSeq(t) - SumSeq(s)
<1>1. PICK a : Sums(a, s, n) /\ a[n] = SumSeq(s)
  BY SumSteps
<1>2. PICK b : Sums(b, t, n) /\ b[n] = SumSeq(t)
  BY SumSteps
<1> DEFINE T == {k \in 0 .. n : a[k] <= b[k] /\ \A i \in 1 .. k : t[i] - s[i] <= b[k] - a[k]}
<1>3. 0 \in T
  BY <1>1, <1>2 DEF Sums
<1>4. ASSUME NEW k \in 1 .. n, k - 1 \in T PROVE k \in T
  <2>1. k \in 0 .. n /\ k - 1 \in 0 .. n /\ a[k - 1] <= b[k - 1]
        /\ \A i \in 1 .. (k - 1) : t[i] - s[i] <= b[k - 1] - a[k - 1]
    BY <1>4
  <2>2. a[k] = a[k - 1] + s[k] /\ b[k] = b[k - 1] + t[k]
    BY <1>1, <1>2 DEF Sums
  <2>3. a[k - 1] \in Int /\ b[k - 1] \in Int /\ s[k] \in Int /\ t[k] \in Int /\ s[k] <= t[k]
    BY <1>1, <1>2, <2>1 DEF Sums
  <2>4. a[k] <= b[k] /\ b[k] - a[k] >= b[k - 1] - a[k - 1] /\ t[k] - s[k] <= b[k] - a[k]
    BY <2>1, <2>2, <2>3
  <2>5. \A i \in 1 .. k : t[i] - s[i] <= b[k] - a[k]
    <3> TAKE i \in 1 .. k
    <3>1. CASE i = k
      BY <2>4, <3>1
    <3>2. CASE i \in 1 .. (k - 1)
      <4>1. t[i] - s[i] \in Int /\ t[i] - s[i] <= b[k - 1] - a[k - 1]
        BY <2>1, <3>2
      <4>2. b[k] - a[k] \in Int /\ b[k - 1] - a[k - 1] \in Int
        BY <2>2, <2>3
      <4>3. \A x, y, z \in Int : x <= y /\ z >= y => x <= z
        OBVIOUS
      <4> QED BY <2>4, <4>1, <4>2, <4>3, SMTT(40)
    <3> QED BY <3>1, <3>2
  <2> QED BY <2>1, <2>4, <2>5
<1>5. n \in T
  <2> HIDE DEF T
  <2>1. n \in 0 .. n
    OBVIOUS
  <2> QED BY <1>3, <1>4, <2>1, Climbs
<1> QED BY <1>1, <1>2, <1>5

\* A sum with one term that counts.
LEMMA SumOfOne ==
  ASSUME NEW n \in Nat, NEW s \in [1 .. n -> Int], NEW j \in 1 .. n, \A i \in 1 .. n : i # j => s[i] = 0
  PROVE  SumSeq(s) = s[j]
<1>1. PICK a : Sums(a, s, n) /\ a[n] = SumSeq(s)
  BY SumSteps
<1> DEFINE T == {k \in 0 .. n : a[k] = IF k < j THEN 0 ELSE s[j]}
<1>2. 0 \in T
  BY <1>1 DEF Sums
<1>3. ASSUME NEW k \in 1 .. n, k - 1 \in T PROVE k \in T
  <2>1. k \in 0 .. n /\ k - 1 \in 0 .. n /\ a[k - 1] = IF k - 1 < j THEN 0 ELSE s[j]
    BY <1>3
  <2>2. a[k] = a[k - 1] + s[k] /\ s[k] \in Int /\ s[j] \in Int
    BY <1>1 DEF Sums
  <2>3. CASE k = j
    BY <2>1, <2>2, <2>3
  <2>4. CASE k # j
    BY <2>1, <2>2, <2>4
  <2> QED BY <2>3, <2>4
<1>4. n \in T
  <2> HIDE DEF T
  <2>1. n \in 0 .. n
    OBVIOUS
  <2> QED BY <1>2, <1>3, <2>1, Climbs
<1> QED BY <1>1, <1>4

\* A sum in which nothing counts.
LEMMA SumOfZeros ==
  ASSUME NEW n \in Nat, NEW s \in [1 .. n -> Int], \A i \in 1 .. n : s[i] = 0
  PROVE  SumSeq(s) = 0
<1>1. CASE n = 0
  BY <1>1, SumIsInt
<1>2. CASE n # 0
  <2>1. 1 \in 1 .. n
    BY <1>2
  <2> QED BY <2>1, SumOfOne
<1> QED BY <1>1, <1>2

\* A sum of zeros and ones counts the ones.
LEMMA SumCounts ==
  ASSUME NEW n \in Nat, NEW s \in [1 .. n -> {0, 1}]
  PROVE  SumSeq(s) = Cardinality({i \in 1 .. n : s[i] = 1})
<1>1. s \in [1 .. n -> Int]
  OBVIOUS
<1>2. PICK a : Sums(a, s, n) /\ a[n] = SumSeq(s)
  BY <1>1, SumSteps
<1> DEFINE Ones(k) == {i \in 1 .. k : s[i] = 1}
           T == {k \in 0 .. n : IsFiniteSet(Ones(k)) /\ a[k] = Cardinality(Ones(k))}
<1>3. 0 \in T
  <2>1. Ones(0) = {}
    OBVIOUS
  <2>2. a[0] = 0
    BY <1>2 DEF Sums
  <2>3. IsFiniteSet({}) /\ Cardinality({}) = 0
    BY FS_EmptySet
  <2>4. 0 \in 0 .. n
    OBVIOUS
  <2> HIDE DEF Ones
  <2>5. IsFiniteSet(Ones(0)) /\ a[0] = Cardinality(Ones(0))
    BY <2>1, <2>2, <2>3
  <2> QED BY <2>4, <2>5
<1>4. ASSUME NEW k \in 1 .. n, k - 1 \in T PROVE k \in T
  <2>1. k \in 0 .. n /\ IsFiniteSet(Ones(k - 1)) /\ a[k - 1] = Cardinality(Ones(k - 1))
    BY <1>4
  <2>2. a[k] = a[k - 1] + s[k]
    BY <1>2 DEF Sums
  <2>3. CASE s[k] = 1
    <3>1. Ones(k) = Ones(k - 1) \cup {k} /\ k \notin Ones(k - 1)
      BY <2>3
    <3> HIDE DEF Ones
    <3>2. IsFiniteSet(Ones(k)) /\ Cardinality(Ones(k)) = Cardinality(Ones(k - 1)) + 1
      BY <2>1, <3>1, FS_AddElement, SMTT(40)
    <3> QED BY <2>1, <2>2, <2>3, <3>2
  <2>4. CASE s[k] # 1
    <3>1. Ones(k) = Ones(k - 1) /\ s[k] = 0
      BY <2>4
    <3> HIDE DEF Ones
    <3>2. Cardinality(Ones(k - 1)) \in Nat
      BY <2>1, FS_CardinalityType
    <3> QED BY <2>1, <2>2, <3>1, <3>2
  <2> QED BY <2>3, <2>4
<1>5. n \in T
  <2> HIDE DEF T
  <2>1. n \in 0 .. n
    OBVIOUS
  <2> QED BY <1>3, <1>4, <2>1, Climbs
<1> QED BY <1>2, <1>5

\* Two sums, one after the other.
LEMMA SumJoins ==
  ASSUME NEW m \in Nat, NEW n \in Nat, NEW s \in [1 .. m -> Int], NEW t \in [1 .. n -> Int],
         NEW u \in [1 .. m + n -> Int],
         \A i \in 1 .. m : u[i] = s[i], \A i \in 1 .. n : u[m + i] = t[i]
  PROVE  SumSeq(u) = SumSeq(s) + SumSeq(t)
<1>1. PICK a : Sums(a, s, m) /\ a[m] = SumSeq(s)
  BY SumSteps
<1>2. PICK b : Sums(b, t, n) /\ b[n] = SumSeq(t)
  BY SumSteps
<1>3. m + n \in Nat
  OBVIOUS
<1>4. PICK c : Sums(c, u, m + n) /\ c[m + n] = SumSeq(u)
  BY <1>3, SumSteps
<1> DEFINE T == {k \in 0 .. m : c[k] = a[k]}
           U == {k \in 0 .. n : c[m + k] = a[m] + b[k]}
<1>5. m \in T
  <2>1. 0 \in T
    BY <1>1, <1>4 DEF Sums
  <2>2. ASSUME NEW k \in 1 .. m, k - 1 \in T PROVE k \in T
    <3>1. k \in 0 .. m /\ k \in 1 .. (m + n) /\ c[k - 1] = a[k - 1]
      BY <2>2
    <3>2. a[k] = a[k - 1] + s[k] /\ c[k] = c[k - 1] + u[k]
      BY <1>1, <1>4, <3>1 DEF Sums
    <3> QED BY <3>1, <3>2
  <2>3. m \in 0 .. m
    OBVIOUS
  <2> HIDE DEF T
  <2> QED BY <2>1, <2>2, <2>3, Climbs
<1>6. n \in U
  <2>1. 0 \in U
    <3>1. c[m] = a[m] /\ b[0] = 0 /\ a[m] \in Int /\ m + 0 = m
      BY <1>1, <1>2, <1>5 DEF Sums
    <3> QED BY <3>1
  <2>2. ASSUME NEW k \in 1 .. n, k - 1 \in U PROVE k \in U
    <3>1. k \in 0 .. n /\ k - 1 \in 0 .. n /\ m + k \in 1 .. (m + n) /\ c[m + (k - 1)] = a[m] + b[k - 1]
          /\ m + (k - 1) = (m + k) - 1
      BY <2>2
    <3>2. b[k] = b[k - 1] + t[k] /\ c[m + k] = c[(m + k) - 1] + u[m + k] /\ u[m + k] = t[k]
      BY <1>2, <1>4, <3>1 DEF Sums
    <3>3. a[m] \in Int /\ b[k - 1] \in Int /\ t[k] \in Int
      BY <1>1, <1>2, <3>1 DEF Sums
    <3>4. c[m + k] = a[m] + b[k]
      BY <3>1, <3>2, <3>3, SMTT(40)
    <3> QED BY <3>1, <3>4
  <2>3. n \in 0 .. n
    OBVIOUS
  <2> HIDE DEF U
  <2> QED BY <2>1, <2>2, <2>3, Climbs
<1> QED BY <1>1, <1>2, <1>4, <1>6

\* What the members of a sequence weigh.
Weighed(w, q) == [i \in DOMAIN q |-> w[q[i]]]

LEMMA WeighedIs ==
  ASSUME NEW X, NEW w \in [X -> Int], NEW p \in Seq(X), NEW q \in Seq(X)
  PROVE  /\ Len(p) \in Nat /\ Weighed(w, p) \in [1 .. Len(p) -> Int] /\ SumSeq(Weighed(w, p)) \in Int
         /\ SumSeq(Weighed(w, p \o q)) = SumSeq(Weighed(w, p)) + SumSeq(Weighed(w, q))
<1>1. \A r \in Seq(X) : Len(r) \in Nat /\ Weighed(w, r) \in [1 .. Len(r) -> Int]
  <2> TAKE r \in Seq(X)
  <2>1. Len(r) \in Nat /\ DOMAIN r = 1 .. Len(r) /\ \A i \in 1 .. Len(r) : r[i] \in X
    OBVIOUS
  <2> QED BY <2>1 DEF Weighed
<1>2. SumSeq(Weighed(w, p)) \in Int
  BY <1>1, SumIsInt
<1> DEFINE m == Len(p)  n == Len(q)  s == Weighed(w, p)  t == Weighed(w, q)  u == Weighed(w, p \o q)
<1>3. p \o q \in Seq(X) /\ Len(p \o q) = m + n
      /\ (\A i \in 1 .. m : (p \o q)[i] = p[i]) /\ (\A i \in 1 .. n : (p \o q)[m + i] = q[i])
  <2>1. p \o q \in Seq(X) /\ Len(p \o q) = m + n
    OBVIOUS
  <2>2. \A i \in 1 .. (Len(p) + Len(q)) : (p \o q)[i] = IF i <= Len(p) THEN p[i] ELSE q[i - Len(p)]
    BY ConcatProperties
  <2>3. ASSUME NEW i \in 1 .. m PROVE (p \o q)[i] = p[i]
    <3>1. i \in 1 .. (Len(p) + Len(q)) /\ i <= Len(p)
      OBVIOUS
    <3> QED BY <2>2, <3>1
  <2>4. ASSUME NEW i \in 1 .. n PROVE (p \o q)[m + i] = q[i]
    <3>1. m + i \in 1 .. (Len(p) + Len(q)) /\ ~(m + i <= Len(p)) /\ (m + i) - Len(p) = i
      OBVIOUS
    <3> QED BY <2>2, <3>1
  <2> QED BY <2>1, <2>3, <2>4
<1>4. m \in Nat /\ n \in Nat /\ s \in [1 .. m -> Int] /\ t \in [1 .. n -> Int] /\ u \in [1 .. m + n -> Int]
  BY <1>1, <1>3
<1>5. DOMAIN p = 1 .. m /\ DOMAIN q = 1 .. n /\ DOMAIN (p \o q) = 1 .. (m + n)
  BY <1>3
<1>6. (\A i \in 1 .. m : u[i] = s[i]) /\ (\A i \in 1 .. n : u[m + i] = t[i])
  <2>1. ASSUME NEW i \in 1 .. m PROVE u[i] = s[i]
    <3>1. i \in 1 .. (m + n)
      BY <1>4
    <3> QED BY <1>3, <1>5, <3>1 DEF Weighed
  <2>2. ASSUME NEW i \in 1 .. n PROVE u[m + i] = t[i]
    <3>1. m + i \in 1 .. (m + n)
      BY <1>4
    <3> QED BY <1>3, <1>5, <3>1 DEF Weighed
  <2> QED BY <2>1, <2>2
<1> HIDE DEF m, n, s, t, u
<1>7. SumSeq(u) = SumSeq(s) + SumSeq(t)
  <2>1. m \in Nat /\ n \in Nat
    BY <1>4
  <2>2. s \in [1 .. m -> Int]
    BY <1>4
  <2>3. t \in [1 .. n -> Int]
    BY <1>4
  <2>4. u \in [1 .. m + n -> Int]
    BY <1>4
  <2>5. \A i \in 1 .. m : u[i] = s[i]
    BY <1>6
  <2>6. \A i \in 1 .. n : u[m + i] = t[i]
    BY <1>6
  <2> QED BY <2>1, <2>2, <2>3, <2>4, <2>5, <2>6, SumJoins, ZenonT(60)
<1> QED BY <1>1, <1>2, <1>7 DEF s, t, u

WeightsOfParts(w, seqs, n) == [i \in 1 .. n |-> SumSeq(Weighed(w, seqs[i]))]

\* What is flattened weighs what its parts weigh.
LEMMA FlatWeighs ==
  ASSUME NEW X, NEW w \in [X -> Int], NEW n \in Nat, NEW seqs \in [1 .. n -> Seq(X)]
  PROVE  /\ FlattenSeq(seqs) \in Seq(X)
         /\ SumSeq(Weighed(w, FlattenSeq(seqs))) = SumSeq(WeightsOfParts(w, seqs, n))
<1> DEFINE A == Seq(X)
           parts == WeightsOfParts(w, seqs, n)
           Turn(f) == [i \in 1 .. n |-> IF i = 1 THEN seqs[i] ELSE f[i - 1] \o seqs[i]]
           F == [i \in 1 .. n |-> [a \in A |-> a \o seqs[i]]]
<1>1. Len(seqs) = n /\ DOMAIN seqs = 1 .. n
  OBVIOUS
<1>2. parts \in [1 .. n -> Int] /\ \A i \in 1 .. n : parts[i] = SumSeq(Weighed(w, seqs[i]))
  BY WeighedIs DEF WeightsOfParts
<1>3. PICK c : Sums(c, parts, n) /\ c[n] = SumSeq(parts)
  <2> HIDE DEF parts
  <2> QED BY <1>2, SumSteps
<1>4. CASE n = 0
  <2>1. FlattenSeq(seqs) = seqs /\ seqs \in Seq(X) /\ Len(seqs) = 0
    BY <1>1, <1>4 DEF FlattenSeq
  <2>2. Weighed(w, seqs) \in [1 .. 0 -> Int]
    BY <2>1, WeighedIs
  <2>3. SumSeq(Weighed(w, seqs)) = 0
    BY <2>2, SumIsInt
  <2>4. SumSeq(parts) = 0
    <3> HIDE DEF parts
    <3> QED BY <1>2, <1>4, SumIsInt
  <2> QED BY <2>1, <2>3, <2>4
<1>5. CASE n # 0
  <2>1. FlattenSeq(seqs) = (CHOOSE f : f = Turn(f))[n]
    BY <1>1, <1>5 DEF FlattenSeq
  <2>2. PICK g \in [SUBSET (1 .. n) -> A] : Folds(g, <<>>, F, n)
    <3>1. F \in [1 .. n -> [A -> A]]
      OBVIOUS
    <3>2. <<>> \in A
      OBVIOUS
    <3> HIDE DEF F, A
    <3> QED BY <3>1, <3>2, FoldExists
  <2> DEFINE h == [i \in 1 .. n |-> g[1 .. i]]
  <2>3. h = Turn(h)
    <3>1. ASSUME NEW i \in 1 .. n PROVE h[i] = IF i = 1 THEN seqs[i] ELSE h[i - 1] \o seqs[i]
      <4>1. 1 .. i \in SUBSET (1 .. n) /\ 1 .. i # {} /\ Max(1 .. i) = i /\ (1 .. i) \ {i} = 1 .. (i - 1)
        BY PrefixIs
      <4>2. g[1 .. i] = F[i][g[1 .. (i - 1)]]
        <5> HIDE DEF F
        <5> QED BY <2>2, <4>1 DEF Folds
      <4>3. 1 .. (i - 1) \in SUBSET (1 .. n) /\ g[1 .. (i - 1)] \in A
        OBVIOUS
      <4>4. g[1 .. i] = g[1 .. (i - 1)] \o seqs[i]
        BY <4>2, <4>3
      <4>5. CASE i = 1
        <5>1. 1 .. (i - 1) = {} /\ {} \in SUBSET (1 .. n)
          BY <4>5
        <5>2. g[{}] = <<>>
          <6> HIDE DEF F
          <6> QED BY <2>2, <5>1 DEF Folds
        <5>3. <<>> \o seqs[i] = seqs[i]
          BY ConcatEmptySeq
        <5> QED BY <4>4, <4>5, <5>1, <5>2, <5>3
      <4>6. CASE i # 1
        <5>1. i - 1 \in 1 .. n
          BY <4>6
        <5> QED BY <4>4, <4>6, <5>1
      <4> QED BY <4>5, <4>6
    <3> HIDE DEF h
    <3>2. DOMAIN h = 1 .. n
      BY DEF h
    <3>3. h = [i \in 1 .. n |-> h[i]]
      BY <3>2 DEF h
    <3> QED BY <3>1, <3>3
  <2> DEFINE f == CHOOSE x : x = Turn(x)
  <2>4. f = Turn(f)
    <3> HIDE DEF Turn, h
    <3> QED BY <2>3
  <2> HIDE DEF f
  <2>5. \A i \in 1 .. n : f[i] = IF i = 1 THEN seqs[i] ELSE f[i - 1] \o seqs[i]
    BY <2>4
  <2> HIDE DEF A, F, Turn, h
  <2> DEFINE T == {k \in 0 .. n : k = 0 \/ (f[k] \in Seq(X) /\ SumSeq(Weighed(w, f[k])) = c[k])}
  <2>6. 0 \in T
    OBVIOUS
  <2>7. ASSUME NEW k \in 1 .. n, k - 1 \in T PROVE k \in T
    <3>1. k \in 0 .. n /\ seqs[k] \in Seq(X) /\ c[k] = c[k - 1] + parts[k]
          /\ parts[k] = SumSeq(Weighed(w, seqs[k])) /\ parts[k] \in Int
      BY <1>2, <1>3 DEF Sums
    <3>2. CASE k = 1
      <4>1. f[k] = seqs[k] /\ c[k - 1] = 0
        BY <1>3, <2>5, <3>2 DEF Sums
      <4> HIDE DEF parts
      <4> QED BY <3>1, <4>1
    <3>3. CASE k # 1
      <4>1. f[k - 1] \in Seq(X) /\ SumSeq(Weighed(w, f[k - 1])) = c[k - 1]
        BY <2>7, <3>3
      <4>2. f[k] = f[k - 1] \o seqs[k]
        BY <2>5, <3>3
      <4>3. f[k] \in Seq(X) /\ SumSeq(Weighed(w, f[k])) = c[k - 1] + SumSeq(Weighed(w, seqs[k]))
        <5>1. \A p, q \in Seq(X) : SumSeq(Weighed(w, p \o q)) = SumSeq(Weighed(w, p)) + SumSeq(Weighed(w, q))
          BY WeighedIs
        <5>2. \A p, q \in Seq(X) : p \o q \in Seq(X)
          OBVIOUS
        <5>3. f[k] \in Seq(X)
          BY <3>1, <4>1, <4>2, <5>2
        <5> QED BY <3>1, <4>1, <4>2, <5>1, <5>3
      <4> QED BY <3>1, <4>3
    <3> QED BY <3>2, <3>3
  <2>8. n \in T
    <3>1. n \in 0 .. n
      OBVIOUS
    <3> HIDE DEF T
    <3> QED BY <2>6, <2>7, <3>1, Climbs
  <2>9. f[n] \in Seq(X) /\ SumSeq(Weighed(w, f[n])) = c[n]
    BY <1>5, <2>8
  <2> QED BY <1>3, <2>1, <2>9 DEF f, Turn
<1> QED BY <1>4, <1>5

----------------------------------------------------------------------------
(* Places in an order.                                                     *)

\* In a strict total order of a finite set, how many come before a member is
\* its place, and every place is taken.
Ordered(S, R) ==
  /\ IsFiniteSet(S)
  /\ \A a, b, c \in S : <<a, b>> \in R /\ <<b, c>> \in R => <<a, c>> \in R
  /\ \A a \in S : <<a, a>> \notin R
  /\ \A a, b \in S : a # b => <<a, b>> \in R \/ <<b, a>> \in R

Rank(S, R, x) == Cardinality({y \in S : <<y, x>> \in R})

LEMMA RankIs ==
  ASSUME NEW S, NEW R, Ordered(S, R)
  PROVE  /\ Cardinality(S) \in Nat
         /\ \A x \in S : Rank(S, R, x) \in 0 .. Cardinality(S) - 1
         /\ \A x, y \in S : <<x, y>> \in R <=> Rank(S, R, x) < Rank(S, R, y)
         /\ \A i \in 0 .. Cardinality(S) - 1 : \E x \in S : Rank(S, R, x) = i
<1> DEFINE n == Cardinality(S)
           Ahead(x) == {y \in S : <<y, x>> \in R}
           rank == [x \in S |-> Cardinality(Ahead(x))]
<1>1. IsFiniteSet(S) /\ n \in Nat
  BY FS_CardinalityType DEF Ordered
<1>2. \A x \in S : IsFiniteSet(Ahead(x)) /\ Cardinality(Ahead(x)) \in 0 .. n - 1
  <2> TAKE x \in S
  <2>1. Ahead(x) \in SUBSET (S \ {x})
    BY DEF Ordered
  <2>2. IsFiniteSet(S \ {x}) /\ Cardinality(S \ {x}) = n - 1
    BY <1>1, FS_RemoveElement
  <2> HIDE DEF Ahead, n
  <2>3. IsFiniteSet(Ahead(x)) /\ Cardinality(Ahead(x)) <= n - 1
    BY <2>1, <2>2, FS_Subset
  <2>4. Cardinality(Ahead(x)) \in Nat
    BY <2>3, FS_CardinalityType
  <2> QED BY <1>1, <2>3, <2>4
<1>3. \A x, y \in S : <<x, y>> \in R => Cardinality(Ahead(x)) < Cardinality(Ahead(y))
  <2> SUFFICES ASSUME NEW x \in S, NEW y \in S, <<x, y>> \in R
               PROVE  Cardinality(Ahead(x)) < Cardinality(Ahead(y))
    OBVIOUS
  <2>1. Ahead(x) \in SUBSET Ahead(y) /\ Ahead(x) # Ahead(y)
    BY DEF Ordered
  <2> HIDE DEF Ahead
  <2>2. Cardinality(Ahead(x)) <= Cardinality(Ahead(y)) /\ Cardinality(Ahead(x)) # Cardinality(Ahead(y))
    BY <1>2, <2>1, FS_Subset
  <2> QED BY <1>1, <1>2, <2>2
<1>4. rank \in [S -> 0 .. n - 1]
  <2> HIDE DEF Ahead, n
  <2> QED BY <1>1, <1>2
<1>5. \A x, y \in S : <<x, y>> \in R => rank[x] < rank[y]
  <2> HIDE DEF Ahead
  <2> QED BY <1>1, <1>2, <1>3
<1>6. \A x \in S : Rank(S, R, x) = rank[x]
  BY DEF Rank
<1> HIDE DEF rank
<1>7. \A x \in S : rank[x] \in Int
  BY <1>1, <1>4
<1>8. \A x, y \in S : rank[x] < rank[y] => <<x, y>> \in R
  <2> SUFFICES ASSUME NEW x \in S, NEW y \in S, rank[x] < rank[y] PROVE <<x, y>> \in R
    OBVIOUS
  <2>1. ~(rank[y] < rank[x]) /\ rank[x] # rank[y]
    BY <1>7
  <2> QED BY <1>5, <2>1 DEF Ordered
<1>9. \A x, y \in S : rank[x] = rank[y] => x = y
  <2>1. \A x, y \in S : rank[x] < rank[y] => rank[x] # rank[y]
    BY <1>7
  <2> QED BY <1>5, <2>1 DEF Ordered
<1>10. \A i \in 0 .. n - 1 : \E x \in S : rank[x] = i
  <2>1. rank \in Injection(S, 0 .. n - 1)
    BY <1>4, <1>9 DEF Injection, IsInjective
  <2>2. IsFiniteSet(0 .. n - 1) /\ Cardinality(0 .. n - 1) = n
    <3>1. 0 \in Int /\ n - 1 \in Int
      BY <1>1
    <3> HIDE DEF n
    <3>2. Cardinality(0 .. n - 1) = IF 0 > n - 1 THEN 0 ELSE (n - 1) - 0 + 1
      BY <3>1, FS_Interval
    <3> QED BY <1>1, <3>1, <3>2, FS_Interval
  <2>3. rank \in Surjection(S, 0 .. n - 1)
    BY <2>1, <2>2, FS_Injection
  <2> QED BY <2>3 DEF Surjection
<1>11. \A x \in S : Rank(S, R, x) \in 0 .. n - 1
  BY <1>4, <1>6
<1>12. \A x, y \in S : <<x, y>> \in R <=> Rank(S, R, x) < Rank(S, R, y)
  BY <1>5, <1>6, <1>8
<1>13. \A i \in 0 .. n - 1 : \E x \in S : Rank(S, R, x) = i
  BY <1>6, <1>10
<1> QED BY <1>1, <1>11, <1>12, <1>13

\* A finite set of naturals, in ascending order, each once.
LEMMA SortedIs ==
  ASSUME NEW S \in SUBSET Nat, IsFiniteSet(S)
  PROVE  /\ Cardinality(S) \in Nat
         /\ Sorted(S) \in [1 .. Cardinality(S) -> S]
         /\ \A x \in S : \E i \in 1 .. Cardinality(S) : Sorted(S)[i] = x
         /\ \A i, j \in 1 .. Cardinality(S) : Sorted(S)[i] = Sorted(S)[j] => i = j
<1> DEFINE R == {p \in S \X S : p[1] < p[2]}  n == Cardinality(S)  s == Sorted(S)
<1>1. Ordered(S, R)
  BY DEF Ordered
<1>2. \A x \in S : Cardinality({y \in S : y < x}) = Rank(S, R, x)
  <2> TAKE x \in S
  <2>1. {y \in S : y < x} = {y \in S : <<y, x>> \in R}
    OBVIOUS
  <2> QED BY <2>1 DEF Rank
<1>3. \A x, y \in S : x < y <=> <<x, y>> \in R
  OBVIOUS
<1> HIDE DEF R
<1>4. n \in Nat /\ (\A x \in S : Rank(S, R, x) \in 0 .. n - 1)
      /\ (\A i \in 0 .. n - 1 : \E x \in S : Rank(S, R, x) = i)
      /\ \A x, y \in S : x < y <=> Rank(S, R, x) < Rank(S, R, y)
  BY <1>1, <1>3, RankIs
<1>5. \A i \in 1 .. n : s[i] \in S /\ Rank(S, R, s[i]) = i - 1
  <2> TAKE i \in 1 .. n
  <2>1. i - 1 \in 0 .. n - 1
    BY <1>4
  <2>2. \E x \in S : Cardinality({y \in S : y < x}) = i - 1
    BY <1>2, <1>4, <2>1
  <2>3. s[i] = CHOOSE x \in S : Cardinality({y \in S : y < x}) = i - 1
    BY DEF Sorted
  <2>4. s[i] \in S /\ Cardinality({y \in S : y < s[i]}) = i - 1
    <3> HIDE DEF s
    <3> QED BY <2>2, <2>3
  <2> HIDE DEF s
  <2> QED BY <1>2, <2>4
<1>6. s \in [1 .. n -> S]
  <2>1. s = [i \in 1 .. n |-> CHOOSE x \in S : Cardinality({y \in S : y < x}) = i - 1]
    BY DEF Sorted
  <2> HIDE DEF s
  <2> QED BY <1>5, <2>1
<1> HIDE DEF s
<1>7. \A i, j \in 1 .. n : s[i] = s[j] => i = j
  <2> SUFFICES ASSUME NEW i \in 1 .. n, NEW j \in 1 .. n, s[i] = s[j] PROVE i = j
    OBVIOUS
  <2>1. i - 1 = j - 1
    BY <1>5
  <2> QED BY <1>4, <2>1
<1>8. \A x \in S : \E i \in 1 .. n : s[i] = x
  <2> TAKE x \in S
  <2> DEFINE i == Rank(S, R, x) + 1
  <2>1. Rank(S, R, x) \in 0 .. n - 1
    BY <1>4
  <2>2. i \in 1 .. n /\ i - 1 = Rank(S, R, x)
    BY <1>4, <2>1
  <2> HIDE DEF i
  <2>3. s[i] \in S /\ Rank(S, R, s[i]) = Rank(S, R, x)
    BY <1>5, <2>2
  <2>4. ~(Rank(S, R, s[i]) < Rank(S, R, x)) /\ ~(Rank(S, R, x) < Rank(S, R, s[i]))
    BY <1>4, <2>1, <2>3
  <2>5. ~(s[i] < x) /\ ~(x < s[i])
    BY <1>4, <2>3, <2>4
  <2>6. s[i] = x
    <3>1. s[i] \in Nat /\ x \in Nat
      BY <2>3
    <3> QED BY <2>5, <3>1
  <2> QED BY <2>2, <2>6
<1> QED BY <1>4, <1>6, <1>7, <1>8 DEF s

LEMMA SortedInterval ==
  ASSUME NEW m \in Nat
  PROVE  DOMAIN Sorted(1 .. m) = 1 .. m /\ \A n \in 1 .. m : Sorted(1 .. m)[n] = n
<1>1. Cardinality(1 .. m) = m
  <2>1. 1 \in Int /\ m \in Int
    OBVIOUS
  <2>2. Cardinality(1 .. m) = IF 1 > m THEN 0 ELSE m - 1 + 1
    BY <2>1, FS_Interval
  <2> QED BY <2>1, <2>2
<1>2. \A x \in 1 .. m : Cardinality({y \in 1 .. m : y < x}) = x - 1
  <2> TAKE x \in 1 .. m
  <2>1. {y \in 1 .. m : y < x} = 1 .. (x - 1)
    OBVIOUS
  <2>2. 1 \in Int /\ x - 1 \in Int
    OBVIOUS
  <2>3. Cardinality(1 .. (x - 1)) = IF 1 > x - 1 THEN 0 ELSE (x - 1) - 1 + 1
    BY <2>2, FS_Interval
  <2>4. (IF 1 > x - 1 THEN 0 ELSE (x - 1) - 1 + 1) = x - 1
    OBVIOUS
  <2>5. Cardinality(1 .. (x - 1)) = x - 1
    BY <2>3, <2>4
  <2> QED BY <2>1, <2>5
<1>3. \A n \in 1 .. m : (CHOOSE x \in 1 .. m : Cardinality({y \in 1 .. m : y < x}) = n - 1) = n
  <2> TAKE n \in 1 .. m
  <2>1. \A x \in 1 .. m : Cardinality({y \in 1 .. m : y < x}) = n - 1 <=> x = n
    <3> TAKE x \in 1 .. m
    <3>1. Cardinality({y \in 1 .. m : y < x}) = x - 1
      BY <1>2
    <3>2. x - 1 = n - 1 <=> x = n
      OBVIOUS
    <3> QED BY <3>1, <3>2
  <2> QED BY <2>1
<1> QED BY <1>1, <1>3 DEF Sorted

\* The members at some positions, in their order.
At(s, P) == LET at == Sorted(P) IN [n \in DOMAIN at |-> s[at[n]]]

Extract(s, P, X) ==
  /\ Cardinality(P) \in Nat /\ At(s, P) \in Seq(X)
  /\ Len(At(s, P)) = Cardinality(P) /\ DOMAIN At(s, P) = 1 .. Cardinality(P)
  /\ \A n \in 1 .. Cardinality(P) : \E i \in P : At(s, P)[n] = s[i]
  /\ \A i \in P : \E n \in 1 .. Cardinality(P) : At(s, P)[n] = s[i]
  /\ At(s, P) = <<>> => P = {}

LEMMA AtIs ==
  ASSUME NEW X, NEW s \in Seq(X), NEW P \in SUBSET (1 .. Len(s))
  PROVE  Extract(s, P, X)
<1> DEFINE n == Cardinality(P)  at == Sorted(P)  p == At(s, P)
<1>1. Len(s) \in Nat /\ \A i \in 1 .. Len(s) : s[i] \in X
  OBVIOUS
<1>2. IsFiniteSet(P) /\ P \in SUBSET Nat
  <2>1. IsFiniteSet(1 .. Len(s))
    <3>1. 1 \in Int /\ Len(s) \in Int
      BY <1>1
    <3> QED BY <3>1, FS_Interval
  <2>2. 1 .. Len(s) \in SUBSET Nat
    BY <1>1
  <2> QED BY <2>1, <2>2, FS_Subset
<1>3. n \in Nat /\ at \in [1 .. n -> P] /\ \A x \in P : \E i \in 1 .. n : at[i] = x
  BY <1>2, SortedIs
<1> HIDE DEF at, n
<1>4. p = [i \in 1 .. n |-> s[at[i]]]
  BY <1>3 DEF At, at
<1>5. p \in [1 .. n -> X]
  BY <1>1, <1>3, <1>4
<1>6. p \in Seq(X) /\ Len(p) = n /\ DOMAIN p = 1 .. n
  BY <1>3, <1>4, <1>5
<1>7. \A i \in 1 .. n : p[i] = s[at[i]]
  BY <1>4
<1> HIDE DEF p
<1>8. p = <<>> => P = {}
  <2> SUFFICES ASSUME p = <<>> PROVE P = {}
    OBVIOUS
  <2>1. n = 0
    BY <1>3, <1>6
  <2> QED BY <1>3, <2>1
<1>9. \A x \in P : \E i \in 1 .. n : p[i] = s[x]
  BY <1>3, <1>7
<1>10. \A i \in 1 .. n : \E x \in P : p[i] = s[x]
  BY <1>3, <1>7
<1> QED BY <1>3, <1>6, <1>8, <1>9, <1>10 DEF Extract, p, n

----------------------------------------------------------------------------
(* Shares.                                                                 *)

LEMMA DivMod ==
  ASSUME NEW a \in Nat, NEW b \in Nat \ {0}
  PROVE  a = b * (a \div b) + (a % b) /\ a % b \in 0 .. b - 1 /\ a \div b \in Nat
OBVIOUS

LEMMA MulMono ==
  ASSUME NEW a \in Nat, NEW b \in Nat, NEW c \in Nat, b <= c
  PROVE  a * b <= a * c
OBVIOUS

\* m times a, and r more, is no more than m times b: then a is no more than b.
Within(m, a, r, b) == m \in Nat \ {0} /\ a \in Int /\ b \in Int /\ r \in Nat /\ m * a + r <= m * b

LEMMA WithinIs ==
  ASSUME NEW m, NEW a, NEW b, NEW r, Within(m, a, r, b)
  PROVE  a <= b /\ (r > 0 => a < b)
<1>0. m \in Nat \ {0} /\ a \in Int /\ b \in Int /\ r \in Nat /\ m * a + r <= m * b
  BY DEF Within
<1>1. a <= b
  <2> SUFFICES ASSUME a > b PROVE FALSE
    BY <1>0
  <2>1. m * (a - b) > 0 /\ m * (a - b) = m * a - m * b
    BY <1>0
  <2>2. m * a \in Int /\ m * b \in Int
    BY <1>0
  <2> QED BY <1>0, <2>1, <2>2
<1>2. r > 0 => a # b
  <2> SUFFICES ASSUME r > 0, a = b PROVE FALSE
    OBVIOUS
  <2>1. m * a \in Int
    BY <1>0
  <2> QED BY <1>0, <2>1
<1> QED BY <1>0, <1>1, <1>2

LEMMA SumIsNat ==
  ASSUME NEW n \in Nat, NEW s \in [1 .. n -> Nat]
  PROVE  SumSeq(s) \in Nat /\ \A i \in 1 .. n : s[i] <= SumSeq(s)
<1> DEFINE z == [i \in 1 .. n |-> 0]
<1>1. z \in [1 .. n -> Int] /\ s \in [1 .. n -> Int] /\ (\A i \in 1 .. n : z[i] = 0 /\ z[i] <= s[i])
  OBVIOUS
<1> HIDE DEF z
<1>2. SumSeq(z) = 0 /\ SumSeq(s) \in Int
  BY <1>1, SumOfZeros, SumIsInt
<1>3. SumSeq(z) <= SumSeq(s) /\ \A i \in 1 .. n : s[i] - z[i] <= SumSeq(s) - SumSeq(z)
  BY <1>1, SumCompares
<1> QED BY <1>1, <1>2, <1>3

\* The first so many places are taken by as many.
LEMMA FirstPlaces ==
  ASSUME NEW S, NEW R, Ordered(S, R), NEW k \in 0 .. Cardinality(S)
  PROVE  Cardinality({x \in S : Rank(S, R, x) < k}) = k
<1> DEFINE B == {x \in S : Rank(S, R, x) < k}  f == [x \in B |-> Rank(S, R, x)]
<1>1. /\ Cardinality(S) \in Nat
      /\ \A x \in S : Rank(S, R, x) \in 0 .. Cardinality(S) - 1
      /\ \A x, y \in S : <<x, y>> \in R <=> Rank(S, R, x) < Rank(S, R, y)
      /\ \A i \in 0 .. Cardinality(S) - 1 : \E x \in S : Rank(S, R, x) = i
  BY RankIs
<1>2. f \in [B -> 0 .. k - 1]
  <2>1. \A x \in B : Rank(S, R, x) \in 0 .. k - 1
    BY <1>1
  <2> HIDE DEF B
  <2> QED BY <2>1
<1>3. \A x, y \in B : f[x] = f[y] => x = y
  <2> SUFFICES ASSUME NEW x \in B, NEW y \in B, f[x] = f[y] PROVE x = y
    OBVIOUS
  <2>1. Rank(S, R, x) = Rank(S, R, y) /\ Rank(S, R, x) \in Nat
    BY <1>1
  <2>2. ~(Rank(S, R, x) < Rank(S, R, y)) /\ ~(Rank(S, R, y) < Rank(S, R, x))
    BY <2>1
  <2> QED BY <1>1, <2>2 DEF Ordered
<1>4. \A i \in 0 .. k - 1 : \E x \in B : f[x] = i
  <2> TAKE i \in 0 .. k - 1
  <2>1. i \in 0 .. Cardinality(S) - 1
    BY <1>1
  <2>2. PICK x \in S : Rank(S, R, x) = i
    BY <1>1, <2>1
  <2>3. x \in B
    BY <2>2
  <2> QED BY <2>2, <2>3
<1> HIDE DEF f
<1>5. f \in Injection(B, 0 .. k - 1) /\ f \in Surjection(B, 0 .. k - 1)
  <2> HIDE DEF B
  <2> QED BY <1>2, <1>3, <1>4 DEF Injection, IsInjective, Surjection
<1>6. IsFiniteSet(0 .. k - 1) /\ Cardinality(0 .. k - 1) = k
  <2>1. k \in Nat /\ 0 \in Int /\ k - 1 \in Int
    BY <1>1
  <2>2. Cardinality(0 .. k - 1) = IF 0 > k - 1 THEN 0 ELSE (k - 1) - 0 + 1
    BY <2>1, FS_Interval
  <2> QED BY <2>1, <2>2, FS_Interval
<1> HIDE DEF B
<1>7. Cardinality(B) = k
  BY <1>5, <1>6, FS_Injection
<1> QED BY <1>7 DEF B

\* Every line bears its share of the discount, none more than it costs, and the
\* shares are the discount to the paisa.
THEOREM AllocationIsExact ==
  ASSUME NEW n \in Nat, NEW w \in [1 .. n -> Nat], NEW total \in 0 .. SumSeq(w)
  PROVE  /\ AllocateProportionally(total, w) \in [1 .. n -> Nat]
         /\ \A i \in 1 .. n : AllocateProportionally(total, w)[i] <= w[i]
         /\ SumSeq(AllocateProportionally(total, w)) = total
<1> DEFINE sum == SumSeq(w)  alloc == AllocateProportionally(total, w)
<1>1. sum \in Nat /\ total \in Nat /\ total <= sum /\ DOMAIN w = 1 .. n
  BY SumIsNat
<1>2. CASE sum = 0
  <2>1. total = 0
    BY <1>1, <1>2
  <2>2. alloc = [i \in 1 .. n |-> 0]
    BY <1>1, <1>2, <2>1 DEF AllocateProportionally
  <2> HIDE DEF alloc
  <2>3. alloc \in [1 .. n -> Nat] /\ alloc \in [1 .. n -> Int] /\ \A i \in 1 .. n : alloc[i] = 0 /\ alloc[i] <= w[i]
    BY <2>2
  <2>4. SumSeq(alloc) = 0
    BY <2>3, SumOfZeros
  <2> QED BY <2>1, <2>3, <2>4 DEF alloc
<1>3. CASE sum # 0
  <2> DEFINE scaled == [i \in 1 .. n |-> total * w[i]]
             base == [i \in 1 .. n |-> (total * w[i]) \div sum]
             rest == [i \in 1 .. n |-> (total * w[i]) % sum]
             L == total - SumSeq(base)
             R == {p \in (1 .. n) \X (1 .. n) : rest[p[1]] > rest[p[2]] \/ (rest[p[1]] = rest[p[2]] /\ p[1] < p[2])}
             rank(i) == Rank(1 .. n, R, i)
             bonus == [i \in 1 .. n |-> IF rank(i) < L THEN 1 ELSE 0]
             odd == [i \in 1 .. n |-> IF rest[i] > 0 THEN 1 ELSE 0]
  <2>1. sum \in Nat \ {0}
    BY <1>1, <1>3
  <2>2. \A i \in 1 .. n : scaled[i] \in Nat /\ scaled[i] = sum * base[i] + rest[i] /\ rest[i] \in 0 .. sum - 1
                          /\ base[i] \in Nat
    <3> TAKE i \in 1 .. n
    <3>1. w[i] \in Nat /\ total * w[i] \in Nat
      BY <1>1
    <3> HIDE DEF sum
    <3> QED BY <2>1, <3>1, DivMod
  <2>3. alloc = [i \in 1 .. n |-> base[i] + (IF rank(i) < L THEN 1 ELSE 0)]
    <3>1. [i \in DOMAIN w |-> (total * w[i]) \div SumSeq(w)] = base
      BY <1>1
    <3>2. \A i \in 1 .. n : rank(i) = Cardinality({j \in DOMAIN w :
             \/ (total * w[j]) % SumSeq(w) > (total * w[i]) % SumSeq(w)
             \/ (total * w[j]) % SumSeq(w) = (total * w[i]) % SumSeq(w) /\ j < i})
      <4> TAKE i \in 1 .. n
      <4>1. {j \in 1 .. n : <<j, i>> \in R} = {j \in DOMAIN w :
             \/ (total * w[j]) % SumSeq(w) > (total * w[i]) % SumSeq(w)
             \/ (total * w[j]) % SumSeq(w) = (total * w[i]) % SumSeq(w) /\ j < i}
        BY <1>1
      <4> QED BY <4>1 DEF Rank
    <3>3. ~(SumSeq(w) <= 0)
      BY <2>1
    <3> HIDE DEF base, rest, R
    <3>4. alloc = [i \in DOMAIN w |-> (total * w[i]) \div SumSeq(w)
             + (IF Cardinality({j \in DOMAIN w :
             \/ (total * w[j]) % SumSeq(w) > (total * w[i]) % SumSeq(w)
             \/ (total * w[j]) % SumSeq(w) = (total * w[i]) % SumSeq(w) /\ j < i}) < total - SumSeq(base) THEN 1 ELSE 0)]
      BY <3>1, <3>3 DEF AllocateProportionally
    <3>5. \A i \in 1 .. n : (total * w[i]) \div SumSeq(w) = base[i]
      BY DEF base
    <3> QED BY <1>1, <3>2, <3>4, <3>5
  <2>4. Ordered(1 .. n, R)
    <3>1. IsFiniteSet(1 .. n)
      <4>1. 1 \in Int /\ n \in Int
        OBVIOUS
      <4> QED BY <4>1, FS_Interval
    <3>2. \A i \in 1 .. n : rest[i] \in Int /\ i \in Int
      BY <2>1, <2>2
    <3> HIDE DEF rest
    <3>3. \A i, j \in 1 .. n : <<i, j>> \in R <=> rest[i] > rest[j] \/ (rest[i] = rest[j] /\ i < j)
      OBVIOUS
    <3> HIDE DEF R
    <3>4. \A i, j, k \in 1 .. n : <<i, j>> \in R /\ <<j, k>> \in R => <<i, k>> \in R
      <4> TAKE i, j, k \in 1 .. n
      <4>1. rest[i] \in Int /\ rest[j] \in Int /\ rest[k] \in Int /\ i \in Int /\ j \in Int /\ k \in Int
        BY <3>2
      <4> SUFFICES ASSUME <<i, j>> \in R, <<j, k>> \in R PROVE <<i, k>> \in R
        OBVIOUS
      <4>2. /\ rest[i] > rest[j] \/ (rest[i] = rest[j] /\ i < j)
            /\ rest[j] > rest[k] \/ (rest[j] = rest[k] /\ j < k)
        BY <3>3
      <4>3. rest[i] > rest[k] \/ (rest[i] = rest[k] /\ i < k)
        BY <4>1, <4>2, SMTT(40)
      <4> QED BY <3>3, <4>3
    <3>5. \A i \in 1 .. n : <<i, i>> \notin R
      BY <3>2, <3>3
    <3>6. \A i, j \in 1 .. n : i # j => <<i, j>> \in R \/ <<j, i>> \in R
      <4> TAKE i, j \in 1 .. n
      <4>1. rest[i] \in Int /\ rest[j] \in Int /\ i \in Int /\ j \in Int
        BY <3>2
      <4> QED BY <3>3, <4>1
    <3> QED BY <3>1, <3>4, <3>5, <3>6 DEF Ordered
  <2> HIDE DEF alloc, sum, scaled, base, rest, L
  <2>5. base \in [1 .. n -> Nat] /\ rest \in [1 .. n -> Nat] /\ scaled \in [1 .. n -> Nat]
    <3>1. base \in [1 .. n -> Nat]
      BY <2>2 DEF base
    <3>2. rest \in [1 .. n -> Nat]
      BY <2>2 DEF rest
    <3>3. scaled \in [1 .. n -> Nat]
      BY <2>2 DEF scaled
    <3> QED BY <3>1, <3>2, <3>3
  <2>6. SumSeq(scaled) = total * sum
    <3>1. scaled \in [1 .. n -> Int] /\ w \in [1 .. n -> Int] /\ total \in Int /\ \A i \in 1 .. n : scaled[i] = total * w[i]
      BY <1>1, <2>5 DEF scaled
    <3> QED BY <3>1, SumScales DEF sum
  <2> DEFINE whole == [i \in 1 .. n |-> sum * base[i]]
  <2>7. SumSeq(scaled) = sum * SumSeq(base) + SumSeq(rest)
    <3>1. whole \in [1 .. n -> Int] /\ base \in [1 .. n -> Int] /\ rest \in [1 .. n -> Int] /\ scaled \in [1 .. n -> Int]
      BY <1>1, <2>5, SMTT(40)
    <3>2. \A i \in 1 .. n : whole[i] = sum * base[i]
      OBVIOUS
    <3>3. \A i \in 1 .. n : scaled[i] = whole[i] + rest[i]
      BY <2>2, <3>2
    <3> HIDE DEF whole
    <3>4. SumSeq(scaled) = SumSeq(whole) + SumSeq(rest)
      <4>1. Adds(whole, rest, scaled, n)
        BY <3>1, <3>3 DEF Adds
      <4> QED BY <4>1, SumAdds
    <3>5. sum \in Int
      BY <1>1
    <3>6. SumSeq(whole) = sum * SumSeq(base)
      BY <3>1, <3>2, <3>5, SumScales
    <3> QED BY <3>4, <3>6
  <2>8. SumSeq(base) \in Nat /\ SumSeq(rest) \in Nat /\ L \in Int
    <3>1. SumSeq(base) \in Nat /\ SumSeq(rest) \in Nat
      BY <2>5, SumIsNat
    <3> QED BY <1>1, <3>1 DEF L
  <2>9. sum * L = SumSeq(rest)
    <3>1. sum * L = sum * total - sum * SumSeq(base)
      BY <1>1, <2>8 DEF L
    <3>2. sum * total = total * sum /\ sum * total \in Int /\ sum * SumSeq(base) \in Int
      BY <1>1, <2>8
    <3> QED BY <2>6, <2>7, <2>8, <3>1, <3>2
  <2>10. L >= 0
    <3>1. Within(sum, 0, 0, L)
      BY <2>1, <2>8, <2>9 DEF Within
    <3> QED BY <2>1, <2>8, <3>1, WithinIs
  <2> DEFINE P == {i \in 1 .. n : rest[i] > 0}
  <2>11. SumSeq(odd) = Cardinality(P) /\ Cardinality(P) \in Nat /\ IsFiniteSet(P) /\ Cardinality(P) <= n
    <3>1. odd \in [1 .. n -> {0, 1}] /\ P = {i \in 1 .. n : odd[i] = 1}
      OBVIOUS
    <3>2. IsFiniteSet(1 .. n) /\ Cardinality(1 .. n) = n
      <4>1. 1 \in Int /\ n \in Int
        OBVIOUS
      <4>2. Cardinality(1 .. n) = IF 1 > n THEN 0 ELSE n - 1 + 1
        BY <4>1, FS_Interval
      <4> QED BY <4>1, <4>2, FS_Interval
    <3>3. IsFiniteSet(P) /\ Cardinality(P) <= n
      BY <3>2, FS_Subset
    <3> HIDE DEF odd, P
    <3>4. SumSeq(odd) = Cardinality(P)
      BY <3>1, SumCounts
    <3> QED BY <3>3, <3>4, FS_CardinalityType
  <2>12. L <= Cardinality(P)
    <3> DEFINE bound == [i \in 1 .. n |-> sum * odd[i]]
    <3>1. odd \in [1 .. n -> Int]
      OBVIOUS
    <3>2. bound \in [1 .. n -> Int] /\ rest \in [1 .. n -> Int]
      <4>1. \A i \in 1 .. n : odd[i] \in Int
        BY <3>1
      <4> HIDE DEF odd
      <4>2. \A i \in 1 .. n : sum * odd[i] \in Int
        BY <1>1, <4>1
      <4> QED BY <2>5, <4>2
    <3>3. \A i \in 1 .. n : rest[i] <= bound[i]
      <4> TAKE i \in 1 .. n
      <4>1. CASE rest[i] > 0
        <5>1. bound[i] = sum * 1
          BY <4>1
        <5> QED BY <2>1, <2>2, <5>1
      <4>2. CASE ~(rest[i] > 0)
        <5>1. bound[i] = sum * 0
          BY <4>2
        <5> QED BY <2>1, <2>2, <4>2, <5>1
      <4> QED BY <4>1, <4>2
    <3>4. \A i \in 1 .. n : bound[i] = sum * odd[i]
      OBVIOUS
    <3> HIDE DEF bound, odd
    <3>5. SumSeq(bound) = sum * SumSeq(odd)
      <4>1. sum \in Int
        BY <1>1
      <4> QED BY <3>1, <3>2, <3>4, <4>1, SumScales
    <3>6. SumSeq(rest) <= SumSeq(bound)
      BY <3>2, <3>3, SumCompares
    <3>7. Within(sum, L, 0, Cardinality(P))
      <4>1. sum * L \in Int
        BY <1>1, <2>8
      <4> HIDE DEF P
      <4> QED BY <2>1, <2>8, <2>9, <2>11, <3>5, <3>6, <4>1 DEF Within
    <3> HIDE DEF P
    <3> QED BY <2>1, <2>8, <2>11, <3>7, WithinIs
  <2>13. \A i \in 1 .. n : rank(i) < L => rest[i] > 0
    <3> SUFFICES ASSUME NEW i \in 1 .. n, ~(rest[i] > 0) PROVE ~(rank(i) < L)
      OBVIOUS
    <3> DEFINE B == {j \in 1 .. n : <<j, i>> \in R}
    <3>1. P \in SUBSET B
      <4>1. \A j \in 1 .. n : rest[j] \in Nat
        BY <2>5
      <4> QED BY <4>1
    <3>2. IsFiniteSet(B)
      <4>1. B \in SUBSET (1 .. n) /\ IsFiniteSet(1 .. n)
        BY <2>4 DEF Ordered
      <4> QED BY <4>1, FS_Subset
    <3> HIDE DEF B, P
    <3>3. Cardinality(P) <= Cardinality(B) /\ Cardinality(B) \in Nat
      BY <3>1, <3>2, FS_Subset, FS_CardinalityType
    <3>4. rank(i) = Cardinality(B)
      BY DEF Rank, B
    <3> HIDE DEF R
    <3> QED BY <2>8, <2>11, <2>12, <3>3, <3>4
  <2>14. SumSeq(bonus) = L
    <3>1. bonus \in [1 .. n -> {0, 1}] /\ {i \in 1 .. n : bonus[i] = 1} = {i \in 1 .. n : rank(i) < L}
      OBVIOUS
    <3>2. Cardinality(1 .. n) = n
      <4>1. 1 \in Int /\ n \in Int
        OBVIOUS
      <4>2. Cardinality(1 .. n) = IF 1 > n THEN 0 ELSE n - 1 + 1
        BY <4>1, FS_Interval
      <4> QED BY <4>1, <4>2
    <3>3. L \in 0 .. Cardinality(1 .. n)
      BY <2>8, <2>10, <2>11, <2>12, <3>2
    <3> HIDE DEF R, bonus, P
    <3>4. Cardinality({i \in 1 .. n : rank(i) < L}) = L
      BY <2>4, <3>3, FirstPlaces
    <3>5. SumSeq(bonus) = Cardinality({i \in 1 .. n : bonus[i] = 1})
      BY <3>1, SumCounts
    <3> QED BY <3>1, <3>4, <3>5
  <2>15. bonus \in [1 .. n -> Int] /\ \A i \in 1 .. n : bonus[i] \in {0, 1} /\ (bonus[i] = 1 <=> rank(i) < L)
    OBVIOUS
  <2>16. \A i \in 1 .. n : alloc[i] = base[i] + bonus[i]
    BY <2>3
  <2> HIDE DEF bonus, R
  <2>17. alloc \in [1 .. n -> Nat] /\ alloc \in [1 .. n -> Int] /\ base \in [1 .. n -> Int]
    <3>1. \A i \in 1 .. n : alloc[i] \in Nat
      <4> TAKE i \in 1 .. n
      <4>1. base[i] \in Nat /\ bonus[i] \in {0, 1} /\ alloc[i] = base[i] + bonus[i]
        BY <2>5, <2>15, <2>16
      <4> QED BY <4>1
    <3> QED BY <2>3, <2>5, <3>1, SMTT(40)
  <2>18. SumSeq(alloc) = total
    <3>1. SumSeq(alloc) = SumSeq(base) + SumSeq(bonus)
      <4>1. Adds(base, bonus, alloc, n)
        BY <2>15, <2>16, <2>17 DEF Adds
      <4> QED BY <4>1, SumAdds
    <3> QED BY <1>1, <2>8, <2>14, <3>1 DEF L
  <2>19. \A i \in 1 .. n : alloc[i] <= w[i]
    <3> TAKE i \in 1 .. n
    <3>1. w[i] \in Nat /\ base[i] \in Nat /\ rest[i] \in Nat
      BY <2>5
    <3>2. Within(sum, base[i], rest[i], w[i])
      <4>1. w[i] * total <= w[i] * sum
        BY <1>1, <3>1, MulMono
      <4>2. total * w[i] = w[i] * total /\ sum * w[i] = w[i] * sum
        BY <1>1, <3>1
      <4> QED BY <2>1, <2>2, <3>1, <4>1, <4>2, SMTT(40) DEF scaled, Within
    <3>3. base[i] <= w[i] /\ (rest[i] > 0 => base[i] < w[i])
      BY <2>1, <3>1, <3>2, WithinIs
    <3> QED BY <2>13, <2>15, <2>16, <3>1, <3>3
  <2> QED BY <2>17, <2>18, <2>19 DEF alloc
<1> QED BY <1>2, <1>3

\* A rebate is a part of the gross.
BasisPoints == {b \in Nat : b <= 10000}
DiscountOf(gross, bps) == MulDivRoundHalfUp(gross, bps, 10000)
Rebatable(gross, bps) == gross \in Nat /\ bps \in BasisPoints

LEMMA RebateIs ==
  ASSUME NEW gross, NEW bps, Rebatable(gross, bps)
  PROVE  DiscountOf(gross, bps) \in 0 .. gross
<1>0. gross \in Nat /\ bps \in Nat /\ bps <= 10000
  BY DEF Rebatable, BasisPoints
<1> DEFINE x == gross * bps
<1>1. x \in Nat /\ x <= 10000 * gross
  <2>1. gross * bps <= gross * 10000
    BY <1>0, MulMono
  <2> QED BY <1>0, <2>1
<1> HIDE DEF x
<1>2. x = 10000 * (x \div 10000) + (x % 10000) /\ x % 10000 \in 0 .. 9999 /\ x \div 10000 \in Nat
  BY <1>1
<1>3. MulDivRoundHalfUp(gross, bps, 10000) = IF (x % 10000) * 2 >= 10000 THEN x \div 10000 + 1 ELSE x \div 10000
  BY DEF MulDivRoundHalfUp, x
<1>4. (IF (x % 10000) * 2 >= 10000 THEN x \div 10000 + 1 ELSE x \div 10000) \in 0 .. gross
  BY <1>0, <1>1, <1>2
<1> QED BY <1>3, <1>4 DEF DiscountOf

----------------------------------------------------------------------------
(* Lines grouped by sku.                                                   *)

\* What the positions of one key come to.
Part(key, qty, k) == SumSeq([i \in DOMAIN key |-> IF key[i] = k THEN qty[i] ELSE 0])
PerKey(w, order, key, qty, m) == [j \in 1 .. m |-> w[order[j]] * Part(key, qty, order[j])]
PerMember(w, key, qty, n) == [i \in 1 .. n |-> w[key[i]] * qty[i]]

Groups(K, w, order, key, qty, m, n) ==
  /\ n \in Nat /\ key \in [1 .. n -> K] /\ qty \in [1 .. n -> Int]
  /\ m \in Nat /\ order \in [1 .. m -> K] /\ w \in [K -> Int]
  /\ \A i, j \in 1 .. m : order[i] = order[j] => i = j
  /\ \A i \in 1 .. n : \E j \in 1 .. m : order[j] = key[i]

\* A sum may be taken key by key, in any order of the keys.
LEMMA GroupSums ==
  ASSUME NEW K, NEW w, NEW order, NEW key, NEW qty, NEW m, NEW n, Groups(K, w, order, key, qty, m, n)
  PROVE  SumSeq(PerKey(w, order, key, qty, m)) = SumSeq(PerMember(w, key, qty, n))
<1>. /\ n \in Nat /\ key \in [1 .. n -> K] /\ qty \in [1 .. n -> Int]
     /\ m \in Nat /\ order \in [1 .. m -> K] /\ w \in [K -> Int]
  BY DEF Groups
<1>12. \A i, j \in 1 .. m : order[i] = order[j] => i = j
  BY DEF Groups
<1>13. \A i \in 1 .. n : \E j \in 1 .. m : order[j] = key[i]
  BY DEF Groups
<1> DEFINE s == [j \in 1 .. m |-> [i \in 1 .. n |-> IF key[i] = order[j] THEN qty[i] ELSE 0]]
           c == [j \in 1 .. m |-> CHOOSE g : Sums(g, s[j], n) /\ g[n] = SumSeq(s[j])]
           whole == [i \in 1 .. n |-> w[key[i]] * qty[i]]
           f == [k \in 0 .. n |-> [j \in 1 .. m |-> w[order[j]] * c[j][k]]]
<1>1. \A j \in 1 .. m : s[j] \in [1 .. n -> Int] /\ Part(key, qty, order[j]) = SumSeq(s[j])
  BY DEF Part
<1>2. \A j \in 1 .. m : Sums(c[j], s[j], n) /\ c[j][n] = SumSeq(s[j])
  <2> TAKE j \in 1 .. m
  <2>1. c[j] = CHOOSE g : Sums(g, s[j], n) /\ g[n] = SumSeq(s[j])
    OBVIOUS
  <2> HIDE DEF c, s
  <2>2. \E g : Sums(g, s[j], n) /\ g[n] = SumSeq(s[j])
    BY <1>1, SumSteps
  <2> QED BY <2>1, <2>2
<1>3. whole \in [1 .. n -> Int]
  <2>1. \A i \in 1 .. n : w[key[i]] \in Int /\ qty[i] \in Int
    OBVIOUS
  <2> QED BY <2>1
<1>4. PICK a : Sums(a, whole, n) /\ a[n] = SumSeq(whole)
  <2> HIDE DEF whole
  <2> QED BY <1>3, SumSteps
<1> HIDE DEF c
<1>5. \A j \in 1 .. m : c[j] \in [0 .. n -> Int] /\ w[order[j]] \in Int
  BY <1>2 DEF Sums
<1>6. \A k \in 0 .. n : f[k] \in [1 .. m -> Int]
  <2> TAKE k \in 0 .. n
  <2>1. \A j \in 1 .. m : w[order[j]] * c[j][k] \in Int
    <3> TAKE j \in 1 .. m
    <3>1. w[order[j]] \in Int /\ c[j][k] \in Int
      BY <1>5
    <3> QED BY <3>1
  <2> QED BY <2>1
<1> DEFINE T == {k \in 0 .. n : SumSeq(f[k]) = a[k]}
<1>7. 0 \in T
  <2>1. 0 \in 0 .. n /\ a[0] = 0
    BY <1>4 DEF Sums
  <2>2. \A j \in 1 .. m : f[0][j] = 0
    <3> TAKE j \in 1 .. m
    <3>1. c[j][0] = 0 /\ w[order[j]] \in Int
      BY <1>2, <1>5 DEF Sums
    <3> QED BY <2>1, <3>1
  <2> HIDE DEF f
  <2>3. SumSeq(f[0]) = 0
    BY <1>6, <2>1, <2>2, SumOfZeros
  <2> QED BY <2>1, <2>3
<1>8. ASSUME NEW k \in 1 .. n, k - 1 \in T PROVE k \in T
  <2> DEFINE d == [j \in 1 .. m |-> w[order[j]] * (IF key[k] = order[j] THEN qty[k] ELSE 0)]
  <2>1. k \in 0 .. n /\ k - 1 \in 0 .. n /\ SumSeq(f[k - 1]) = a[k - 1] /\ qty[k] \in Int
    BY <1>8
  <2>2. d \in [1 .. m -> Int]
    <3>1. \A j \in 1 .. m : w[order[j]] * (IF key[k] = order[j] THEN qty[k] ELSE 0) \in Int
      <4> TAKE j \in 1 .. m
      <4>1. w[order[j]] \in Int /\ (IF key[k] = order[j] THEN qty[k] ELSE 0) \in Int
        BY <1>5, <2>1
      <4> QED BY <4>1
    <3> QED BY <3>1
  <2>3. \A j \in 1 .. m : f[k][j] = f[k - 1][j] + d[j]
    <3> TAKE j \in 1 .. m
    <3> DEFINE x == w[order[j]]  y == c[j][k - 1]  z == s[j][k]
    <3>1. c[j][k] = y + z
      BY <1>2 DEF Sums
    <3>2. x \in Int /\ y \in Int /\ z \in Int
      BY <1>1, <1>5, <2>1
    <3>3. f[k][j] = x * c[j][k] /\ f[k - 1][j] = x * y /\ d[j] = x * z
      BY <2>1
    <3> HIDE DEF x, y, z, f, d
    <3>4. x * (y + z) = x * y + x * z
      BY <3>2
    <3> QED BY <3>1, <3>3, <3>4
  <2>4. PICK j0 \in 1 .. m : order[j0] = key[k]
    BY <1>13
  <2>5. \A j \in 1 .. m : j # j0 => d[j] = 0
    <3> TAKE j \in 1 .. m
    <3> HAVE j # j0
    <3>1. order[j] # key[k] /\ w[order[j]] \in Int
      BY <1>12, <1>5, <2>4
    <3>2. d[j] = w[order[j]] * 0
      BY <3>1
    <3> QED BY <3>1, <3>2
  <2>6. d[j0] = whole[k]
    BY <2>4
  <2> HIDE DEF d, f
  <2>7. SumSeq(d) = d[j0]
    BY <2>2, <2>4, <2>5, SumOfOne
  <2>8. SumSeq(f[k]) = SumSeq(f[k - 1]) + SumSeq(d)
    <3>1. f[k] \in [1 .. m -> Int] /\ f[k - 1] \in [1 .. m -> Int]
      BY <1>6, <2>1
    <3>2. Adds(f[k - 1], d, f[k], m)
      BY <2>2, <2>3, <3>1 DEF Adds
    <3> QED BY <3>2, SumAdds
  <2>9. a[k] = a[k - 1] + whole[k]
    <3> HIDE DEF whole
    <3> QED BY <1>4 DEF Sums
  <2> HIDE DEF whole
  <2> QED BY <2>1, <2>6, <2>7, <2>8, <2>9
<1>9. SumSeq(f[n]) = a[n]
  <2>1. n \in 0 .. n
    OBVIOUS
  <2> HIDE DEF T
  <2>2. n \in T
    BY <1>7, <1>8, <2>1, Climbs
  <2> QED BY <2>2 DEF T
<1>10. f[n] = [j \in 1 .. m |-> w[order[j]] * Part(key, qty, order[j])]
  <2>1. f[n] = [j \in 1 .. m |-> w[order[j]] * c[j][n]]
    <3>1. n \in 0 .. n
      OBVIOUS
    <3> QED BY <3>1
  <2>2. \A j \in 1 .. m : c[j][n] = Part(key, qty, order[j])
    BY <1>1, <1>2
  <2> HIDE DEF f, s
  <2> QED BY <2>1, <2>2
<1>11. f[n] = PerKey(w, order, key, qty, m) /\ whole = PerMember(w, key, qty, n)
  <2> HIDE DEF f
  <2> QED BY <1>10 DEF PerKey, PerMember
<1> HIDE DEF f, whole
<1> QED BY <1>4, <1>9, <1>11

\* The sum over the lines of one sku is one over their positions.
LEMMA QtyIsPart ==
  ASSUME NEW n \in Nat, NEW lines, DOMAIN lines = 1 .. n, NEW k
  PROVE  QtyOf(lines, k) = Part([i \in 1 .. n |-> lines[i].sku], [i \in 1 .. n |-> lines[i].qty], k)
<1>1. [i \in DOMAIN lines |-> IF lines[i].sku = k THEN lines[i].qty ELSE 0]
        = [i \in DOMAIN [j \in 1 .. n |-> lines[j].sku] |->
             IF [j \in 1 .. n |-> lines[j].sku][i] = k THEN [j \in 1 .. n |-> lines[j].qty][i] ELSE 0]
  OBVIOUS
<1> QED BY <1>1 DEF QtyOf, Part

LEMMA QtyIs ==
  ASSUME NEW n \in Nat, NEW lines, DOMAIN lines = 1 .. n, \A i \in 1 .. n : lines[i].qty \in Int, NEW k
  PROVE  /\ QtyOf(lines, k) \in Int
         /\ k \notin SkusOf(lines) => QtyOf(lines, k) = 0
         /\ (\A i \in 1 .. n : lines[i].qty \in Nat) => QtyOf(lines, k) \in Nat
         /\ \A i \in 1 .. n : (\A j \in 1 .. n : lines[j].sku = k <=> j = i) => QtyOf(lines, k) = lines[i].qty
<1> DEFINE s == [i \in 1 .. n |-> IF lines[i].sku = k THEN lines[i].qty ELSE 0]
<1>1. QtyOf(lines, k) = SumSeq(s)
  BY DEF QtyOf
<1>2. s \in [1 .. n -> Int]
  OBVIOUS
<1>3. k \notin SkusOf(lines) => SumSeq(s) = 0
  <2> SUFFICES ASSUME k \notin SkusOf(lines) PROVE SumSeq(s) = 0
    OBVIOUS
  <2>1. \A i \in 1 .. n : s[i] = 0
    BY DEF SkusOf
  <2> HIDE DEF s
  <2> QED BY <1>2, <2>1, SumOfZeros
<1>4. (\A i \in 1 .. n : lines[i].qty \in Nat) => SumSeq(s) \in Nat
  <2> SUFFICES ASSUME \A i \in 1 .. n : lines[i].qty \in Nat PROVE SumSeq(s) \in Nat
    OBVIOUS
  <2>1. s \in [1 .. n -> Nat]
    OBVIOUS
  <2> HIDE DEF s
  <2> QED BY <2>1, SumIsNat
<1>5. \A i \in 1 .. n : (\A j \in 1 .. n : lines[j].sku = k <=> j = i) => SumSeq(s) = lines[i].qty
  <2> SUFFICES ASSUME NEW i \in 1 .. n, \A j \in 1 .. n : lines[j].sku = k <=> j = i
               PROVE  SumSeq(s) = lines[i].qty
    OBVIOUS
  <2>1. s[i] = lines[i].qty /\ \A j \in 1 .. n : j # i => s[j] = 0
    OBVIOUS
  <2> HIDE DEF s
  <2> QED BY <1>2, <2>1, SumOfOne
<1> HIDE DEF s
<1>6. SumSeq(s) \in Int
  BY <1>2, SumIsInt
<1> QED BY <1>1, <1>3, <1>4, <1>5, <1>6

\* One line per sku, in the order of first mention, with all that was asked of it.
LEMMA MergeIs ==
  ASSUME NEW lines \in Seq(CartLine)
  PROVE  \E m \in Nat :
           /\ MergeLines(lines) \in [1 .. m -> CartLine]
           /\ \A i, j \in 1 .. m : MergeLines(lines)[i].sku = MergeLines(lines)[j].sku => i = j
           /\ \A i \in 1 .. m : MergeLines(lines)[i].qty = QtyOf(lines, MergeLines(lines)[i].sku)
           /\ \A i \in DOMAIN lines : \E j \in 1 .. m : MergeLines(lines)[j].sku = lines[i].sku
           /\ \A j \in 1 .. m : \E i \in DOMAIN lines : MergeLines(lines)[j].sku = lines[i].sku
<1> DEFINE n == Len(lines)
           fresh(i) == \A j \in 1 .. i - 1 : lines[j].sku # lines[i].sku
           P == {i \in DOMAIN lines : fresh(i)}
           m == Cardinality(P)  kept == Sorted(P)  merged == MergeLines(lines)
<1>1. n \in Nat /\ DOMAIN lines = 1 .. n /\ \A i \in 1 .. n : lines[i] \in CartLine
  OBVIOUS
<1>2. \A i \in 1 .. n : lines[i].sku \in Nat /\ lines[i].qty \in Int
  BY <1>1 DEF CartLine
<1>3. P \in SUBSET Nat /\ IsFiniteSet(P) /\ P \in SUBSET (1 .. n)
  <2>1. IsFiniteSet(1 .. n)
    <3>1. 1 \in Int /\ n \in Int
      BY <1>1
    <3> HIDE DEF n
    <3> QED BY <3>1, FS_Interval
  <2>2. P \in SUBSET (1 .. n) /\ P \in SUBSET Nat
    BY <1>1
  <2> HIDE DEF P, n
  <2> QED BY <2>1, <2>2, FS_Subset
<1>4. merged = [i \in DOMAIN kept |-> [sku |-> lines[kept[i]].sku, qty |-> QtyOf(lines, lines[kept[i]].sku)]]
  BY DEF MergeLines
<1>5. \A i \in P : \A j \in P : lines[i].sku = lines[j].sku => i = j
  <2> SUFFICES ASSUME NEW i \in P, NEW j \in P, lines[i].sku = lines[j].sku PROVE i = j
    OBVIOUS
  <2>1. i \in Nat /\ j \in Nat /\ i >= 1 /\ j >= 1
    BY <1>1
  <2>2. ~(i < j) /\ ~(j < i)
    <3>1. i < j => i \in 1 .. j - 1
      BY <2>1
    <3>2. j < i => j \in 1 .. i - 1
      BY <2>1
    <3> QED BY <3>1, <3>2
  <2> QED BY <2>1, <2>2
<1>6. \A x \in 1 .. n : \E i \in P : lines[i].sku = lines[x].sku
  <2> TAKE x \in 1 .. n
  <2> DEFINE Q == {i \in 1 .. n : lines[i].sku = lines[x].sku}
  <2>1. PICK i \in Q : \A j \in Q : i <= j
    <3>1. Q \subseteq Nat /\ Q # {}
      BY <1>1
    <3> HIDE DEF Q
    <3> QED BY <3>1, LeastNat
  <2>2. fresh(i)
    <3> SUFFICES ASSUME NEW j \in 1 .. i - 1, lines[j].sku = lines[i].sku PROVE FALSE
      OBVIOUS
    <3>1. j \in Q /\ ~(i <= j)
      BY <1>1
    <3> QED BY <2>1, <3>1
  <2> QED BY <1>1, <2>2
<1> HIDE DEF P
<1>7. m \in Nat /\ kept \in [1 .. m -> P]
      /\ (\A x \in P : \E i \in 1 .. m : kept[i] = x)
      /\ \A i, j \in 1 .. m : kept[i] = kept[j] => i = j
  BY <1>3, SortedIs
<1> HIDE DEF m, kept, merged, n
<1>8. \A i \in 1 .. m : kept[i] \in P /\ kept[i] \in 1 .. n
  BY <1>3, <1>7
<1>9. \A i \in 1 .. m : merged[i] = [sku |-> lines[kept[i]].sku, qty |-> QtyOf(lines, lines[kept[i]].sku)]
  BY <1>4, <1>7
<1>10. \A i \in 1 .. m : merged[i].sku = lines[kept[i]].sku /\ merged[i].qty = QtyOf(lines, merged[i].sku)
                         /\ merged[i] \in CartLine
  <2> TAKE i \in 1 .. m
  <2>1. lines[kept[i]].sku \in Nat
    BY <1>2, <1>8
  <2>2. QtyOf(lines, lines[kept[i]].sku) \in Int
    BY <1>1, <1>2, QtyIs
  <2> DEFINE sku == lines[kept[i]].sku  qty == QtyOf(lines, lines[kept[i]].sku)
  <2>3. merged[i] = [sku |-> sku, qty |-> qty] /\ sku \in Nat /\ qty \in Int /\ qty = QtyOf(lines, sku)
    BY <1>9, <2>1, <2>2
  <2>4. sku = lines[kept[i]].sku
    OBVIOUS
  <2> HIDE DEF sku, qty
  <2>5. merged[i].sku = sku /\ merged[i].qty = qty /\ merged[i] \in CartLine
    BY <2>3 DEF CartLine
  <2> QED BY <2>3, <2>4, <2>5
<1>11. merged \in [1 .. m -> CartLine]
  BY <1>4, <1>7, <1>10
<1>12. \A i, j \in 1 .. m : merged[i].sku = merged[j].sku => i = j
  BY <1>5, <1>7, <1>8, <1>10
<1>13. \A x \in 1 .. n : \E j \in 1 .. m : merged[j].sku = lines[x].sku
  BY <1>6, <1>7, <1>10
<1>14. \A j \in 1 .. m : \E x \in 1 .. n : merged[j].sku = lines[x].sku
  BY <1>8, <1>10
<1>15. \A i \in DOMAIN lines : \E j \in 1 .. m : merged[j].sku = lines[i].sku
  BY <1>1, <1>13
<1>16. \A j \in 1 .. m : \E i \in DOMAIN lines : merged[j].sku = lines[i].sku
  BY <1>1, <1>14
<1>17. \A i \in 1 .. m : merged[i].qty = QtyOf(lines, merged[i].sku)
  BY <1>10
<1>18. \E k \in Nat :
        /\ merged \in [1 .. k -> CartLine]
        /\ \A i, j \in 1 .. k : merged[i].sku = merged[j].sku => i = j
        /\ \A i \in 1 .. k : merged[i].qty = QtyOf(lines, merged[i].sku)
        /\ \A i \in DOMAIN lines : \E j \in 1 .. k : merged[j].sku = lines[i].sku
        /\ \A j \in 1 .. k : \E i \in DOMAIN lines : merged[j].sku = lines[i].sku
  BY <1>7, <1>11, <1>12, <1>15, <1>16, <1>17
<1> QED BY <1>18 DEF merged

----------------------------------------------------------------------------
(* What the gate recomputes.                                               *)

PricedLine == [sku : Nat, qty : Int, net : Nat, cost : Int]

Costs(items, resolved) == [i \in DOMAIN resolved |-> items[resolved[i].sku].cost * resolved[i].qty]
Priceable(items, resolved, k) ==
  Weights(resolved, items) \in [1 .. k -> Nat] /\ Costs(items, resolved) \in [1 .. k -> Int]

NetsOf(perLine) == [i \in DOMAIN perLine |-> perLine[i].net]

Recomputed(totals, k, resolved) ==
  /\ totals.gross \in Nat /\ totals.net \in 0 .. totals.gross
  /\ totals.perLine \in [1 .. k -> PricedLine]
  /\ \A i \in 1 .. k : totals.perLine[i].sku = resolved[i].sku /\ totals.perLine[i].qty = resolved[i].qty
  /\ totals.net = SumSeq(NetsOf(totals.perLine))

\* The net is the gross without the rebate, and no line is sold below nothing.
NetOf(gross, bps) == gross - DiscountOf(gross, bps)

LEMMA RecomputeIs ==
  ASSUME NEW k, NEW resolved, NEW items, NEW bps,
         k \in Nat, resolved \in [1 .. k -> CartLine], bps \in BasisPoints, Priceable(items, resolved, k)
  PROVE  /\ Recomputed(Recompute(resolved, items, bps), k, resolved)
         /\ Recompute(resolved, items, bps).gross = SumSeq(Weights(resolved, items))
         /\ Recompute(resolved, items, bps).net = NetOf(SumSeq(Weights(resolved, items)), bps)
<1> DEFINE weights == Weights(resolved, items)
           costs == Costs(items, resolved)
           gross == SumSeq(weights)
           off == DiscountOf(gross, bps)
           allocs == AllocateProportionally(off, weights)
           perLine == PricedLines(resolved, items, weights, allocs)
           nets == NetsOf(perLine)
           out == Recompute(resolved, items, bps)
<1>1. weights \in [1 .. k -> Nat] /\ costs \in [1 .. k -> Int]
  BY DEF Priceable
<1>0. costs = [i \in 1 .. k |-> items[resolved[i].sku].cost * resolved[i].qty]
  BY DEF Costs
<1> HIDE DEF weights, costs
<1>2. gross \in Nat
  BY <1>1, SumIsNat
<1> HIDE DEF gross
<1>3. off \in 0 .. gross
  <2>1. Rebatable(gross, bps)
    BY <1>2 DEF Rebatable
  <2> QED BY <2>1, RebateIs
<1> HIDE DEF off
<1>4. allocs \in [1 .. k -> Nat] /\ (\A i \in 1 .. k : allocs[i] <= weights[i]) /\ SumSeq(allocs) = off
  BY <1>1, <1>3, AllocationIsExact DEF gross
<1>5. out.gross = gross /\ out.perLine = perLine /\ out.net = SumSeq(nets)
  BY DEF Recompute, Reweigh, SumUp, Discounted, Rebate, NetsOf, DiscountOf, gross, weights, off
<1>6. DOMAIN perLine = 1 .. k /\ perLine = [i \in 1 .. k |-> perLine[i]]
      /\ \A i \in 1 .. k : perLine[i] = [sku |-> resolved[i].sku, qty |-> resolved[i].qty,
                                       net |-> weights[i] - allocs[i], cost |-> costs[i]]
  <2>1. perLine = [i \in 1 .. k |-> [sku |-> resolved[i].sku, qty |-> resolved[i].qty, net |-> weights[i] - allocs[i],
                                     cost |-> items[resolved[i].sku].cost * resolved[i].qty]]
    BY DEF PricedLines
  <2>2. DOMAIN perLine = 1 .. k /\ perLine = [i \in 1 .. k |-> perLine[i]]
    BY DEF PricedLines
  <2> HIDE DEF perLine
  <2>3. ASSUME NEW i \in 1 .. k
        PROVE  perLine[i] = [sku |-> resolved[i].sku, qty |-> resolved[i].qty,
                             net |-> weights[i] - allocs[i], cost |-> costs[i]]
    <3>1. perLine[i] = [sku |-> resolved[i].sku, qty |-> resolved[i].qty, net |-> weights[i] - allocs[i],
                        cost |-> items[resolved[i].sku].cost * resolved[i].qty]
      BY <2>1
    <3>2. items[resolved[i].sku].cost * resolved[i].qty = costs[i]
      BY <1>0
    <3> QED BY <3>1, <3>2
  <2> QED BY <2>2, <2>3
<1> HIDE DEF allocs, perLine, out
<1>7. \A i \in 1 .. k : /\ perLine[i].sku = resolved[i].sku /\ perLine[i].qty = resolved[i].qty
                        /\ perLine[i].net = weights[i] - allocs[i] /\ perLine[i].net \in Nat
                        /\ perLine[i] \in PricedLine
  <2> TAKE i \in 1 .. k
  <2>1. weights[i] \in Nat /\ allocs[i] \in Nat /\ allocs[i] <= weights[i]
    BY <1>1, <1>4
  <2>2. weights[i] - allocs[i] \in Nat
    BY <2>1
  <2>3. resolved[i].sku \in Nat /\ resolved[i].qty \in Int
    BY DEF CartLine
  <2>4. costs[i] \in Int
    BY <1>1
  <2>5. perLine[i] = [sku |-> resolved[i].sku, qty |-> resolved[i].qty, net |-> weights[i] - allocs[i], cost |-> costs[i]]
    BY <1>6
  <2> QED BY <2>2, <2>3, <2>4, <2>5 DEF PricedLine
<1>8. perLine \in [1 .. k -> PricedLine] /\ DOMAIN perLine = 1 .. k
  <2>1. DOMAIN perLine = 1 .. k /\ perLine = [i \in 1 .. k |-> perLine[i]]
    BY <1>6
  <2>2. \A i \in 1 .. k : perLine[i] \in PricedLine
    BY <1>7
  <2> QED BY <2>1, <2>2
<1>9. nets \in [1 .. k -> Int] /\ weights \in [1 .. k -> Int] /\ allocs \in [1 .. k -> Int]
  <2>1. \A i \in 1 .. k : nets[i] \in Int
    BY <1>7, <1>8 DEF NetsOf
  <2>2. nets = [i \in 1 .. k |-> nets[i]]
    BY <1>8 DEF NetsOf
  <2> QED BY <1>1, <1>4, <2>1, <2>2
<1>10. \A i \in 1 .. k : weights[i] = nets[i] + allocs[i]
  <2> TAKE i \in 1 .. k
  <2>1. weights[i] \in Nat /\ allocs[i] \in Nat /\ nets[i] = weights[i] - allocs[i]
    BY <1>1, <1>4, <1>7, <1>8 DEF NetsOf
  <2> QED BY <2>1
<1>11. out.net = SumSeq(nets)
  BY <1>5
<1> HIDE DEF nets
<1>12. gross = SumSeq(nets) + off /\ SumSeq(nets) \in Int
  <2>1. SumSeq(weights) = SumSeq(nets) + SumSeq(allocs)
    <3>1. Adds(nets, allocs, weights, k)
      BY <1>9, <1>10 DEF Adds
    <3> QED BY <3>1, SumAdds
  <2>2. SumSeq(nets) \in Int
    BY <1>9, SumIsInt
  <2> QED BY <1>4, <2>1, <2>2 DEF gross
<1>13. out.net = gross - off /\ out.net \in 0 .. gross
  BY <1>2, <1>3, <1>11, <1>12
<1>14. Recomputed(out, k, resolved)
  <2>1. out.gross \in Nat /\ out.net \in 0 .. out.gross
    BY <1>2, <1>5, <1>13
  <2>2. out.perLine \in [1 .. k -> PricedLine]
    BY <1>5, <1>8
  <2>3. \A i \in 1 .. k : out.perLine[i].sku = resolved[i].sku /\ out.perLine[i].qty = resolved[i].qty
    BY <1>5, <1>7
  <2>4. out.net = SumSeq(NetsOf(out.perLine))
    BY <1>5, <1>11 DEF nets
  <2> QED BY <2>1, <2>2, <2>3, <2>4 DEF Recomputed
<1> QED BY <1>5, <1>13, <1>14 DEF out, gross, weights, off, NetOf

\* The lines of known skus, all of them or some missing.
LEMMA KnownIs ==
  ASSUME NEW m \in Nat, NEW lines \in [1 .. m -> CartLine], NEW items
  PROVE  /\ \E k \in Nat : /\ Known(lines, items) \in [1 .. k -> CartLine]
                           /\ \A i \in 1 .. k : \E j \in 1 .. m : Known(lines, items)[i] = lines[j]
                           /\ \A i \in 1 .. k : Known(lines, items)[i].sku \in DOMAIN items
         /\ Known(lines, items) = lines <=> \A i \in 1 .. m : lines[i].sku \in DOMAIN items
<1> DEFINE P == {i \in 1 .. m : lines[i].sku \in DOMAIN items}
           known == Known(lines, items)
<1>1. lines \in Seq(CartLine) /\ Len(lines) = m /\ DOMAIN lines = 1 .. m
  OBVIOUS
<1>2. known = At(lines, P)
  <2>1. {i \in DOMAIN lines : lines[i].sku \in DOMAIN items} = P
    BY <1>1
  <2> HIDE DEF P
  <2> QED BY <2>1 DEF Known, Picked, At
<1>3. P \in SUBSET (1 .. Len(lines)) /\ \A i \in P : lines[i].sku \in DOMAIN items
  BY <1>1
<1>4. P = 1 .. m <=> \A i \in 1 .. m : lines[i].sku \in DOMAIN items
  OBVIOUS
<1> HIDE DEF P
<1>5. /\ Cardinality(P) \in Nat
      /\ known \in Seq(CartLine) /\ Len(known) = Cardinality(P) /\ DOMAIN known = 1 .. Cardinality(P)
      /\ \A n \in 1 .. Cardinality(P) : \E i \in P : known[n] = lines[i]
  <2>1. lines \in Seq(CartLine) /\ P \in SUBSET (1 .. Len(lines))
    BY <1>1, <1>3
  <2>2. Extract(lines, P, CartLine)
    BY <2>1, AtIs
  <2> HIDE DEF known
  <2> QED BY <1>2, <2>2 DEF Extract
<1>6. \A n \in 1 .. Cardinality(P) : known[n].sku \in DOMAIN items /\ \E j \in 1 .. m : known[n] = lines[j]
  <2> TAKE n \in 1 .. Cardinality(P)
  <2>1. PICK i \in P : known[n] = lines[i]
    BY <1>5
  <2>2. i \in 1 .. m
    BY <1>1, <1>3, <2>1
  <2> QED BY <1>3, <2>1, <2>2
<1>7. known \in [1 .. Cardinality(P) -> CartLine]
  BY <1>5
<1> HIDE DEF known
<1>8. known = lines => P = 1 .. m
  <2> SUFFICES ASSUME known = lines PROVE \A i \in 1 .. m : lines[i].sku \in DOMAIN items
    BY <1>4
  <2>1. Cardinality(P) = m
    BY <1>1, <1>5
  <2> QED BY <1>6, <2>1
<1>9. P = 1 .. m => known = lines
  <2> SUFFICES ASSUME P = 1 .. m PROVE known = lines
    OBVIOUS
  <2> DEFINE at == Sorted(P)
  <2>1. DOMAIN at = 1 .. m /\ \A n \in 1 .. m : at[n] = n
    BY SortedInterval
  <2>2. known = [n \in DOMAIN at |-> lines[at[n]]]
    BY <1>2 DEF At
  <2> HIDE DEF at
  <2>3. known = [n \in 1 .. m |-> lines[n]]
    BY <2>1, <2>2
  <2> QED BY <2>3
<1>10. \E k \in Nat : /\ known \in [1 .. k -> CartLine]
                      /\ \A i \in 1 .. k : \E j \in 1 .. m : known[i] = lines[j]
                      /\ \A i \in 1 .. k : known[i].sku \in DOMAIN items
  BY <1>5, <1>6, <1>7
<1>11. known = lines <=> \A i \in 1 .. m : lines[i].sku \in DOMAIN items
  BY <1>4, <1>8, <1>9
<1> QED BY <1>10, <1>11 DEF known

----------------------------------------------------------------------------
(* The rules, one after the other.                                         *)

Ready(trace, i) ==
  \A dep \in DependsOn(RuleIds[i]) : \E j \in 1 .. i - 1 : trace[j].id = dep /\ trace[j].status = "PASS"

\* Every rule has its entry, at its place; it is skipped when one it depends on
\* did not pass before.
LEMMA TraceIs ==
  ASSUME NEW c
  PROVE  \E X : /\ RunRules(c) \in Seq(X) /\ Len(RunRules(c)) = 16
                /\ \A i \in 1 .. 16 :
                     /\ RunRules(c)[i].id = RuleIds[i]
                     /\ RunRules(c)[i].status = IF Ready(RunRules(c), i) THEN Verdict(RuleIds[i], c) ELSE "SKIP"
<1> DEFINE n == 16
           Ids == {RuleIds[i] : i \in 1 .. n}
           X == [id : Ids, status : {Verdict(id, c) : id \in Ids} \cup {"SKIP"}]
           A == Seq(X)
           entry(trace, id) ==
             IF \A dep \in DependsOn(id) : \E i \in DOMAIN trace : trace[i].id = dep /\ trace[i].status = "PASS"
               THEN [id |-> id, status |-> Verdict(id, c)] ELSE [id |-> id, status |-> "SKIP"]
           Turn(g) == [u \in SUBSET (1 .. n) |->
                         IF u = {} THEN <<>> ELSE Append(g[u \ {Max(u)}], entry(g[u \ {Max(u)}], RuleIds[Max(u)]))]
           F == [i \in 1 .. n |-> [a \in A |-> Append(a, entry(a, RuleIds[i]))]]
<1>1. n \in Nat /\ DOMAIN RuleIds = 1 .. n
  BY DEF RuleIds
<1>2. RunRules(c) = (CHOOSE g : g = Turn(g))[1 .. n]
  BY <1>1 DEF RunRules, FoldLeft, MapThenFoldSet
<1>3. \A i \in 1 .. n, a \in A : entry(a, RuleIds[i]) \in X
  <2> TAKE i \in 1 .. n, a \in A
  <2>1. RuleIds[i] \in Ids /\ Verdict(RuleIds[i], c) \in {Verdict(id, c) : id \in Ids}
    OBVIOUS
  <2> DEFINE id == RuleIds[i]  status == entry(a, id).status
  <2>2. entry(a, id) = [id |-> id, status |-> Verdict(id, c)] \/ entry(a, id) = [id |-> id, status |-> "SKIP"]
    OBVIOUS
  <2> HIDE DEF id, entry, Ids
  <2> QED BY <2>1, <2>2 DEF id
<1> HIDE DEF n, X, entry
<1>4. F \in [1 .. n -> [A -> A]]
  <2>1. \A i \in 1 .. n, a \in A : Append(a, entry(a, RuleIds[i])) \in A
    BY <1>3
  <2> HIDE DEF A
  <2> QED BY <2>1
<1>5. PICK f \in [SUBSET (1 .. n) -> A] : Folds(f, <<>>, F, n)
  <2>1. <<>> \in A
    OBVIOUS
  <2> HIDE DEF F, A
  <2> QED BY <1>1, <1>4, <2>1, FoldExists
<1>6. f = Turn(f)
  <2>1. ASSUME NEW u \in SUBSET (1 .. n), u # {}
        PROVE  F[Max(u)][f[u \ {Max(u)}]] = Append(f[u \ {Max(u)}], entry(f[u \ {Max(u)}], RuleIds[Max(u)]))
    <3>1. Max(u) \in 1 .. n
      BY <1>1, <2>1, MaxIs
    <3>2. f[u \ {Max(u)}] \in A
      OBVIOUS
    <3> HIDE DEF A
    <3> QED BY <3>1, <3>2
  <2>2. \A u \in SUBSET (1 .. n) : f[u] = IF u = {} THEN <<>>
                                      ELSE Append(f[u \ {Max(u)}], entry(f[u \ {Max(u)}], RuleIds[Max(u)]))
    <3> HIDE DEF F
    <3> QED BY <1>5, <2>1 DEF Folds
  <2> QED BY <2>2
<1> DEFINE h == CHOOSE g : g = Turn(g)
<1>7. h = Turn(h)
  <2> HIDE DEF Turn
  <2> QED BY <1>6
<1> HIDE DEF h
<1>8. \A u \in SUBSET (1 .. n) : h[u] = IF u = {} THEN <<>>
                                    ELSE Append(h[u \ {Max(u)}], entry(h[u \ {Max(u)}], RuleIds[Max(u)]))
  BY <1>7
<1>9. \A k \in 1 .. n : h[1 .. k] = Append(h[1 .. (k - 1)], entry(h[1 .. (k - 1)], RuleIds[k]))
  BY <1>1, <1>8, PrefixIs
<1>10. h[1 .. 0] = <<>>
  <2>1. 1 .. 0 = {} /\ {} \in SUBSET (1 .. n)
    OBVIOUS
  <2> QED BY <1>8, <2>1
<1> DEFINE Right(t, i) == /\ t[i].id = RuleIds[i]
                          /\ t[i].status = IF Ready(t, i) THEN Verdict(RuleIds[i], c) ELSE "SKIP"
           T == {k \in 0 .. n : h[1 .. k] \in Seq(X) /\ Len(h[1 .. k]) = k /\ \A i \in 1 .. k : Right(h[1 .. k], i)}
<1>11. 0 \in T
  <2>1. <<>> \in Seq(X) /\ Len(<<>>) = 0 /\ 0 \in 0 .. n /\ 1 .. 0 = {}
    BY <1>1
  <2> HIDE DEF Right
  <2> QED BY <1>10, <2>1
<1>12. ASSUME NEW k \in 1 .. n, k - 1 \in T PROVE k \in T
  <2> DEFINE old == h[1 .. (k - 1)]  new == h[1 .. k]  e == entry(old, RuleIds[k])
  <2>1. k \in 0 .. n /\ k - 1 \in Nat /\ k \in Nat /\ old \in Seq(X) /\ Len(old) = k - 1
        /\ \A i \in 1 .. (k - 1) : Right(old, i)
    BY <1>1, <1>12
  <2>2. new = Append(old, e) /\ e \in X
    BY <1>3, <1>9, <2>1
  <2> HIDE DEF old, new, e
  <2>3. new \in Seq(X) /\ Len(new) = k /\ new[k] = e /\ \A i \in 1 .. (k - 1) : new[i] = old[i]
    <3>1. Len(new) = (k - 1) + 1 /\ new[Len(old) + 1] = e /\ new \in Seq(X)
      BY <2>1, <2>2
    <3>2. \A i \in 1 .. Len(old) : new[i] = old[i]
      BY <2>1, <2>2
    <3> QED BY <2>1, <3>1, <3>2
  <2>4. \A i \in 1 .. (k - 1) : Right(new, i)
    <3> TAKE i \in 1 .. (k - 1)
    <3>1. \A j \in 1 .. i - 1 : new[j] = old[j]
      BY <2>1, <2>3
    <3>2. Ready(new, i) <=> Ready(old, i)
      BY <3>1 DEF Ready
    <3>3. new[i] = old[i] /\ Right(old, i)
      BY <2>1, <2>3
    <3> QED BY <3>2, <3>3
  <2>5. Right(new, k)
    <3>1. DOMAIN old = 1 .. (k - 1)
      BY <2>1
    <3>2. \A j \in 1 .. k - 1 : new[j] = old[j]
      BY <2>3
    <3>3. Ready(new, k) <=> \A dep \in DependsOn(RuleIds[k]) : \E i \in DOMAIN old : old[i].id = dep /\ old[i].status = "PASS"
      BY <3>1, <3>2 DEF Ready
    <3>4. e = IF Ready(new, k) THEN [id |-> RuleIds[k], status |-> Verdict(RuleIds[k], c)]
              ELSE [id |-> RuleIds[k], status |-> "SKIP"]
      BY <3>3 DEF e, entry
    <3> QED BY <2>3, <3>4
  <2>6. \A i \in 1 .. k : Right(new, i)
    <3> HIDE DEF Right
    <3>1. \A i \in 1 .. k : i = k \/ i \in 1 .. (k - 1)
      BY <2>1
    <3> QED BY <2>4, <2>5, <3>1
  <2> HIDE DEF Right
  <2> QED BY <2>1, <2>3, <2>6 DEF new
<1>13. n \in T
  <2>1. n \in 0 .. n
    BY <1>1
  <2> HIDE DEF T
  <2> QED BY <1>1, <1>11, <1>12, <2>1, Climbs
<1>14. RunRules(c) = h[1 .. n]
  BY <1>2 DEF h
<1> HIDE DEF Turn, h
<1>15. RunRules(c) \in Seq(X) /\ Len(RunRules(c)) = n /\ \A i \in 1 .. n : Right(RunRules(c), i)
  <2> HIDE DEF Right
  <2> QED BY <1>13, <1>14
<1> QED BY <1>15 DEF n

\* What a test of the members finds.
LEMMA PickedNone ==
  ASSUME NEW X, NEW s \in Seq(X), At(s, {i \in DOMAIN s : Blocks(s[i])}) = <<>>
  PROVE  \A i \in DOMAIN s : ~Blocks(s[i])
<1> DEFINE P == {i \in DOMAIN s : Blocks(s[i])}
<1>1. DOMAIN s = 1 .. Len(s) /\ P \in SUBSET (1 .. Len(s))
  OBVIOUS
<1> HIDE DEF P
<1>2. At(s, P) = <<>>
  BY DEF P
<1>3. P = {}
  BY <1>1, <1>2, AtIs DEF Extract
<1> QED BY <1>3 DEF P

\* A cart that is not declined is sound and sold by the shelf.
LEMMA ClearedIs ==
  ASSUME NEW c, Decide(c).outcome # "DECLINE"
  PROVE  c.structure /\ c.resolved
<1> DEFINE trace == RunRules(c)
<1>1. PICK X : /\ trace \in Seq(X) /\ Len(trace) = 16
               /\ \A i \in 1 .. 16 :
                     /\ trace[i].id = RuleIds[i]
                     /\ trace[i].status = IF Ready(trace, i) THEN Verdict(RuleIds[i], c) ELSE "SKIP"
  BY TraceIs
<1> HIDE DEF trace
<1>2. Decide(c) = Aggregate(trace, c.totals)
  BY DEF Decide, trace
<1>3. Picked(trace, Blocks) = <<>>
  BY <1>2 DEF Aggregate
<1>4. Picked(trace, Blocks) = At(trace, {i \in DOMAIN trace : Blocks(trace[i])})
  BY DEF Picked, At
<1>5. DOMAIN trace = 1 .. 16
  BY <1>1
<1>6. \A i \in 1 .. 16 : ~Blocks(trace[i])
  BY <1>1, <1>3, <1>4, <1>5, PickedNone
<1>7. RuleIds[4] = "STRUCTURE" /\ RuleIds[5] = "SKU"
  BY DEF RuleIds
<1>8. trace[4].id = "STRUCTURE" /\ trace[4].status = CartStructure(c)
  <2>1. DependsOn("STRUCTURE") = {}
    BY DEF DependsOn
  <2>2. Ready(trace, 4)
    BY <1>7, <2>1 DEF Ready
  <2>3. Verdict("STRUCTURE", c) = CartStructure(c)
    BY DEF Verdict
  <2> QED BY <1>1, <1>7, <2>2, <2>3
<1>9. trace[4].status # "FAIL"
  BY <1>6, <1>8 DEF Blocks, Severity
<1>10. c.structure /\ trace[4].status = "PASS"
  BY <1>8, <1>9 DEF CartStructure, PassIf
<1>11. trace[5].id = "SKU" /\ trace[5].status = SkuResolution(c)
  <2>1. DependsOn("SKU") = {"STRUCTURE"}
    BY DEF DependsOn
  <2>2. Ready(trace, 5)
    BY <1>7, <1>8, <1>10, <2>1 DEF Ready
  <2>3. Verdict("SKU", c) = SkuResolution(c)
    BY DEF Verdict
  <2> QED BY <1>1, <1>7, <2>2, <2>3
<1>12. trace[5].status # "FAIL"
  BY <1>6, <1>11 DEF Blocks, Severity
<1> QED BY <1>10, <1>11, <1>12 DEF SkuResolution, PassIf

----------------------------------------------------------------------------
(* What the gate makes of an input.                                        *)

GateReady(in) == in.cart.lines \in Seq(CartLine) /\ GroundTruth(in.items) /\ in.cart.pct \in Int

Merged(in) == MergeLines(in.cart.lines)
Resolved(in) == Known(Merged(in), in.items)

LEMMA BpsIs ==
  ASSUME NEW pct \in Percent
  PROVE  ToBps(pct) \in BasisPoints
BY DEF ToBps, Percent, BasisPoints

LEMMA PercentIsInt ==
  ASSUME NEW pct \in Percent
  PROVE  pct \in Int
BY DEF Percent

LEMMA PaiseAreNat ==
  ASSUME NEW x \in Paise
  PROVE  x \in Nat
BY SchemasAssumption DEF Paise

LEMMA ItemIs ==
  ASSUME NEW items, GroundTruth(items), NEW s \in DOMAIN items
  PROVE  items[s].price \in Nat /\ items[s].cost \in Nat /\ items[s].stock \in Nat
<1>1. ValidItem(items[s])
  BY DEF GroundTruth
<1>2. items[s].price \in Paise /\ items[s].cost \in Paise /\ items[s].stock \in Nat
  BY <1>1 DEF ValidItem
<1>3. items[s].price \in Nat
  BY <1>2, PaiseAreNat
<1>4. items[s].cost \in Nat
  BY <1>2, PaiseAreNat
<1> QED BY <1>2, <1>3, <1>4

LEMMA PriceableIs ==
  ASSUME NEW items, GroundTruth(items), NEW k \in Nat, NEW resolved \in [1 .. k -> CartLine],
         \A i \in 1 .. k : resolved[i].sku \in DOMAIN items
  PROVE  /\ (\A i \in 1 .. k : resolved[i].qty \in Nat) => Priceable(items, resolved, k)
         /\ Priceable(Zeroed(items), resolved, k)
<1>1. \A i \in 1 .. k : resolved[i].qty \in Int
  BY DEF CartLine
<1>2. \A i \in 1 .. k : items[resolved[i].sku].price \in Nat /\ items[resolved[i].sku].cost \in Nat
  BY ItemIs
<1>3. ASSUME \A i \in 1 .. k : resolved[i].qty \in Nat PROVE Priceable(items, resolved, k)
  <2>1. \A i \in 1 .. k : items[resolved[i].sku].price * resolved[i].qty \in Nat
    <3> TAKE i \in 1 .. k
    <3>1. items[resolved[i].sku].price \in Nat /\ resolved[i].qty \in Nat
      BY <1>2, <1>3
    <3>2. \A x, y \in Nat : x * y \in Nat
      OBVIOUS
    <3> QED BY <3>1, <3>2
  <2>2. \A i \in 1 .. k : items[resolved[i].sku].cost * resolved[i].qty \in Int
    <3> TAKE i \in 1 .. k
    <3>1. items[resolved[i].sku].cost \in Nat /\ resolved[i].qty \in Nat
      BY <1>2, <1>3
    <3>2. \A x, y \in Nat : x * y \in Int
      OBVIOUS
    <3> QED BY <3>1, <3>2
  <2> QED BY <2>1, <2>2 DEF Priceable, Weights, Costs
<1>4. Priceable(Zeroed(items), resolved, k)
  <2>1. \A i \in 1 .. k : Zeroed(items)[resolved[i].sku] = [price |-> 0, cost |-> 0]
    BY DEF Zeroed
  <2>2. \A i \in 1 .. k : Zeroed(items)[resolved[i].sku].price * resolved[i].qty = 0
                          /\ Zeroed(items)[resolved[i].sku].cost * resolved[i].qty = 0
    <3> TAKE i \in 1 .. k
    <3>1. Zeroed(items)[resolved[i].sku].price = 0 /\ Zeroed(items)[resolved[i].sku].cost = 0
      BY <2>1
    <3> QED BY <1>1, <3>1
  <2> QED BY <2>2 DEF Priceable, Weights, Costs
<1> QED BY <1>3, <1>4

LEMMA ContextSound ==
  ASSUME NEW in, NEW merged, StructureOf(in.cart, merged)
  PROVE  ContextFor(in, merged) =
           Context(in, merged, TRUE, ToBps(in.cart.pct),
                   Recompute(Known(merged, in.items), in.items, ToBps(in.cart.pct)))
BY DEF ContextFor, ContextOf

LEMMA ContextUnsound ==
  ASSUME NEW in, NEW merged, ~StructureOf(in.cart, merged)
  PROVE  ContextFor(in, merged) =
           Context(in, merged, FALSE, 0, Recompute(Known(merged, in.items), Zeroed(in.items), 0))
BY DEF ContextFor, ContextOf

\* The known lines are members of the merged ones, and have their sku on the shelf.
LEMMA ResolvedIs ==
  ASSUME NEW in, GateReady(in)
  PROVE  \E k \in Nat :
           /\ Resolved(in) \in [1 .. k -> CartLine]
           /\ \A i \in 1 .. k : Resolved(in)[i].sku \in DOMAIN in.items
           /\ \A i \in 1 .. k : \E j \in DOMAIN Merged(in) : Resolved(in)[i] = Merged(in)[j]
<1> DEFINE merged == Merged(in)
<1>1. PICK m \in Nat : merged \in [1 .. m -> CartLine]
  BY MergeIs DEF GateReady, Merged
<1>2. Resolved(in) = Known(merged, in.items)
  BY DEF Resolved
<1> HIDE DEF merged
<1>3. DOMAIN merged = 1 .. m
  BY <1>1
<1>4. \E k \in Nat : /\ Resolved(in) \in [1 .. k -> CartLine]
                     /\ \A i \in 1 .. k : \E j \in 1 .. m : Resolved(in)[i] = merged[j]
                     /\ \A i \in 1 .. k : Resolved(in)[i].sku \in DOMAIN in.items
  <2>1. \E k \in Nat : /\ Known(merged, in.items) \in [1 .. k -> CartLine]
                       /\ \A i \in 1 .. k : \E j \in 1 .. m : Known(merged, in.items)[i] = merged[j]
                       /\ \A i \in 1 .. k : Known(merged, in.items)[i].sku \in DOMAIN in.items
    BY <1>1, KnownIs
  <2> QED BY <1>2, <2>1
<1> QED BY <1>3, <1>4 DEF merged

LEMMA StructureHas ==
  ASSUME NEW cart, NEW merged, StructureOf(cart, merged)
  PROVE  /\ cart.pct \in Percent
         /\ \A i \in DOMAIN merged : merged[i].qty > 0
<1>1. cart.pct \in Percent
  BY DEF StructureOf
<1>2. \A i \in DOMAIN merged : merged[i].qty > 0
  BY DEF StructureOf
<1> QED BY <1>1, <1>2

LEMMA SoundIs ==
  ASSUME NEW in, GateReady(in), StructureOf(in.cart, Merged(in))
  PROVE  /\ in.cart.pct \in Percent
         /\ \A i \in DOMAIN Merged(in) : Merged(in)[i].qty > 0
         /\ \E k \in Nat :
              /\ Resolved(in) \in [1 .. k -> CartLine]
              /\ Priceable(in.items, Resolved(in), k)
<1>1. in.cart.pct \in Percent /\ \A i \in DOMAIN Merged(in) : Merged(in)[i].qty > 0
  BY StructureHas
<1>2. PICK k \in Nat :
           /\ Resolved(in) \in [1 .. k -> CartLine]
           /\ \A i \in 1 .. k : Resolved(in)[i].sku \in DOMAIN in.items
           /\ \A i \in 1 .. k : \E j \in DOMAIN Merged(in) : Resolved(in)[i] = Merged(in)[j]
  BY ResolvedIs
<1>3. \A i \in 1 .. k : Resolved(in)[i] \in CartLine
  BY <1>2
<1>4. \A i \in 1 .. k : Resolved(in)[i].qty \in Nat
  BY <1>1, <1>2, <1>3 DEF CartLine
<1>5. GroundTruth(in.items)
  BY DEF GateReady
<1>6. Priceable(in.items, Resolved(in), k)
  BY <1>2, <1>4, <1>5, PriceableIs
<1> QED BY <1>1, <1>2, <1>6

LEMMA UnsoundIs ==
  ASSUME NEW in, GateReady(in)
  PROVE  \E k \in Nat :
              /\ Resolved(in) \in [1 .. k -> CartLine]
              /\ Priceable(Zeroed(in.items), Resolved(in), k)
<1>1. PICK k \in Nat :
           /\ Resolved(in) \in [1 .. k -> CartLine]
           /\ \A i \in 1 .. k : Resolved(in)[i].sku \in DOMAIN in.items
           /\ \A i \in 1 .. k : \E j \in DOMAIN Merged(in) : Resolved(in)[i] = Merged(in)[j]
  BY ResolvedIs
<1>2. GroundTruth(in.items)
  BY DEF GateReady
<1>3. Priceable(Zeroed(in.items), Resolved(in), k)
  BY <1>1, <1>2, PriceableIs
<1> QED BY <1>1, <1>3

LEMMA ContextIs ==
  ASSUME NEW in, GateReady(in)
  PROVE  LET c == BuildContext(in) IN
         /\ \E k \in Nat : Resolved(in) \in [1 .. k -> CartLine] /\ Recomputed(c.totals, k, Resolved(in))
         /\ c.structure =>
              /\ StructureOf(in.cart, Merged(in))
              /\ c.totals = Recompute(Resolved(in), in.items, ToBps(in.cart.pct))
         /\ c.resolved = (Resolved(in) = Merged(in))
<1> DEFINE c == BuildContext(in)
<1>1. c = ContextFor(in, Merged(in)) /\ Resolved(in) = Known(Merged(in), in.items)
  BY DEF BuildContext, Merged, Resolved
<1> HIDE DEF c
<1>2. CASE StructureOf(in.cart, Merged(in))
  <2>1. c = Context(in, Merged(in), TRUE, ToBps(in.cart.pct), Recompute(Resolved(in), in.items, ToBps(in.cart.pct)))
    BY <1>1, <1>2, ContextSound
  <2>2. c.structure = TRUE /\ c.totals = Recompute(Resolved(in), in.items, ToBps(in.cart.pct))
        /\ c.resolved = (Resolved(in) = Merged(in))
    <3> DEFINE totals == Recompute(Resolved(in), in.items, ToBps(in.cart.pct))  bps == ToBps(in.cart.pct)
    <3>1. c = Context(in, Merged(in), TRUE, bps, totals)
      BY <2>1
    <3> HIDE DEF totals, bps
    <3>2. c.structure = TRUE /\ c.totals = totals /\ c.resolved = (Known(Merged(in), in.items) = Merged(in))
      BY <3>1 DEF Context
    <3> QED BY <1>1, <3>2 DEF totals
  <2>3. PICK k \in Nat : Resolved(in) \in [1 .. k -> CartLine] /\ Priceable(in.items, Resolved(in), k)
    BY <1>2, SoundIs
  <2>4. ToBps(in.cart.pct) \in BasisPoints
    BY <1>2, SoundIs, BpsIs
  <2>5. Recomputed(Recompute(Resolved(in), in.items, ToBps(in.cart.pct)), k, Resolved(in))
    BY <2>3, <2>4, RecomputeIs
  <2>6. Recomputed(c.totals, k, Resolved(in))
    BY <2>2, <2>5
  <2> QED BY <1>2, <2>2, <2>3, <2>6 DEF c
<1>3. CASE ~StructureOf(in.cart, Merged(in))
  <2>1. c = Context(in, Merged(in), FALSE, 0, Recompute(Resolved(in), Zeroed(in.items), 0))
    BY <1>1, <1>3, ContextUnsound
  <2>2. c.structure = FALSE /\ c.totals = Recompute(Resolved(in), Zeroed(in.items), 0)
        /\ c.resolved = (Resolved(in) = Merged(in))
    <3> DEFINE totals == Recompute(Resolved(in), Zeroed(in.items), 0)
    <3>1. c = Context(in, Merged(in), FALSE, 0, totals)
      BY <2>1
    <3> HIDE DEF totals
    <3>2. c.structure = FALSE /\ c.totals = totals /\ c.resolved = (Known(Merged(in), in.items) = Merged(in))
      BY <3>1 DEF Context
    <3> QED BY <1>1, <3>2 DEF totals
  <2>3. PICK k \in Nat : Resolved(in) \in [1 .. k -> CartLine] /\ Priceable(Zeroed(in.items), Resolved(in), k)
    BY UnsoundIs
  <2>4. 0 \in BasisPoints
    BY DEF BasisPoints
  <2>5. Recomputed(Recompute(Resolved(in), Zeroed(in.items), 0), k, Resolved(in))
    BY <2>3, <2>4, RecomputeIs
  <2>6. Recomputed(c.totals, k, Resolved(in))
    BY <2>2, <2>5
  <2> QED BY <2>2, <2>3, <2>6 DEF c
<1> QED BY <1>2, <1>3

----------------------------------------------------------------------------
(* The minted lines.                                                       *)

SettleLine == [sku : Nat, qty : Nat \ {0}, unit : Nat, backordered : BOOLEAN]
NetLine == [sku : Nat, qty : Nat \ {0}, net : Nat, backordered : BOOLEAN]

Value == [x \in SettleLine |-> x.unit * x.qty]
Units(s) == [x \in SettleLine |-> IF x.sku = s THEN x.qty ELSE 0]

LEMMA WeightsOfLines ==
  /\ Value \in [SettleLine -> Int]
  /\ \A s : Units(s) \in [SettleLine -> Int]
<1>1. \A x \in SettleLine : x.unit \in Nat /\ x.qty \in Nat
  BY DEF SettleLine
<1>2. \A a, b \in Nat : a * b \in Int
  OBVIOUS
<1>3. \A x \in SettleLine : x.unit * x.qty \in Int
  BY <1>1, <1>2
<1>4. \A s : \A x \in SettleLine : (IF x.sku = s THEN x.qty ELSE 0) \in Int
  BY <1>1
<1> QED BY <1>3, <1>4 DEF Value, Units

LEMMA WeighedOne ==
  ASSUME NEW X, NEW w \in [X -> Int], NEW x \in X
  PROVE  SumSeq(Weighed(w, <<x>>)) = w[x]
<1> DEFINE one == Weighed(w, <<x>>)
<1>1. w[x] \in Int
  OBVIOUS
<1>2. one = [i \in 1 .. 1 |-> w[x]]
  BY DEF Weighed
<1> HIDE DEF one
<1>4. one \in [1 .. 1 -> Int] /\ one[1] = w[x] /\ \A i \in 1 .. 1 : i = 1
  BY <1>1, <1>2
<1>5. SumSeq(one) = w[x]
  <2>1. \A i \in 1 .. 1 : i # 1 => one[i] = 0
    BY <1>4
  <2>2. 1 \in 1 .. 1 /\ 1 \in Nat
    OBVIOUS
  <2>3. SumSeq(one) = one[1]
    BY <1>4, <2>1, <2>2, SumOfOne
  <2> QED BY <1>4, <2>3
<1> QED BY <1>5 DEF one

SplitPart(l, q, u) ==
  IF q > 0 THEN <<[sku |-> l.sku, qty |-> q, unit |-> u, backordered |-> l.backordered]>> ELSE <<>>

LEMMA PartIs ==
  ASSUME NEW l \in NetLine, NEW q \in Nat, NEW u \in Nat, NEW s
  PROVE  /\ SplitPart(l, q, u) \in Seq(SettleLine)
         /\ SumSeq(Weighed(Value, SplitPart(l, q, u))) = u * q
         /\ SumSeq(Weighed(Units(s), SplitPart(l, q, u))) = IF l.sku = s THEN q ELSE 0
<1> DEFINE x == [sku |-> l.sku, qty |-> q, unit |-> u, backordered |-> l.backordered]
<1>3. SplitPart(l, q, u) = IF q > 0 THEN <<x>> ELSE <<>>
  BY DEF SplitPart
<1>6. CASE q > 0
  <2>1. x \in SettleLine
    BY <1>6 DEF NetLine, SettleLine
  <2>2. Value[x] = u * q /\ Units(s)[x] = IF l.sku = s THEN q ELSE 0
    BY <2>1 DEF Value, Units
  <2> HIDE DEF x
  <2>3. SumSeq(Weighed(Value, <<x>>)) = u * q
    BY <2>1, <2>2, WeightsOfLines, WeighedOne
  <2>4. SumSeq(Weighed(Units(s), <<x>>)) = IF l.sku = s THEN q ELSE 0
    BY <2>1, <2>2, WeightsOfLines, WeighedOne
  <2> QED BY <1>3, <1>6, <2>1, <2>3, <2>4
<1>7. CASE ~(q > 0)
  <2>1. q = 0 /\ u * q = 0
    BY <1>7
  <2>2. SumSeq(Weighed(Value, <<>>)) = 0 /\ SumSeq(Weighed(Units(s), <<>>)) = 0
    <3>1. Weighed(Value, <<>>) \in [1 .. 0 -> Int] /\ Weighed(Units(s), <<>>) \in [1 .. 0 -> Int]
      BY DEF Weighed
    <3> QED BY <3>1, SumIsInt
  <2> QED BY <1>3, <1>7, <2>1, <2>2
<1> QED BY <1>6, <1>7

\* The two parts of a line are worth its net and hold its units.
LEMMA SplitIs ==
  ASSUME NEW l \in NetLine, NEW s
  PROVE  /\ SplitLine(l) \in Seq(SettleLine)
         /\ SumSeq(Weighed(Value, SplitLine(l))) = l.net
         /\ SumSeq(Weighed(Units(s), SplitLine(l))) = IF l.sku = s THEN l.qty ELSE 0
<1> DEFINE q == l.qty  b == l.net \div l.qty  r == l.net % l.qty
           p1 == SplitPart(l, r, b + 1)  p2 == SplitPart(l, q - r, b)
<1>1. l.net \in Nat /\ q \in Nat \ {0}
  BY DEF NetLine
<1>2. l.net = q * b + r /\ r \in 0 .. q - 1 /\ b \in Nat
  BY <1>1, DivMod
<1>3. SplitLine(l) = p1 \o p2
  BY DEF SplitLine, SplitPart
<1> HIDE DEF q, b, r
<1>4. r \in Nat /\ b + 1 \in Nat /\ q - r \in Nat
  BY <1>1, <1>2
<1>5. p1 \in Seq(SettleLine) /\ p2 \in Seq(SettleLine)
  BY <1>2, <1>4, PartIs
<1>6. SumSeq(Weighed(Value, p1)) = (b + 1) * r /\ SumSeq(Weighed(Value, p2)) = b * (q - r)
  BY <1>2, <1>4, PartIs
<1>7. /\ SumSeq(Weighed(Units(s), p1)) = IF l.sku = s THEN r ELSE 0
      /\ SumSeq(Weighed(Units(s), p2)) = IF l.sku = s THEN q - r ELSE 0
  <2>1. \A k, u \in Nat : SumSeq(Weighed(Units(s), SplitPart(l, k, u))) = IF l.sku = s THEN k ELSE 0
    BY PartIs
  <2> QED BY <1>2, <1>4, <2>1
<1> HIDE DEF p1, p2
<1>8. SumSeq(Weighed(Value, p1 \o p2)) = SumSeq(Weighed(Value, p1)) + SumSeq(Weighed(Value, p2))
  BY <1>5, WeightsOfLines, WeighedIs
<1>9. SumSeq(Weighed(Units(s), p1 \o p2)) = SumSeq(Weighed(Units(s), p1)) + SumSeq(Weighed(Units(s), p2))
  <2>1. Units(s) \in [SettleLine -> Int]
    BY WeightsOfLines
  <2> QED BY <1>5, <2>1, WeighedIs
<1>10. (b + 1) * r + b * (q - r) = q * b + r
  <2>1. \A x, y, z \in Int : (x + 1) * y + x * (z - y) = z * x + y
    OBVIOUS
  <2> QED BY <1>1, <1>2, <1>4, <2>1
<1>11. (IF l.sku = s THEN r ELSE 0) + (IF l.sku = s THEN q - r ELSE 0) = IF l.sku = s THEN q ELSE 0
  BY <1>1, <1>4
<1>12. SplitLine(l) \in Seq(SettleLine)
  BY <1>3, <1>5
<1>13. SumSeq(Weighed(Value, SplitLine(l))) = l.net
  BY <1>2, <1>3, <1>6, <1>8, <1>10
<1>14. SumSeq(Weighed(Units(s), SplitLine(l))) = IF l.sku = s THEN q ELSE 0
  BY <1>3, <1>7, <1>9, <1>11
<1> QED BY <1>12, <1>13, <1>14 DEF q

LEMMA LinesWeigh ==
  ASSUME NEW lines \in Seq(SettleLine), NEW s
  PROVE  /\ LinesTotal(lines) = SumSeq(Weighed(Value, lines))
         /\ QtyOf(lines, s) = SumSeq(Weighed(Units(s), lines))
<1>1. \A i \in DOMAIN lines : lines[i] \in SettleLine
  OBVIOUS
<1>2. \A i \in DOMAIN lines : Value[lines[i]] = lines[i].unit * lines[i].qty
  BY <1>1 DEF Value
<1>3. \A i \in DOMAIN lines : Units(s)[lines[i]] = IF lines[i].sku = s THEN lines[i].qty ELSE 0
  BY <1>1 DEF Units
<1>4. [i \in DOMAIN lines |-> lines[i].unit * lines[i].qty] = Weighed(Value, lines)
  BY <1>2 DEF Weighed
<1>5. [i \in DOMAIN lines |-> IF lines[i].sku = s THEN lines[i].qty ELSE 0] = Weighed(Units(s), lines)
  BY <1>3 DEF Weighed
<1> QED BY <1>4, <1>5 DEF LinesTotal, QtyOf

\* What is minted is worth the net of the gate's lines and holds their units.
LEMMA MintIs ==
  ASSUME NEW n \in Nat, NEW perLine \in [1 .. n -> PricedLine], \A i \in 1 .. n : perLine[i].qty > 0,
         NEW items, NEW backorderSkus
  PROVE  LET minted == MintSettleable(perLine, items, backorderSkus) IN
         /\ minted \in Seq(SettleLine)
         /\ LinesTotal(minted) = SumSeq(NetsOf(perLine))
         /\ \A s : QtyOf(minted, s) = QtyOf(perLine, s)
<1> DEFINE flagged(l) == [sku |-> l.sku, qty |-> l.qty, net |-> l.net, backordered |->
                            l.sku \in backorderSkus /\ l.qty > items[l.sku].stock]
           line == [i \in 1 .. n |-> flagged(perLine[i])]
           parts == [i \in 1 .. n |-> SplitLine(line[i])]
           minted == MintSettleable(perLine, items, backorderSkus)
<1>1. minted = FlattenSeq(parts)
  BY DEF MintSettleable
<1>2. \A i \in 1 .. n : /\ line[i] \in NetLine
                        /\ line[i].sku = perLine[i].sku /\ line[i].qty = perLine[i].qty /\ line[i].net = perLine[i].net
  <2> TAKE i \in 1 .. n
  <2>1. perLine[i] \in PricedLine /\ perLine[i].qty > 0
    OBVIOUS
  <2>2. line[i] = flagged(perLine[i])
    OBVIOUS
  <2>3. flagged(perLine[i]).backordered \in BOOLEAN
    OBVIOUS
  <2> HIDE DEF line
  <2> QED BY <2>1, <2>2, <2>3 DEF PricedLine, NetLine
<1> HIDE DEF line, minted
<1>3. parts \in [1 .. n -> Seq(SettleLine)]
  BY <1>2, SplitIs
<1>4. /\ minted \in Seq(SettleLine)
      /\ SumSeq(Weighed(Value, minted)) = SumSeq(WeightsOfParts(Value, parts, n))
  <2> HIDE DEF parts
  <2>1. Value \in [SettleLine -> Int]
    BY WeightsOfLines
  <2>2. /\ FlattenSeq(parts) \in Seq(SettleLine)
        /\ SumSeq(Weighed(Value, FlattenSeq(parts))) = SumSeq(WeightsOfParts(Value, parts, n))
    BY <1>3, <2>1, FlatWeighs
  <2> QED BY <1>1, <2>2
<1>5. ASSUME NEW s
      PROVE  SumSeq(Weighed(Units(s), minted)) = SumSeq(WeightsOfParts(Units(s), parts, n))
  <2> HIDE DEF parts
  <2>1. Units(s) \in [SettleLine -> Int]
    BY WeightsOfLines
  <2>2. SumSeq(Weighed(Units(s), FlattenSeq(parts))) = SumSeq(WeightsOfParts(Units(s), parts, n))
    BY <1>3, <2>1, FlatWeighs
  <2> QED BY <1>1, <2>2
<1>6. \A i \in 1 .. n : SumSeq(Weighed(Value, parts[i])) = perLine[i].net
  BY <1>2, SplitIs
<1>7. \A s : \A i \in 1 .. n : SumSeq(Weighed(Units(s), parts[i])) = IF perLine[i].sku = s THEN perLine[i].qty ELSE 0
  BY <1>2, SplitIs
<1> HIDE DEF parts
<1>8. WeightsOfParts(Value, parts, n) = NetsOf(perLine)
  BY <1>6 DEF NetsOf, WeightsOfParts
<1>9. LinesTotal(minted) = SumSeq(NetsOf(perLine))
  BY <1>4, <1>8, LinesWeigh
<1>10. ASSUME NEW s PROVE QtyOf(minted, s) = QtyOf(perLine, s)
  <2>1. WeightsOfParts(Units(s), parts, n)
          = [i \in DOMAIN perLine |-> IF perLine[i].sku = s THEN perLine[i].qty ELSE 0]
    BY <1>7 DEF WeightsOfParts
  <2>2. SumSeq(Weighed(Units(s), minted)) = QtyOf(perLine, s)
    BY <1>5, <2>1 DEF QtyOf
  <2> QED BY <1>4, <2>2, LinesWeigh
<1> QED BY <1>4, <1>9, <1>10 DEF minted

----------------------------------------------------------------------------
(* The holds and the mandate.                                              *)

LEMMA HeldIs ==
  ASSUME NEW n \in Nat, NEW lines, DOMAIN lines = 1 .. n, \A i \in 1 .. n : lines[i].qty \in Nat \ {0}, NEW s
  PROVE  s \in SkusOf(lines) <=> QtyOf(lines, s) # 0
<1>1. ASSUME s \in SkusOf(lines) PROVE QtyOf(lines, s) # 0
  <2> DEFINE u == [i \in 1 .. n |-> IF lines[i].sku = s THEN lines[i].qty ELSE 0]
  <2>1. PICK i \in 1 .. n : lines[i].sku = s
    BY <1>1 DEF SkusOf
  <2>2. u \in [1 .. n -> Nat] /\ u[i] = lines[i].qty /\ QtyOf(lines, s) = SumSeq(u)
    BY <2>1 DEF QtyOf
  <2> HIDE DEF u
  <2>3. u[i] <= SumSeq(u) /\ SumSeq(u) \in Nat
    BY <2>1, <2>2, SumIsNat
  <2>4. u[i] \in Nat /\ u[i] # 0
    BY <2>1, <2>2
  <2> QED BY <2>2, <2>3, <2>4
<1>2. ASSUME s \notin SkusOf(lines) PROVE QtyOf(lines, s) = 0
  <2>1. \A i \in 1 .. n : lines[i].qty \in Int
    OBVIOUS
  <2> QED BY <1>2, <2>1, QtyIs
<1> QED BY <1>1, <1>2

LEMMA SkusAre ==
  ASSUME NEW lines \in Seq(SettleLine)
  PROVE  /\ SkusOf(lines) \in SUBSET Nat /\ IsFiniteSet(SkusOf(lines))
         /\ \A s : s \in SkusOf(lines) <=> QtyOf(lines, s) # 0
<1> DEFINE n == Len(lines)  skus == SkusOf(lines)  f == [i \in 1 .. n |-> lines[i].sku]
<1>1. n \in Nat /\ DOMAIN lines = 1 .. n /\ \A i \in 1 .. n : lines[i] \in SettleLine
  OBVIOUS
<1>2. skus = {lines[i].sku : i \in 1 .. n}
  BY <1>1 DEF SkusOf
<1> HIDE DEF n
<1>3. \A i \in 1 .. n : lines[i].sku \in Nat /\ lines[i].qty \in Nat /\ lines[i].qty # 0
  BY <1>1 DEF SettleLine
<1>4. skus \in SUBSET Nat
  BY <1>2, <1>3
<1>5. IsFiniteSet(skus)
  <2>1. f \in Surjection(1 .. n, skus)
    BY <1>2 DEF Surjection
  <2>2. IsFiniteSet(1 .. n)
    BY <1>1, FS_Interval
  <2> QED BY <2>1, <2>2, FS_Surjection
<1>6. \A s : s \in skus <=> QtyOf(lines, s) # 0
  <2>1. \A i \in 1 .. n : lines[i].qty \in Nat \ {0}
    BY <1>1 DEF SettleLine
  <2> QED BY <1>1, <2>1, HeldIs
<1> QED BY <1>4, <1>5, <1>6

LEMMA UnitsAreInt ==
  ASSUME NEW lines \in Seq(SettleLine), NEW s
  PROVE  QtyOf(lines, s) \in Int
<1> DEFINE n == Len(lines)
<1>1. n \in Nat /\ DOMAIN lines = 1 .. n /\ \A i \in 1 .. n : lines[i] \in SettleLine
  OBVIOUS
<1> HIDE DEF n
<1>2. \A i \in 1 .. n : lines[i].qty \in Int
  BY <1>1 DEF SettleLine
<1> QED BY <1>1, <1>2, QtyIs

\* A hold keeps the units of its sku.
LEMMA HoldsAre ==
  ASSUME NEW lines \in Seq(SettleLine), NEW s
  PROVE  QtyOf(AggregateHoldLines(lines), s) = QtyOf(lines, s)
<1> DEFINE skus == SkusOf(lines)  n == Cardinality(skus)  order == Sorted(skus)
           held == AggregateHoldLines(lines)
<1>1. skus \in SUBSET Nat /\ IsFiniteSet(skus)
  BY SkusAre
<1>2. /\ n \in Nat /\ order \in [1 .. n -> skus]
      /\ \A x \in skus : \E i \in 1 .. n : order[i] = x
      /\ \A i, j \in 1 .. n : order[i] = order[j] => i = j
  <2> HIDE DEF skus
  <2> QED BY <1>1, SortedIs
<1>3. held = [i \in DOMAIN order |-> [sku |-> order[i], qty |-> QtyOf(lines, order[i]),
        backordered |-> \E j \in DOMAIN lines : lines[j].sku = order[i] /\ lines[j].backordered]]
  BY DEF AggregateHoldLines
<1> HIDE DEF skus, n, order, held
<1>4. DOMAIN held = 1 .. n /\ \A i \in 1 .. n : held[i].sku = order[i] /\ held[i].qty = QtyOf(lines, order[i])
  BY <1>2, <1>3
<1>5. \A i \in 1 .. n : held[i].qty \in Int
  BY <1>4, UnitsAreInt
<1>6. CASE s \in skus
  <2>1. PICK i \in 1 .. n : order[i] = s
    BY <1>2, <1>6
  <2>2. \A j \in 1 .. n : held[j].sku = s <=> j = i
    BY <1>2, <1>4, <2>1
  <2>3. QtyOf(held, s) = held[i].qty
    <3>1. n \in Nat /\ DOMAIN held = 1 .. n
      BY <1>2, <1>4
    <3> QED BY <1>5, <2>2, <3>1, QtyIs
  <2> QED BY <1>4, <2>1, <2>3 DEF held
<1>7. CASE s \notin skus
  <2>1. QtyOf(lines, s) = 0
    BY <1>7, SkusAre DEF skus
  <2>2. s \notin SkusOf(held)
    <3>1. \A i \in 1 .. n : order[i] # s
      BY <1>2, <1>7
    <3> QED BY <1>4, <3>1 DEF SkusOf
  <2>3. QtyOf(held, s) = 0
    BY <1>2, <1>4, <1>5, <2>2, QtyIs
  <2> QED BY <2>1, <2>3 DEF held
<1> QED BY <1>6, <1>7

\* A percentage to one decimal brings its discount back to within the tolerance.
LEMMA ShownPctIs ==
  ASSUME NEW S \in Nat, NEW D \in 0 .. S
  PROVE  Distance((2 * S * DisplayPct(D, S) + 1000) \div 2000, D) <= DisplayPctTolerance(S)
<1> DEFINE p == DisplayPct(D, S)  a == 2 * D * 1000 + S  m == 2 * S
           q == (2 * S * p + 1000) \div 2000
<1>1. CASE S = 0
  <2>1. D = 0 /\ p = 0
    BY <1>1 DEF DisplayPct
  <2> HIDE DEF p
  <2>2. q = 0
    BY <1>1, <2>1
  <2> HIDE DEF q
  <2>3. Distance(q, D) = 0
    BY <2>1, <2>2 DEF Distance
  <2>4. DisplayPctTolerance(S) >= 0
    BY <1>1 DEF DisplayPctTolerance
  <2> QED BY <2>3, <2>4 DEF q, p
<1>2. CASE S # 0
  <2>1. m \in Nat \ {0} /\ a \in Nat
    BY <1>2
  <2>2. a = m * (a \div m) + (a % m) /\ a % m \in 0 .. m - 1 /\ a \div m \in Nat
    <3> HIDE DEF a, m
    <3> QED BY <2>1, DivMod
  <2>3. p = a \div m
    BY <1>2 DEF DisplayPct
  <2> HIDE DEF p
  <2> DEFINE x == m * p
  <2>4. x = 2 * S * p
    OBVIOUS
  <2>5. x \in Nat /\ 2000 * D - S < x /\ x <= 2000 * D + S
    <3>1. a = x + (a % m) /\ a % m \in Nat /\ a % m < 2 * S
      BY <2>2, <2>3
    <3>2. x \in Nat
      <4>1. \A u, v \in Nat : u * v \in Nat
        OBVIOUS
      <4> QED BY <2>1, <2>2, <2>3, <4>1
    <3>3. a = 2000 * D + S
      OBVIOUS
    <3> HIDE DEF a, m, x
    <3> QED BY <3>1, <3>2, <3>3
  <2>6. q = (x + 1000) \div 2000
    BY <2>4
  <2> HIDE DEF x, q, a, m
  <2>7. 2000 * q <= x + 1000 /\ x + 1000 < 2000 * q + 2000 /\ q \in Nat
    BY <2>5, <2>6
  <2> DEFINE t == (S + 1999) \div 2000
  <2>8. S <= 2000 * t /\ t \in Nat
    OBVIOUS
  <2>9. DisplayPctTolerance(S) = t + 1
    BY DEF DisplayPctTolerance
  <2> HIDE DEF t
  <2>10. q - D <= t + 1 /\ D - q <= t + 1
    BY <2>5, <2>7, <2>8
  <2>11. Distance(q, D) <= t + 1
    BY <2>7, <2>8, <2>10 DEF Distance
  <2> QED BY <2>9, <2>11 DEF q, p
<1> QED BY <1>1, <1>2

\* Lines that hold the units of a priced cart.
Carries(lines, cart, k, items) ==
  /\ lines \in Seq(SettleLine)
  /\ k \in Nat /\ cart \in [1 .. k -> CartLine]
  /\ \A i \in 1 .. k : cart[i].qty > 0
  /\ \A i \in 1 .. k : cart[i].sku \in DOMAIN items
  /\ \A s : QtyOf(lines, s) = QtyOf(cart, s)

\* The raw subtotal of the mandate is the cart's gross.
LEMMA SubtotalIs ==
  ASSUME NEW lines, NEW cart, NEW k, NEW items, Carries(lines, cart, k, items), GroundTruth(items)
  PROVE  LinesTotal(MandateItems(lines, items)) = SumSeq(Weights(cart, items))
<1> DEFINE skus == SkusOf(lines)  n == Cardinality(skus)  order == Sorted(skus)
           rows == MandateItems(lines, items)
           price == [s \in Nat |-> IF s \in DOMAIN items THEN items[s].price ELSE 0]
           key == [i \in 1 .. k |-> cart[i].sku]
           qty == [i \in 1 .. k |-> cart[i].qty]
           bySku == PerKey(price, order, key, qty, n)
           byLine == PerMember(price, key, qty, k)
<1>1. lines \in Seq(SettleLine) /\ k \in Nat /\ cart \in [1 .. k -> CartLine] /\ DOMAIN cart = 1 .. k
  BY DEF Carries
<1>2. \A s : QtyOf(lines, s) = QtyOf(cart, s)
  BY DEF Carries
<1>3. \A i \in 1 .. k : cart[i].sku \in DOMAIN items
  BY DEF Carries
<1>4. \A i \in 1 .. k : cart[i].qty \in Nat \ {0} /\ cart[i].sku \in Nat
  <2>1. \A i \in 1 .. k : cart[i].qty > 0
    BY DEF Carries
  <2> QED BY <1>1, <2>1 DEF CartLine
<1>5. \A s : s \in SkusOf(cart) <=> QtyOf(cart, s) # 0
  BY <1>1, <1>4, HeldIs
<1>6. skus \in SUBSET Nat /\ IsFiniteSet(skus) /\ \A s : s \in skus <=> QtyOf(lines, s) # 0
  BY <1>1, SkusAre
<1>7. skus = SkusOf(cart)
  <2> HIDE DEF skus
  <2>1. \A s : s \in skus <=> s \in SkusOf(cart)
    BY <1>2, <1>5, <1>6
  <2> QED BY <2>1
<1>8. SkusOf(cart) = {cart[i].sku : i \in 1 .. k}
  BY <1>1 DEF SkusOf
<1>9. skus \in SUBSET (DOMAIN items)
  <2> HIDE DEF skus
  <2> QED BY <1>3, <1>7, <1>8
<1>10. /\ n \in Nat /\ order \in [1 .. n -> skus]
       /\ \A x \in skus : \E i \in 1 .. n : order[i] = x
       /\ \A i, j \in 1 .. n : order[i] = order[j] => i = j
  <2> HIDE DEF skus
  <2> QED BY <1>6, SortedIs
<1>11. rows = [j \in DOMAIN order |-> [sku |-> order[j], qty |-> QtyOf(lines, order[j]),
                                       unit |-> items[order[j]].price]]
  BY DEF MandateItems
<1> HIDE DEF skus, n, order, rows
<1>12. DOMAIN rows = 1 .. n
       /\ \A j \in 1 .. n : rows[j].qty = QtyOf(lines, order[j]) /\ rows[j].unit = items[order[j]].price
  BY <1>10, <1>11
<1>13. price \in [Nat -> Int]
  <2>1. \A s \in DOMAIN items : items[s].price \in Int
    BY ItemIs
  <2> QED BY <2>1
<1>14. key \in [1 .. k -> Nat] /\ qty \in [1 .. k -> Int]
  BY <1>4
<1>15. \A s : QtyOf(cart, s) = Part(key, qty, s)
  BY <1>1, QtyIsPart
<1>16. \A j \in 1 .. n : order[j] \in DOMAIN items /\ order[j] \in Nat
  BY <1>6, <1>9, <1>10
<1>17. \A j \in 1 .. n : price[order[j]] = rows[j].unit /\ Part(key, qty, order[j]) = rows[j].qty
  <2> HIDE DEF key, qty
  <2> QED BY <1>2, <1>12, <1>15, <1>16
<1>18. \A i \in 1 .. k : price[key[i]] = items[cart[i].sku].price
  BY <1>3, <1>4
<1>19. SumSeq(bySku) = SumSeq(byLine)
  <2>1. \A i \in 1 .. k : \E j \in 1 .. n : order[j] = key[i]
    <3> TAKE i \in 1 .. k
    <3>1. key[i] \in skus
      BY <1>7, <1>8
    <3> QED BY <1>10, <3>1
  <2>2. order \in [1 .. n -> Nat]
    BY <1>6, <1>10
  <2> HIDE DEF key, qty, price
  <2>3. k \in Nat /\ n \in Nat
    BY <1>1, <1>10
  <2>4. \A i, j \in 1 .. n : order[i] = order[j] => i = j
    BY <1>10
  <2>5. SumSeq(PerKey(price, order, key, qty, n)) = SumSeq(PerMember(price, key, qty, k))
    <3>1. Groups(Nat, price, order, key, qty, n, k)
      BY <1>13, <1>14, <2>1, <2>2, <2>3, <2>4 DEF Groups
    <3> QED BY <3>1, GroupSums
  <2> QED BY <2>5
<1>20. LinesTotal(rows) = SumSeq(bySku)
  <2>1. \A j \in 1 .. n : rows[j].unit * rows[j].qty = price[order[j]] * Part(key, qty, order[j])
    <3> HIDE DEF key, qty, price
    <3> QED BY <1>17
  <2> HIDE DEF key, qty, price
  <2>2. [j \in DOMAIN rows |-> rows[j].unit * rows[j].qty] = bySku
    BY <1>12, <2>1 DEF PerKey
  <2> QED BY <2>2 DEF LinesTotal
<1>21. Weights(cart, items) = byLine
  <2>1. \A i \in 1 .. k : items[cart[i].sku].price * cart[i].qty = price[key[i]] * qty[i]
    <3>1. \A i \in 1 .. k : qty[i] = cart[i].qty
      OBVIOUS
    <3> HIDE DEF key, qty, price
    <3> QED BY <1>18, <3>1
  <2> HIDE DEF key, qty, price
  <2> QED BY <1>1, <2>1 DEF Weights, PerMember
<1> HIDE DEF bySku, byLine
<1> QED BY <1>19, <1>20, <1>21 DEF rows

\* The buyer's mandate is built, adds up, and asks for settlement's total.
LEMMA MandateIs ==
  ASSUME NEW lines, NEW cart, NEW k, NEW items, Carries(lines, cart, k, items), GroundTruth(items),
         NEW total, SumSeq(Weights(cart, items)) \in Nat, total \in 0 .. SumSeq(Weights(cart, items))
  PROVE  LET m == BuildCartMandate(lines, total, items) IN
         m.ok /\ ArithmeticConsistent(m) /\ m.total = total
<1> DEFINE m == BuildCartMandate(lines, total, items)
           rows == MandateItems(lines, items)
           S == LinesTotal(rows)
           D == S - total
<1>1. S = SumSeq(Weights(cart, items))
  BY SubtotalIs
<1>2. m = [ok |-> S >= total, items |-> rows, subtotal |-> S, total |-> total, discount |-> D, pct |-> DisplayPct(D, S)]
  BY DEF BuildCartMandate
<1> HIDE DEF m, S, rows
<1>3. S \in Nat /\ D \in 0 .. S /\ S >= total /\ S - D = total
  BY <1>1
<1> HIDE DEF D
<1>4. /\ m.ok = (S >= total) /\ m.subtotal = S /\ m.total = total
      /\ m.discount = D /\ m.pct = DisplayPct(D, S) /\ m.items = rows
  BY <1>2
<1>5. Distance((2 * S * DisplayPct(D, S) + 1000) \div 2000, D) <= DisplayPctTolerance(S)
  BY <1>3, ShownPctIs
<1>6. ArithmeticConsistent(m)
  BY <1>3, <1>4, <1>5 DEF ArithmeticConsistent, S
<1> QED BY <1>3, <1>4, <1>6 DEF m

----------------------------------------------------------------------------
(* What the gate reports, and what is made of it.                          *)

LEMMA AggregateHas ==
  ASSUME NEW trace, NEW totals
  PROVE  Aggregate(trace, totals).totals = totals
BY DEF Aggregate

\* The gate's lines add up to its net, and none of them is negative.
LEMMA GateConserves ==
  ASSUME NEW in, GateReady(in)
  PROVE  LET t == EvaluateProposal(in).totals IN
         /\ t.net = SumSeq(Field(t.perLine, LAMBDA l : l.net))
         /\ t.gross >= t.net
         /\ \A i \in DOMAIN t.perLine : t.perLine[i].net >= 0
<1> DEFINE t == EvaluateProposal(in).totals
<1>1. t = BuildContext(in).totals
  BY AggregateHas DEF EvaluateProposal, Decide
<1>2. PICK k \in Nat : Recomputed(BuildContext(in).totals, k, Resolved(in))
  BY ContextIs
<1> HIDE DEF t
<1>3. Recomputed(t, k, Resolved(in))
  BY <1>1, <1>2
<1>4. t.gross \in Nat /\ t.net \in 0 .. t.gross
  BY <1>3 DEF Recomputed
<1>5. t.perLine \in [1 .. k -> PricedLine] /\ t.net = SumSeq(NetsOf(t.perLine))
  BY <1>3 DEF Recomputed
<1>6. \A i \in DOMAIN t.perLine : t.perLine[i].net \in Nat
  BY <1>5 DEF PricedLine
<1>7. NetsOf(t.perLine) = Field(t.perLine, LAMBDA l : l.net)
  BY DEF NetsOf, Field
<1> QED BY <1>4, <1>5, <1>6, <1>7 DEF t

\* Merging keeps the units of every sku.
LEMMA MergedUnits ==
  ASSUME NEW lines \in Seq(CartLine), NEW s
  PROVE  QtyOf(MergeLines(lines), s) = QtyOf(lines, s)
<1> DEFINE merged == MergeLines(lines)  n == Len(lines)
<1>1. PICK m \in Nat :
           /\ merged \in [1 .. m -> CartLine]
           /\ \A i, j \in 1 .. m : merged[i].sku = merged[j].sku => i = j
           /\ \A i \in 1 .. m : merged[i].qty = QtyOf(lines, merged[i].sku)
           /\ \A i \in DOMAIN lines : \E j \in 1 .. m : merged[j].sku = lines[i].sku
           /\ \A j \in 1 .. m : \E i \in DOMAIN lines : merged[j].sku = lines[i].sku
  BY MergeIs
<1> HIDE DEF merged
<1>2. n \in Nat /\ DOMAIN lines = 1 .. n /\ \A i \in 1 .. n : lines[i] \in CartLine
  OBVIOUS
<1>3. m \in Nat /\ DOMAIN merged = 1 .. m /\ \A i \in 1 .. m : merged[i] \in CartLine
  BY <1>1
<1> HIDE DEF n
<1>4. \A i \in 1 .. n : lines[i].qty \in Int
  BY <1>2 DEF CartLine
<1>5. \A i \in 1 .. m : merged[i].qty \in Int
  BY <1>3 DEF CartLine
<1>6. CASE \E i \in 1 .. m : merged[i].sku = s
  <2>1. PICK i \in 1 .. m : merged[i].sku = s
    BY <1>6
  <2>2. \A j \in 1 .. m : merged[j].sku = s <=> j = i
    BY <1>1, <2>1
  <2>3. QtyOf(merged, s) = merged[i].qty
    BY <1>3, <1>5, <2>2, QtyIs, SMTT(40)
  <2>4. merged[i].qty = QtyOf(lines, s)
    BY <1>1, <2>1
  <2> QED BY <2>3, <2>4 DEF merged
<1>7. CASE ~ \E i \in 1 .. m : merged[i].sku = s
  <2>1. s \notin SkusOf(merged)
    BY <1>3, <1>7 DEF SkusOf
  <2>2. s \notin SkusOf(lines)
    BY <1>1, <1>7, SMTT(40) DEF SkusOf
  <2>3. QtyOf(merged, s) = 0
    BY <1>3, <1>5, <2>1, QtyIs
  <2>4. QtyOf(lines, s) = 0
    BY <1>2, <1>4, <2>2, QtyIs
  <2> QED BY <2>3, <2>4 DEF merged
<1> QED BY <1>6, <1>7

\* What the totals of a cart that was let through are.
Approvable(in, t, k) ==
  /\ k \in Nat /\ Merged(in) \in [1 .. k -> CartLine]
  /\ \A i \in 1 .. k : Merged(in)[i].qty > 0
  /\ \A i \in 1 .. k : Merged(in)[i].sku \in DOMAIN in.items
  /\ Recomputed(t, k, Merged(in))
  /\ t.gross = SumSeq(Weights(Merged(in), in.items))

LEMMA ApprovedIs ==
  ASSUME NEW in, GateReady(in), EvaluateProposal(in).outcome # "DECLINE"
  PROVE  \E k : Approvable(in, EvaluateProposal(in).totals, k)
<1> DEFINE c == BuildContext(in)  t == EvaluateProposal(in).totals  merged == Merged(in)
<1>1. t = c.totals
  BY AggregateHas DEF EvaluateProposal, Decide
<1>2. c.structure /\ c.resolved
  BY ClearedIs DEF EvaluateProposal
<1>3. /\ StructureOf(in.cart, merged)
      /\ c.totals = Recompute(Resolved(in), in.items, ToBps(in.cart.pct))
      /\ Resolved(in) = merged
  BY <1>2, ContextIs
<1> HIDE DEF c, t
<1>4. PICK k \in Nat : merged \in [1 .. k -> CartLine] /\ \A i \in 1 .. k : merged[i].sku \in DOMAIN in.items
  BY <1>3, ResolvedIs
<1>5. in.cart.pct \in Percent /\ \A i \in DOMAIN merged : merged[i].qty > 0
  BY <1>3, SoundIs
<1> HIDE DEF merged
<1>6. DOMAIN merged = 1 .. k
  BY <1>4
<1>7. \A i \in 1 .. k : merged[i].qty \in Nat
  <2>1. \A i \in 1 .. k : merged[i] \in CartLine
    BY <1>4
  <2> QED BY <1>5, <1>6, <2>1 DEF CartLine
<1>8. Priceable(in.items, merged, k)
  <2>1. GroundTruth(in.items)
    BY DEF GateReady
  <2> QED BY <1>4, <1>7, <2>1, PriceableIs
<1> DEFINE bps == ToBps(in.cart.pct)
<1>9. bps \in BasisPoints
  BY <1>5, BpsIs
<1>10. t = Recompute(merged, in.items, bps)
  BY <1>1, <1>3
<1> HIDE DEF bps
<1>11. Recomputed(t, k, merged) /\ t.gross = SumSeq(Weights(merged, in.items))
  <2>1. Recomputed(Recompute(merged, in.items, bps), k, merged)
    BY <1>4, <1>8, <1>9, RecomputeIs
  <2>2. Recompute(merged, in.items, bps).gross = SumSeq(Weights(merged, in.items))
    BY <1>4, <1>8, <1>9, RecomputeIs, SMTT(40)
  <2> QED BY <1>10, <2>1, <2>2
<1>12. Approvable(in, t, k)
  BY <1>4, <1>5, <1>6, <1>11 DEF Approvable, merged
<1> QED BY <1>12 DEF t

MintedFrom(in, t, lines) == \E skus : lines = MintSettleable(t.perLine, in.items, skus)

\* The settleable lines carry the approved net and the units of the cart.
LEMMA SettleableIs ==
  ASSUME NEW in, GateReady(in), NEW t, NEW k, Approvable(in, t, k),
         NEW minted, MintedFrom(in, t, minted)
  PROVE  /\ minted \in Seq(SettleLine)
         /\ LinesTotal(minted) = t.net
         /\ \A s : QtyOf(minted, s) = QtyOf(in.cart.lines, s)
         /\ Carries(minted, Merged(in), k, in.items)
<1> DEFINE merged == Merged(in)  perLine == t.perLine
<1>1. k \in Nat /\ merged \in [1 .. k -> CartLine] /\ DOMAIN merged = 1 .. k
  BY DEF Approvable
<1>2. \A i \in 1 .. k : merged[i].qty > 0
  BY DEF Approvable
<1>3. \A i \in 1 .. k : merged[i].sku \in DOMAIN in.items
  BY DEF Approvable
<1>4. Recomputed(t, k, merged)
  BY DEF Approvable
<1>5. \A s : QtyOf(merged, s) = QtyOf(in.cart.lines, s)
  BY MergedUnits DEF Merged, GateReady
<1> HIDE DEF merged
<1>14. PICK backorderSkus : minted = MintSettleable(perLine, in.items, backorderSkus)
  BY DEF MintedFrom
<1>6. perLine \in [1 .. k -> PricedLine] /\ DOMAIN perLine = 1 .. k /\ t.net = SumSeq(NetsOf(perLine))
  BY <1>4 DEF Recomputed
<1>7. \A i \in 1 .. k : perLine[i].sku = merged[i].sku /\ perLine[i].qty = merged[i].qty
  BY <1>4 DEF Recomputed
<1> HIDE DEF perLine
<1>8. \A i \in 1 .. k : perLine[i].qty > 0
  BY <1>2, <1>7
<1>9. /\ minted \in Seq(SettleLine)
      /\ LinesTotal(minted) = SumSeq(NetsOf(perLine))
      /\ \A s : QtyOf(minted, s) = QtyOf(perLine, s)
  BY <1>1, <1>6, <1>8, <1>14, MintIs
<1>10. ASSUME NEW s PROVE QtyOf(perLine, s) = QtyOf(merged, s)
  <2>1. [i \in DOMAIN perLine |-> IF perLine[i].sku = s THEN perLine[i].qty ELSE 0]
          = [i \in DOMAIN merged |-> IF merged[i].sku = s THEN merged[i].qty ELSE 0]
    BY <1>1, <1>6, <1>7
  <2> QED BY <2>1 DEF QtyOf
<1>11. \A s : QtyOf(minted, s) = QtyOf(merged, s)
  BY <1>9, <1>10
<1>12. Carries(minted, merged, k, in.items)
  BY <1>1, <1>2, <1>3, <1>9, <1>11 DEF Carries
<1>13. \A s : QtyOf(minted, s) = QtyOf(in.cart.lines, s)
  BY <1>5, <1>11
<1> QED BY <1>6, <1>9, <1>12, <1>13 DEF merged, perLine

\* The mandate of the settleable asks for the approved net and adds up.
LEMMA ShownIs ==
  ASSUME NEW in, GateReady(in), NEW t, NEW k, Approvable(in, t, k), NEW lines, Carries(lines, Merged(in), k, in.items)
  PROVE  LET m == BuildCartMandate(lines, t.net, in.items) IN
         m.ok /\ ArithmeticConsistent(m) /\ m.total = t.net
<1> DEFINE gross == SumSeq(Weights(Merged(in), in.items))
<1>1. t.gross = gross /\ t.gross \in Nat /\ t.net \in 0 .. t.gross
  BY DEF Approvable, Recomputed
<1>2. gross \in Nat /\ t.net \in 0 .. gross
  BY <1>1
<1>3. GroundTruth(in.items)
  BY DEF GateReady
<1> HIDE DEF gross
<1> QED BY <1>2, <1>3, MandateIs DEF gross

----------------------------------------------------------------------------
(* The trace: one entry per rule, in a fixed order.                        *)

\* The places of the rules.
LEMMA RuleAt ==
  /\ DOMAIN RuleIds = 1 .. 16
  /\ RuleIds[1] = "CITATION" /\ RuleIds[2] = "EFFECTIVE" /\ RuleIds[3] = "FRESHNESS"
  /\ RuleIds[4] = "STRUCTURE" /\ RuleIds[5] = "SKU" /\ RuleIds[6] = "DRIFT" /\ RuleIds[7] = "VALUE"
  /\ RuleIds[8] = "DISCOUNT" /\ RuleIds[9] = "MARGIN" /\ RuleIds[10] = "CATEGORY"
  /\ RuleIds[11] = "STOCK" /\ RuleIds[12] = "EXPIRY" /\ RuleIds[13] = "REQUESTS"
  /\ RuleIds[14] = "DAYVALUE" /\ RuleIds[15] = "INJECTION" /\ RuleIds[16] = "OFFENDER"
BY DEF RuleIds

LEMMA Sixteen ==
  ASSUME NEW i \in 1 .. 16
  PROVE  \/ i = 1 \/ i = 2 \/ i = 3 \/ i = 4 \/ i = 5 \/ i = 6 \/ i = 7 \/ i = 8
         \/ i = 9 \/ i = 10 \/ i = 11 \/ i = 12 \/ i = 13 \/ i = 14 \/ i = 15 \/ i = 16
OBVIOUS

\* Three rules are waited for.
LEMMA PlacesAre ==
  ASSUME NEW j \in 1 .. 16
  PROVE  /\ RuleIds[j] = "STRUCTURE" <=> j = 4
         /\ RuleIds[j] = "SKU" <=> j = 5
         /\ RuleIds[j] = "DRIFT" <=> j = 6
BY Sixteen, RuleAt

Named(t) == DOMAIN t = 1 .. 16 /\ \A i \in 1 .. 16 : t[i].id = RuleIds[i]

\* What the entries say: a rule that waits for another is skipped unless that passed.
Marked(t, c) ==
  LET after(i, status) == IF t[i].status = "PASS" THEN status ELSE "SKIP" IN
  /\ Named(t)
  /\ t[1].status = CitationGate(c) /\ t[2].status = RulesEffective(c) /\ t[3].status = ProposalFreshness(c)
  /\ t[4].status = CartStructure(c) /\ t[5].status = after(4, SkuResolution(c))
  /\ t[6].status = after(5, TotalsDrift(c)) /\ t[7].status = after(5, CartValue(c))
  /\ t[8].status = after(4, DiscountCap(c))
  /\ t[9].status = after(5, IF t[6].status = "PASS" THEN MarginFloor(c) ELSE "SKIP")
  /\ t[10].status = after(5, CategoryAllowlist(c)) /\ t[11].status = after(5, StockAvailability(c))
  /\ t[12].status = after(5, ExpiryGuard(c)) /\ t[13].status = VelocityRequests(c)
  /\ t[14].status = after(5, VelocityValue(c)) /\ t[15].status = InjectionGuard(c)
  /\ t[16].status = RepeatOffender(c)

LEMMA ReadyAre ==
  ASSUME NEW t, Named(t)
  PROVE  /\ Ready(t, 1) /\ Ready(t, 2) /\ Ready(t, 3) /\ Ready(t, 4) /\ Ready(t, 13) /\ Ready(t, 15) /\ Ready(t, 16)
         /\ Ready(t, 5) <=> t[4].status = "PASS"
         /\ Ready(t, 8) <=> t[4].status = "PASS"
         /\ \A i \in {6, 7, 10, 11, 12, 14} : Ready(t, i) <=> t[5].status = "PASS"
         /\ Ready(t, 9) <=> t[5].status = "PASS" /\ t[6].status = "PASS"
<1>1. /\ \A i \in {1, 2, 3, 4, 13, 15, 16} : DependsOn(RuleIds[i]) = {}
      /\ DependsOn(RuleIds[5]) = {"STRUCTURE"} /\ DependsOn(RuleIds[8]) = {"STRUCTURE"}
      /\ \A i \in {6, 7, 10, 11, 12, 14} : DependsOn(RuleIds[i]) = {"SKU"}
      /\ DependsOn(RuleIds[9]) = {"SKU", "DRIFT"}
  <2>1. /\ DependsOn("CITATION") = {} /\ DependsOn("EFFECTIVE") = {} /\ DependsOn("FRESHNESS") = {}
        /\ DependsOn("STRUCTURE") = {} /\ DependsOn("REQUESTS") = {} /\ DependsOn("INJECTION") = {}
        /\ DependsOn("OFFENDER") = {} /\ DependsOn("SKU") = {"STRUCTURE"} /\ DependsOn("DISCOUNT") = {"STRUCTURE"}
        /\ DependsOn("DRIFT") = {"SKU"} /\ DependsOn("VALUE") = {"SKU"} /\ DependsOn("CATEGORY") = {"SKU"}
        /\ DependsOn("STOCK") = {"SKU"} /\ DependsOn("EXPIRY") = {"SKU"} /\ DependsOn("DAYVALUE") = {"SKU"}
        /\ DependsOn("MARGIN") = {"SKU", "DRIFT"}
    BY DEF DependsOn
  <2> QED BY <2>1, RuleAt
<1> DEFINE passed(d, i) == \E j \in 1 .. i - 1 : t[j].id = d /\ t[j].status = "PASS"
<1>2. ASSUME NEW i \in 1 .. 16
      PROVE  /\ i > 4 => (passed("STRUCTURE", i) <=> t[4].status = "PASS")
             /\ i > 5 => (passed("SKU", i) <=> t[5].status = "PASS")
             /\ i > 6 => (passed("DRIFT", i) <=> t[6].status = "PASS")
  <2>1. \A j \in 1 .. i - 1 : /\ t[j].id = "STRUCTURE" <=> j = 4
                              /\ t[j].id = "SKU" <=> j = 5
                              /\ t[j].id = "DRIFT" <=> j = 6
    <3> TAKE j \in 1 .. i - 1
    <3>1. j \in 1 .. 16
      OBVIOUS
    <3> QED BY <3>1, PlacesAre DEF Named
  <2> QED BY <2>1
<1>3. \A i \in 1 .. 16 : Ready(t, i) <=> \A d \in DependsOn(RuleIds[i]) : passed(d, i)
  BY DEF Ready
<1> HIDE DEF passed
<1>4. Ready(t, 1) /\ Ready(t, 2) /\ Ready(t, 3) /\ Ready(t, 4) /\ Ready(t, 13) /\ Ready(t, 15) /\ Ready(t, 16)
  BY <1>1, <1>3
<1>5. (Ready(t, 5) <=> passed("STRUCTURE", 5)) /\ (Ready(t, 8) <=> passed("STRUCTURE", 8))
  BY <1>1, <1>3
<1>6. \A i \in {6, 7, 10, 11, 12, 14} : Ready(t, i) <=> passed("SKU", i)
  BY <1>1, <1>3
<1>7. Ready(t, 9) <=> passed("SKU", 9) /\ passed("DRIFT", 9)
  BY <1>1, <1>3
<1> QED BY <1>2, <1>4, <1>5, <1>6, <1>7

LEMMA TraceMarked ==
  ASSUME NEW c
  PROVE  Marked(RunRules(c), c) /\ \E X : RunRules(c) \in Seq(X) /\ Len(RunRules(c)) = 16
<1> DEFINE t == RunRules(c)
<1>1. PICK X : /\ t \in Seq(X) /\ Len(t) = 16
               /\ \A i \in 1 .. 16 :
                    /\ t[i].id = RuleIds[i]
                    /\ t[i].status = IF Ready(t, i) THEN Verdict(RuleIds[i], c) ELSE "SKIP"
  BY TraceIs
<1> HIDE DEF t
<1>2. Named(t)
  BY <1>1 DEF Named
<1>3. /\ Verdict("CITATION", c) = CitationGate(c) /\ Verdict("EFFECTIVE", c) = RulesEffective(c)
      /\ Verdict("FRESHNESS", c) = ProposalFreshness(c) /\ Verdict("STRUCTURE", c) = CartStructure(c)
      /\ Verdict("SKU", c) = SkuResolution(c) /\ Verdict("DRIFT", c) = TotalsDrift(c)
      /\ Verdict("VALUE", c) = CartValue(c) /\ Verdict("DISCOUNT", c) = DiscountCap(c)
      /\ Verdict("MARGIN", c) = MarginFloor(c) /\ Verdict("CATEGORY", c) = CategoryAllowlist(c)
      /\ Verdict("STOCK", c) = StockAvailability(c) /\ Verdict("EXPIRY", c) = ExpiryGuard(c)
      /\ Verdict("REQUESTS", c) = VelocityRequests(c) /\ Verdict("DAYVALUE", c) = VelocityValue(c)
      /\ Verdict("INJECTION", c) = InjectionGuard(c) /\ Verdict("OFFENDER", c) = RepeatOffender(c)
  BY DEF Verdict
<1>4. \A i \in 1 .. 16 : t[i].status = IF Ready(t, i) THEN Verdict(RuleIds[i], c) ELSE "SKIP"
  BY <1>1
<1>5. Marked(t, c)
  BY <1>2, <1>3, <1>4, ReadyAre, RuleAt DEF Marked
<1> QED BY <1>1, <1>5 DEF t

----------------------------------------------------------------------------
(* The verdict is read off the entries.                                    *)

\* What is picked is none when there is nothing, else its first is a member.
LEMMA PickIs ==
  ASSUME NEW X, NEW s \in Seq(X), NEW P \in SUBSET (1 .. Len(s))
  PROVE  /\ At(s, P) = <<>> <=> P = {}
         /\ P # {} => \E i \in P : Head(At(s, P)) = s[i]
<1> DEFINE p == At(s, P)  n == Cardinality(P)
<1>1. /\ n \in Nat /\ p \in Seq(X) /\ Len(p) = n
      /\ \A m \in 1 .. n : \E i \in P : p[m] = s[i]
      /\ p = <<>> => P = {}
  BY AtIs DEF Extract
<1>2. P = {} => n = 0
  BY FS_EmptySet
<1> HIDE DEF p, n
<1>3. P = {} => p = <<>>
  BY <1>1, <1>2
<1>4. ASSUME P # {} PROVE \E i \in P : Head(p) = s[i]
  <2>1. p # <<>>
    BY <1>3, <1>4, <1>1, <1>2, AtIs DEF Extract, p
  <2>2. n # 0 /\ Head(p) = p[1]
    BY <1>1, <2>1
  <2> QED BY <1>1, <2>2
<1> QED BY <1>1, <1>3, <1>4 DEF p

Blocked(t) == \E i \in 1 .. 16 : Blocks(t[i])
Doubted(t) == \E i \in 1 .. 16 : Escalates(t[i])

LEMMA AggregateIs ==
  ASSUME NEW X, NEW t \in Seq(X), Len(t) = 16, NEW totals
  PROVE  LET v == Aggregate(t, totals) IN
         /\ v.trace = t /\ v.totals = totals
         /\ v.outcome = IF Blocked(t) THEN "DECLINE" ELSE IF Doubted(t) THEN "ESCALATE" ELSE "APPROVE"
         /\ v.declines # <<>> <=> v.outcome = "DECLINE"
         /\ v.escalations # <<>> <=> v.outcome = "ESCALATE"
         /\ v.outcome = "ESCALATE" => \E i \in 1 .. 16 : Head(v.escalations) = t[i] /\ Escalates(t[i])
<1> DEFINE B == {i \in DOMAIN t : Blocks(t[i])}  E == {i \in DOMAIN t : Escalates(t[i])}
           blockers == Picked(t, Blocks)  escapers == Picked(t, Escalates)
           v == Aggregate(t, totals)
           result(outcome, declines, escalations) ==
             [outcome |-> outcome, declines |-> declines, escalations |-> escalations,
              trace |-> t, totals |-> totals]
<1>1. DOMAIN t = 1 .. 16 /\ B \in SUBSET (1 .. Len(t)) /\ E \in SUBSET (1 .. Len(t))
  OBVIOUS
<1>2. blockers = At(t, B) /\ escapers = At(t, E)
  BY DEF Picked, At
<1>3. (Blocked(t) <=> B # {}) /\ (Doubted(t) <=> E # {})
  BY <1>1 DEF Blocked, Doubted
<1>4. (blockers = <<>> <=> B = {}) /\ (escapers = <<>> <=> E = {})
      /\ (E # {} => \E i \in E : Head(escapers) = t[i])
  <2> HIDE DEF B, E, blockers, escapers
  <2> QED BY <1>1, <1>2, PickIs
<1>5. ASSUME E # {} PROVE \E i \in 1 .. 16 : Head(escapers) = t[i] /\ Escalates(t[i])
  <2> HIDE DEF escapers
  <2> QED BY <1>1, <1>4, <1>5
<1>6. v = CASE blockers # <<>> -> result("DECLINE", blockers, <<>>)
            [] blockers = <<>> /\ escapers # <<>> -> result("ESCALATE", <<>>, escapers)
            [] OTHER -> result("APPROVE", <<>>, <<>>)
  BY DEF Aggregate
<1> HIDE DEF blockers, escapers, v, B, E
<1>7. CASE blockers # <<>>
  <2>1. v = result("DECLINE", blockers, <<>>)
    <3> HIDE DEF result
    <3> QED BY <1>6, <1>7, Zenon
  <2> QED BY <1>3, <1>4, <1>7, <2>1 DEF v
<1>8. CASE blockers = <<>> /\ escapers # <<>>
  <2>1. v = result("ESCALATE", <<>>, escapers)
    <3> HIDE DEF result
    <3> QED BY <1>6, <1>8, Zenon
  <2>2. v.trace = t /\ v.totals = totals /\ v.outcome = "ESCALATE" /\ v.declines = <<>> /\ v.escalations = escapers
    BY <2>1
  <2> QED BY <1>3, <1>4, <1>5, <1>8, <2>2 DEF v
<1>9. CASE blockers = <<>> /\ escapers = <<>>
  <2>1. v = result("APPROVE", <<>>, <<>>)
    <3> HIDE DEF result
    <3> QED BY <1>6, <1>9, Zenon
  <2> QED BY <1>3, <1>4, <1>9, <2>1 DEF v
<1> QED BY <1>7, <1>8, <1>9

----------------------------------------------------------------------------
(* The merged lines against the lines as they came.                        *)

\* The same skus, each with its units.
LEMMA MergedHas ==
  ASSUME NEW lines \in Seq(CartLine)
  PROVE  /\ SkusOf(MergeLines(lines)) = SkusOf(lines)
         /\ \A i \in DOMAIN MergeLines(lines) :
              MergeLines(lines)[i].qty = QtyOf(lines, MergeLines(lines)[i].sku)
         /\ MergeLines(lines) = <<>> <=> lines = <<>>
<1> DEFINE m == MergeLines(lines)
<1>1. PICK k \in Nat :
           /\ m \in [1 .. k -> CartLine]
           /\ \A i \in 1 .. k : m[i].qty = QtyOf(lines, m[i].sku)
           /\ \A i \in DOMAIN lines : \E j \in 1 .. k : m[j].sku = lines[i].sku
           /\ \A j \in 1 .. k : \E i \in DOMAIN lines : m[j].sku = lines[i].sku
  BY MergeIs
<1> HIDE DEF m
<1>2. DOMAIN m = 1 .. k
  BY <1>1
<1>3. SkusOf(m) = SkusOf(lines)
  <2>1. ASSUME NEW s PROVE s \in SkusOf(m) <=> s \in SkusOf(lines)
    <3>1. s \in SkusOf(m) <=> \E j \in 1 .. k : s = m[j].sku
      BY <1>2 DEF SkusOf
    <3>2. s \in SkusOf(lines) <=> \E i \in DOMAIN lines : s = lines[i].sku
      BY DEF SkusOf
    <3> QED BY <1>1, <3>1, <3>2
  <2> QED BY <2>1
<1>4. m = <<>> <=> lines = <<>>
  <2>1. m \in Seq(CartLine)
    BY <1>1
  <2>2. /\ m = <<>> <=> DOMAIN m = {}
        /\ lines = <<>> <=> DOMAIN lines = {}
    <3> DEFINE n == Len(lines)
    <3>1. n \in Nat /\ DOMAIN lines = 1 .. n /\ (lines = <<>> <=> n = 0) /\ (m = <<>> <=> k = 0)
      BY <1>2, <2>1
    <3>2. \A x \in Nat : 1 .. x = {} <=> x = 0
      <4> TAKE x \in Nat
      <4>1. x # 0 => 1 \in 1 .. x
        OBVIOUS
      <4> QED BY <4>1
    <3> HIDE DEF n
    <3> QED BY <1>2, <3>1, <3>2
  <2> QED BY <1>1, <1>2, <2>2
<1> QED BY <1>1, <1>2, <1>3, <1>4 DEF m

\* A weight per sku sums to the same over both.
LEMMA MergedSums ==
  ASSUME NEW lines \in Seq(CartLine), NEW K, NEW w \in [K -> Int], SkusOf(lines) \subseteq K
  PROVE  SumSeq([i \in DOMAIN MergeLines(lines) |-> w[MergeLines(lines)[i].sku] * MergeLines(lines)[i].qty])
           = SumSeq([i \in DOMAIN lines |-> w[lines[i].sku] * lines[i].qty])
<1> DEFINE m == MergeLines(lines)  n == Len(lines)
           order == [j \in DOMAIN m |-> m[j].sku]
           key == [i \in 1 .. n |-> lines[i].sku]  qty == [i \in 1 .. n |-> lines[i].qty]
<1>1. PICK k \in Nat :
           /\ m \in [1 .. k -> CartLine]
           /\ \A i, j \in 1 .. k : m[i].sku = m[j].sku => i = j
           /\ \A i \in 1 .. k : m[i].qty = QtyOf(lines, m[i].sku)
           /\ \A i \in DOMAIN lines : \E j \in 1 .. k : m[j].sku = lines[i].sku
           /\ \A j \in 1 .. k : \E i \in DOMAIN lines : m[j].sku = lines[i].sku
  BY MergeIs
<1> HIDE DEF m
<1>2. DOMAIN m = 1 .. k /\ n \in Nat /\ DOMAIN lines = 1 .. n /\ \A i \in 1 .. n : lines[i] \in CartLine
  BY <1>1
<1>3. \A i \in 1 .. n : lines[i].sku \in K /\ lines[i].qty \in Int
  BY <1>2 DEF CartLine, SkusOf
<1>4. \A j \in 1 .. k : m[j].sku \in K
  BY <1>1, <1>2, <1>3
<1>5. Groups(K, w, order, key, qty, k, n)
  <2>1. key \in [1 .. n -> K] /\ qty \in [1 .. n -> Int] /\ order \in [1 .. k -> K]
    BY <1>2, <1>3, <1>4
  <2>2. \A i, j \in 1 .. k : order[i] = order[j] => i = j
    BY <1>1, <1>2
  <2>3. \A i \in 1 .. n : \E j \in 1 .. k : order[j] = key[i]
    BY <1>1, <1>2
  <2> QED BY <1>1, <1>2, <2>1, <2>2, <2>3 DEF Groups
<1>6. PerKey(w, order, key, qty, k) = [i \in DOMAIN m |-> w[m[i].sku] * m[i].qty]
  <2>1. ASSUME NEW j \in 1 .. k PROVE w[order[j]] * Part(key, qty, order[j]) = w[m[j].sku] * m[j].qty
    <3>1. QtyOf(lines, m[j].sku) = Part(key, qty, m[j].sku)
      BY <1>2, QtyIsPart
    <3>2. m[j].qty = QtyOf(lines, m[j].sku) /\ order[j] = m[j].sku
      BY <1>1, <1>2
    <3> QED BY <3>1, <3>2
  <2> HIDE DEF order, key, qty
  <2> QED BY <1>2, <2>1 DEF PerKey
<1>7. PerMember(w, key, qty, n) = [i \in DOMAIN lines |-> w[lines[i].sku] * lines[i].qty]
  BY <1>2 DEF PerMember
<1> HIDE DEF order, key, qty
<1>8. SumSeq(PerKey(w, order, key, qty, k)) = SumSeq(PerMember(w, key, qty, n))
  BY <1>5, GroupSums
<1> QED BY <1>6, <1>7, <1>8 DEF m

LEMMA MergedTotals ==
  ASSUME NEW lines \in Seq(CartLine), NEW items, GroundTruth(items), SkusOf(lines) \subseteq DOMAIN items
  PROVE  /\ SumSeq(Weights(MergeLines(lines), items)) = ListTotal(lines, items)
         /\ SumSeq(Costs(items, MergeLines(lines))) = CostTotal(lines, items)
<1> DEFINE K == DOMAIN items  price == [s \in K |-> items[s].price]  cost == [s \in K |-> items[s].cost]
           m == MergeLines(lines)
<1>1. price \in [K -> Int] /\ cost \in [K -> Int]
  <2>1. \A s \in K : items[s].price \in Int /\ items[s].cost \in Int
    BY ItemIs
  <2> QED BY <2>1
<1>2. SkusOf(m) = SkusOf(lines)
  BY MergedHas
<1>3. /\ SumSeq([i \in DOMAIN m |-> price[m[i].sku] * m[i].qty])
           = SumSeq([i \in DOMAIN lines |-> price[lines[i].sku] * lines[i].qty])
      /\ SumSeq([i \in DOMAIN m |-> cost[m[i].sku] * m[i].qty])
           = SumSeq([i \in DOMAIN lines |-> cost[lines[i].sku] * lines[i].qty])
  <2> HIDE DEF price, cost
  <2> QED BY <1>1, MergedSums
<1> HIDE DEF m
<1>4. /\ \A i \in DOMAIN lines : lines[i].sku \in K
      /\ \A i \in DOMAIN m : m[i].sku \in K
  BY <1>2 DEF SkusOf
<1>5. /\ Weights(m, items) = [i \in DOMAIN m |-> price[m[i].sku] * m[i].qty]
      /\ Costs(items, m) = [i \in DOMAIN m |-> cost[m[i].sku] * m[i].qty]
  BY <1>4 DEF Weights, Costs
<1>6. /\ ListTotal(lines, items) = SumSeq([i \in DOMAIN lines |-> price[lines[i].sku] * lines[i].qty])
      /\ CostTotal(lines, items) = SumSeq([i \in DOMAIN lines |-> cost[lines[i].sku] * lines[i].qty])
  <2>1. [i \in DOMAIN lines |-> items[lines[i].sku].price * lines[i].qty]
          = [i \in DOMAIN lines |-> price[lines[i].sku] * lines[i].qty]
    BY <1>4
  <2>2. [i \in DOMAIN lines |-> items[lines[i].sku].cost * lines[i].qty]
          = [i \in DOMAIN lines |-> cost[lines[i].sku] * lines[i].qty]
    BY <1>4
  <2> QED BY <2>1, <2>2 DEF ListTotal, CostTotal
<1> HIDE DEF price, cost
<1> QED BY <1>3, <1>5, <1>6 DEF m

\* The margin is the net without the costs.
LEMMA MarginIs ==
  ASSUME NEW k \in Nat, NEW resolved \in [1 .. k -> CartLine], NEW items, NEW bps
  PROVE  LET t == Recompute(resolved, items, bps) IN
         /\ t.margin = t.net - SumSeq(Costs(items, resolved))
         /\ \A i \in 1 .. k : t.perLine[i].cost = items[resolved[i].sku].cost * resolved[i].qty
<1> DEFINE weights == Weights(resolved, items)
           perLine == Discounted(resolved, items, weights, Rebate(weights, bps))
           allocs == AllocateProportionally(Rebate(weights, bps), weights)
           t == Recompute(resolved, items, bps)
<1>1. t = SumUp(SumSeq(weights), perLine) /\ perLine = PricedLines(resolved, items, weights, allocs)
  BY DEF Recompute, Reweigh, Discounted
<1> HIDE DEF weights, allocs, t, perLine
<1>2. DOMAIN perLine = 1 .. k
      /\ \A i \in 1 .. k : perLine[i].cost = items[resolved[i].sku].cost * resolved[i].qty
  BY <1>1 DEF PricedLines
<1>3. [i \in DOMAIN perLine |-> perLine[i].cost] = Costs(items, resolved)
  BY <1>2 DEF Costs
<1> DEFINE net == SumSeq([i \in DOMAIN perLine |-> perLine[i].net])  cost == SumSeq(Costs(items, resolved))
<1>4. t = [gross |-> SumSeq(weights), net |-> net, margin |-> net - cost, perLine |-> perLine]
  BY <1>1, <1>3 DEF SumUp
<1> HIDE DEF net, cost
<1>5. t.net = net /\ t.margin = net - cost /\ t.perLine = perLine
  BY <1>4
<1> QED BY <1>2, <1>5 DEF t, cost

----------------------------------------------------------------------------
(* What the rules are asked of.                                            *)

LEMMA ContextHas ==
  ASSUME NEW in, GateReady(in)
  PROVE  LET c == BuildContext(in) IN
         /\ c.in = in /\ c.lines = Merged(in)
         /\ (c.structure <=> StructureOf(in.cart, Merged(in)))
         /\ c.resolved <=> SkusOf(in.cart.lines) \subseteq DOMAIN in.items
         /\ c.drifted <=> Disputed(in, c.totals.net)
         /\ c.structure => c.bps = ToBps(in.cart.pct)
<1> DEFINE m == Merged(in)  c == BuildContext(in)
           t1 == Recompute(Known(m, in.items), in.items, ToBps(in.cart.pct))
           t0 == Recompute(Known(m, in.items), Zeroed(in.items), 0)
<1>1. c = IF StructureOf(in.cart, m) THEN Context(in, m, TRUE, ToBps(in.cart.pct), t1)
          ELSE Context(in, m, FALSE, 0, t0)
  BY DEF BuildContext, Merged, ContextFor, ContextOf
<1> HIDE DEF c, t0, t1
<1>2. ASSUME NEW s, NEW b, NEW t, c = Context(in, m, s, b, t)
      PROVE  /\ c.in = in /\ c.lines = m /\ c.structure = s /\ c.bps = b /\ c.totals = t
             /\ c.resolved = (Known(m, in.items) = m)
             /\ c.drifted = Disputed(in, t.net)
  BY <1>2 DEF Context, Disputed
<1>3. /\ c.in = in /\ c.lines = m /\ (c.structure <=> StructureOf(in.cart, m))
      /\ c.resolved = (Known(m, in.items) = m) /\ c.drifted = Disputed(in, c.totals.net)
      /\ c.structure => c.bps = ToBps(in.cart.pct)
  <2>1. CASE StructureOf(in.cart, m)
    <3>1. c = Context(in, m, TRUE, ToBps(in.cart.pct), t1)
      BY <1>1, <2>1
    <3>2. /\ c.in = in /\ c.lines = m /\ c.structure = TRUE /\ c.bps = ToBps(in.cart.pct) /\ c.totals = t1
          /\ c.resolved = (Known(m, in.items) = m) /\ c.drifted = Disputed(in, t1.net)
      BY <1>2, <3>1
    <3> QED BY <2>1, <3>2
  <2>2. CASE ~StructureOf(in.cart, m)
    <3>1. c = Context(in, m, FALSE, 0, t0)
      BY <1>1, <2>2
    <3>2. /\ c.in = in /\ c.lines = m /\ c.structure = FALSE /\ c.totals = t0
          /\ c.resolved = (Known(m, in.items) = m) /\ c.drifted = Disputed(in, t0.net)
      BY <1>2, <3>1
    <3> QED BY <2>2, <3>2
  <2> QED BY <2>1, <2>2
<1>4. Known(m, in.items) = m <=> SkusOf(in.cart.lines) \subseteq DOMAIN in.items
  <2>1. PICK k \in Nat : m \in [1 .. k -> CartLine]
    BY MergeIs DEF GateReady, Merged
  <2>2. SkusOf(m) = SkusOf(in.cart.lines)
    BY MergedHas DEF GateReady, Merged
  <2> HIDE DEF m
  <2>3. Known(m, in.items) = m <=> \A i \in 1 .. k : m[i].sku \in DOMAIN in.items
    BY <2>1, KnownIs
  <2>4. SkusOf(m) = {m[i].sku : i \in 1 .. k}
    BY <2>1 DEF SkusOf
  <2>5. (\A i \in 1 .. k : m[i].sku \in DOMAIN in.items) <=> SkusOf(m) \subseteq DOMAIN in.items
    BY <2>4
  <2> QED BY <2>2, <2>3, <2>5
<1> HIDE DEF m
<1> QED BY <1>3, <1>4 DEF c, m

LEMMA StructureIs ==
  ASSUME NEW cart, cart.lines \in Seq(CartLine)
  PROVE  StructureOf(cart, MergeLines(cart.lines)) <=>
           /\ cart.lines # <<>> /\ cart.finite /\ cart.pct \in Percent
           /\ \A s \in SkusOf(cart.lines) : QtyOf(cart.lines, s) > 0
<1> DEFINE m == MergeLines(cart.lines)
<1>1. /\ SkusOf(m) = SkusOf(cart.lines) /\ (m = <<>> <=> cart.lines = <<>>)
      /\ \A i \in DOMAIN m : m[i].qty = QtyOf(cart.lines, m[i].sku)
  BY MergedHas
<1> HIDE DEF m
<1>2. SkusOf(m) = {m[i].sku : i \in DOMAIN m}
  BY DEF SkusOf
<1>3. (\A i \in DOMAIN m : m[i].qty > 0) <=> \A s \in SkusOf(cart.lines) : QtyOf(cart.lines, s) > 0
  BY <1>1, <1>2
<1>4. StructureOf(cart, m) <=> m # <<>> /\ cart.finite /\ cart.pct \in Percent /\ \A i \in DOMAIN m : m[i].qty > 0
  BY DEF StructureOf
<1> QED BY <1>1, <1>3, <1>4 DEF m

\* A cart is sound when its structure is and its skus are known.
LEMMA SoundnessIs ==
  ASSUME NEW in, GateReady(in)
  PROVE  SoundCart(in) <=> BuildContext(in).structure /\ BuildContext(in).resolved
<1>1. in.cart.lines \in Seq(CartLine)
  BY DEF GateReady
<1>2. StructureOf(in.cart, Merged(in)) <=>
           /\ in.cart.lines # <<>> /\ in.cart.finite /\ in.cart.pct \in Percent
           /\ \A s \in SkusOf(in.cart.lines) : QtyOf(in.cart.lines, s) > 0
  BY <1>1, StructureIs DEF Merged
<1>3. BuildContext(in).structure <=> StructureOf(in.cart, Merged(in))
  BY ContextHas
<1>4. BuildContext(in).resolved <=> SkusOf(in.cart.lines) \subseteq DOMAIN in.items
  BY ContextHas
<1> HIDE DEF SkusOf
<1> QED BY <1>2, <1>3, <1>4 DEF SoundCart

\* A sound cart is priced as the policy does.
LEMMA TotalsAre ==
  ASSUME NEW in, GateReady(in), SoundCart(in)
  PROVE  LET t == BuildContext(in).totals IN
         /\ t.net = NetTotal(in.cart, in.items) /\ t.net \in Nat
         /\ t.margin = t.net - CostTotal(in.cart.lines, in.items) /\ t.margin \in Int
         /\ BuildContext(in).bps = ToBps(in.cart.pct) /\ ToBps(in.cart.pct) \in BasisPoints
<1> DEFINE c == BuildContext(in)  m == Merged(in)  bps == ToBps(in.cart.pct)
<1>1. c.structure /\ c.resolved
  BY SoundnessIs
<1>2. StructureOf(in.cart, m) /\ c.totals = Recompute(Resolved(in), in.items, bps) /\ Resolved(in) = m
  BY <1>1, ContextIs
<1>3. PICK k \in Nat : Resolved(in) \in [1 .. k -> CartLine] /\ Priceable(in.items, Resolved(in), k)
  BY <1>2, SoundIs
<1>4. in.cart.pct \in Percent
  BY <1>2, SoundIs
<1>5. bps \in BasisPoints
  BY <1>4, BpsIs
<1>6. c.bps = bps
  BY <1>1, ContextHas
<1>7. SumSeq(Weights(m, in.items)) = ListTotal(in.cart.lines, in.items)
      /\ SumSeq(Costs(in.items, m)) = CostTotal(in.cart.lines, in.items)
  <2>1. in.cart.lines \in Seq(CartLine) /\ GroundTruth(in.items)
    BY DEF GateReady
  <2>2. SkusOf(in.cart.lines) \subseteq DOMAIN in.items
    BY <1>1, ContextHas
  <2> QED BY <2>1, <2>2, MergedTotals DEF Merged
<1> DEFINE t == Recompute(m, in.items, bps)
<1> HIDE DEF c, bps, m
<1>8. /\ Recomputed(t, k, m) /\ t.net = NetOf(SumSeq(Weights(m, in.items)), bps)
      /\ t.margin = t.net - SumSeq(Costs(in.items, m))
  <2>1. m \in [1 .. k -> CartLine] /\ Priceable(in.items, m, k)
    BY <1>2, <1>3
  <2>2. Recomputed(t, k, m) /\ t.net = NetOf(SumSeq(Weights(m, in.items)), bps)
    <3> HIDE DEF Recomputed, Priceable, NetOf
    <3> QED BY <1>5, <2>1, RecomputeIs
  <2>3. t.margin = t.net - SumSeq(Costs(in.items, m))
    BY <2>1, MarginIs
  <2> QED BY <2>2, <2>3
<1>9. SumSeq(Costs(in.items, m)) \in Int
  <2>1. Costs(in.items, m) \in [1 .. k -> Int]
    BY <1>2, <1>3 DEF Priceable
  <2> QED BY <2>1, SumIsInt
<1> HIDE DEF t
<1>10. t.net \in Nat
  BY <1>8 DEF Recomputed
<1>11. NetOf(SumSeq(Weights(m, in.items)), bps) = NetTotal(in.cart, in.items)
  BY <1>7 DEF NetOf, DiscountOf, NetTotal, bps
<1>12. c.totals = t
  BY <1>2 DEF t
<1> QED BY <1>5, <1>6, <1>7, <1>8, <1>9, <1>10, <1>11, <1>12 DEF c, bps

----------------------------------------------------------------------------
(* The rules of a sound cart.                                              *)

LEMMA PassIs ==
  ASSUME NEW ok
  PROVE  /\ PassIf(ok) = "FAIL" <=> ~ok
         /\ PassIf(ok) = "PASS" <=> ok
         /\ PassIf(ok) \in {"PASS", "FAIL"}
BY DEF PassIf

\* The limits are whole numbers.
LEMMA LimitsAre ==
  ASSUME NEW r, ReadyRules(r)
  PROVE  /\ r.maxValue \in Nat /\ r.maxDayValue \in Nat /\ r.maxSkew \in Nat /\ r.effectiveFrom \in Int
         /\ r.maxRequests \in Nat /\ r.maxAge \in Nat /\ r.driftPpm \in Nat
         /\ r.escalationsMax \in Nat /\ r.declinesMax \in Nat /\ r.injectionsMax \in Nat
         /\ r.maxDiscountPct \in Percent /\ r.marginFloorPct \in Percent
         /\ r.valueBandPct \in Percent /\ r.discountBandPct \in Percent
<1>1. ValidRules(r) /\ r.effectiveFrom \in Int
  BY DEF ReadyRules
<1>2. r.maxValue \in Paise /\ r.maxDayValue \in Paise /\ r.maxSkew \in Nat
  BY <1>1 DEF ValidRules
<1>3. /\ r.maxDiscountPct \in Percent /\ r.marginFloorPct \in Percent
      /\ r.valueBandPct \in Percent /\ r.discountBandPct \in Percent
  BY <1>1 DEF ValidRules
<1>4. /\ Positive(r.maxRequests) /\ Positive(r.maxAge) /\ Positive(r.driftPpm)
      /\ Positive(r.escalationsMax) /\ Positive(r.declinesMax) /\ Positive(r.injectionsMax)
  BY <1>1 DEF ValidRules
<1>5. /\ r.maxRequests \in Nat /\ r.maxAge \in Nat /\ r.driftPpm \in Nat
      /\ r.escalationsMax \in Nat /\ r.declinesMax \in Nat /\ r.injectionsMax \in Nat
  BY <1>4 DEF Positive
<1>6. r.maxValue \in Nat /\ r.maxDayValue \in Nat
  BY <1>2, PaiseAreNat
<1> QED BY <1>1, <1>2, <1>3, <1>5, <1>6

LEMMA RoundsToInt ==
  ASSUME NEW a \in Nat, NEW b \in Nat, NEW c \in Nat \ {0}
  PROVE  MulDivRoundHalfUp(a, b, c) \in Nat
<1> DEFINE x == a * b
<1>1. x \in Nat
  OBVIOUS
<1>2. MulDivRoundHalfUp(a, b, c) = IF (x % c) * 2 >= c THEN x \div c + 1 ELSE x \div c
  BY DEF MulDivRoundHalfUp
<1> HIDE DEF x
<1>3. x \div c \in Nat
  BY <1>1
<1> QED BY <1>2, <1>3

LEMMA EdgesAre ==
  ASSUME NEW r, ReadyRules(r)
  PROVE  /\ ValueBandLowerEdge(r) \in Int /\ DiscountBandLowerBps(r) \in Int
         /\ ToBps(r.maxDiscountPct) \in Int /\ ToBps(r.marginFloorPct) \in Nat
<1>1. /\ ToBps(r.valueBandPct) \in BasisPoints /\ ToBps(r.discountBandPct) \in BasisPoints
      /\ ToBps(r.maxDiscountPct) \in BasisPoints /\ ToBps(r.marginFloorPct) \in BasisPoints
  BY LimitsAre, BpsIs
<1>2. \A b \in BasisPoints : b \in Nat
  BY DEF BasisPoints
<1>3. r.maxValue \in Nat
  BY LimitsAre
<1>4. 10000 \in Nat \ {0}
  OBVIOUS
<1>5. MulDivRoundHalfUp(r.maxValue, ToBps(r.valueBandPct), 10000) \in Nat
  BY <1>1, <1>2, <1>3, <1>4, RoundsToInt
<1> DEFINE off == MulDivRoundHalfUp(r.maxValue, ToBps(r.valueBandPct), 10000)
           cap == ToBps(r.maxDiscountPct)  band == ToBps(r.discountBandPct)
<1>6. ValueBandLowerEdge(r) = r.maxValue - off /\ DiscountBandLowerBps(r) = cap - band
  BY DEF ValueBandLowerEdge, DiscountBandLowerBps
<1>7. off \in Int /\ cap \in Int /\ band \in Int
  BY <1>1, <1>2, <1>5
<1> HIDE DEF off, cap, band
<1>8. ValueBandLowerEdge(r) \in Int /\ DiscountBandLowerBps(r) \in Int
  BY <1>3, <1>6, <1>7
<1> QED BY <1>1, <1>2, <1>7, <1>8 DEF cap

\* A limit with a band under it.
Banded(value, limit, on, edge) ==
  IF value > limit THEN "FAIL" ELSE IF on /\ value \in edge .. limit - 1 THEN "BAND" ELSE "PASS"

LEMMA BandedIs ==
  ASSUME NEW value \in Int, NEW limit \in Int, NEW edge \in Int, NEW on
  PROVE  (CASE value > limit -> "FAIL"
            [] on /\ value >= edge /\ value < limit -> "BAND"
            [] OTHER -> "PASS") = Banded(value, limit, on, edge)
<1> DEFINE in == on /\ value >= edge /\ value < limit  over == value > limit
<1>1. /\ over => ~in
      /\ (on /\ value \in edge .. limit - 1) <=> in
  OBVIOUS
<1>2. (CASE over -> "FAIL" [] in -> "BAND" [] OTHER -> "PASS") = IF over THEN "FAIL" ELSE IF in THEN "BAND" ELSE "PASS"
  <2> HIDE DEF in, over
  <2> QED BY <1>1, Zenon
<1>3. (CASE value > limit -> "FAIL"
            [] on /\ value >= edge /\ value < limit -> "BAND"
            [] OTHER -> "PASS") = (CASE over -> "FAIL" [] in -> "BAND" [] OTHER -> "PASS")
  BY Zenon
<1>4. (IF over THEN "FAIL" ELSE IF in THEN "BAND" ELSE "PASS") = Banded(value, limit, on, edge)
  BY <1>1 DEF Banded
<1> QED BY <1>2, <1>3, <1>4, Zenon

\* A rule about every line is one about every sku and all that was asked of it.
LEMMA LinesSay ==
  ASSUME NEW in, GateReady(in), SoundCart(in)
  PROVE  LET c == BuildContext(in)  r == in.rules  skus == SkusOf(in.cart.lines) IN
         (CategoryAllowlist(c) = "FAIL" \/ StockAvailability(c) = "FAIL" \/ ExpiryGuard(c) = "FAIL") <=> Unsold(in)
<1> DEFINE c == BuildContext(in)  r == in.rules  skus == SkusOf(in.cart.lines)  m == Merged(in)
<1>1. c.in = in /\ c.lines = m
  BY ContextHas
<1>2. SkusOf(m) = skus /\ \A i \in DOMAIN m : m[i].qty = QtyOf(in.cart.lines, m[i].sku)
  BY MergedHas DEF GateReady, Merged
<1>3. skus \subseteq DOMAIN in.items
  BY Zenon DEF SoundCart
<1> HIDE DEF c, m, skus
<1>4. /\ \A i \in DOMAIN m : m[i].sku \in skus
      /\ \A s \in skus : \E i \in DOMAIN m : m[i].sku = s
  BY <1>2 DEF SkusOf
<1>5. CategoryAllowlist(c) = "FAIL" <=> ~r.allowAll /\ \E s \in skus : in.items[s].category \notin r.allowlist
  <2> DEFINE ok == r.allowAll \/ \A i \in DOMAIN m : m[i].sku \in DOMAIN in.items => in.items[m[i].sku].category \in r.allowlist
  <2>1. CategoryAllowlist(c) = PassIf(ok)
    BY <1>1 DEF CategoryAllowlist, EveryKnownLine
  <2>2. ok <=> r.allowAll \/ \A s \in skus : in.items[s].category \in r.allowlist
    BY <1>3, <1>4
  <2>3. CategoryAllowlist(c) = "FAIL" <=> ~ok
    <3> HIDE DEF ok
    <3> QED BY <2>1, PassIs
  <2> QED BY <2>2, <2>3
<1>6. StockAvailability(c) = "FAIL" <=>
        r.requireStock /\ \E s \in skus : ~(QtyOf(in.cart.lines, s) <= in.items[s].stock) /\ s \notin r.backorderSkus
  <2> DEFINE ok == ~r.requireStock \/ \A i \in DOMAIN m : m[i].sku \in DOMAIN in.items =>
                      (m[i].qty <= in.items[m[i].sku].stock \/ m[i].sku \in r.backorderSkus)
  <2>1. StockAvailability(c) = PassIf(ok)
    BY <1>1 DEF StockAvailability, EveryKnownLine
  <2>2. ok <=> ~r.requireStock \/ \A s \in skus : QtyOf(in.cart.lines, s) <= in.items[s].stock \/ s \in r.backorderSkus
    BY <1>2, <1>3, <1>4
  <2>3. StockAvailability(c) = "FAIL" <=> ~ok
    <3> HIDE DEF ok
    <3> QED BY <2>1, PassIs
  <2> QED BY <2>2, <2>3
<1>7. ExpiryGuard(c) = "FAIL" <=> r.blockExpired /\ \E s \in skus : IsExpired(in.items[s], in.now)
  <2> DEFINE ok == ~r.blockExpired \/ \A i \in DOMAIN m : m[i].sku \in DOMAIN in.items => ~IsExpired(in.items[m[i].sku], in.now)
  <2>1. ExpiryGuard(c) = PassIf(ok)
    BY <1>1 DEF ExpiryGuard, EveryKnownLine
  <2>2. ok <=> ~r.blockExpired \/ \A s \in skus : ~IsExpired(in.items[s], in.now)
    BY <1>3, <1>4
  <2>3. ExpiryGuard(c) = "FAIL" <=> ~ok
    <3> HIDE DEF ok
    <3> QED BY <2>1, PassIs
  <2> QED BY <2>2, <2>3
<1>8. \A s \in skus : QtyOf(in.cart.lines, s) \in Int /\ in.items[s].stock \in Int
  <2>1. DOMAIN in.cart.lines = 1 .. Len(in.cart.lines) /\ Len(in.cart.lines) \in Nat
        /\ \A i \in 1 .. Len(in.cart.lines) : in.cart.lines[i].qty \in Int
    <3>1. in.cart.lines \in Seq(CartLine)
      BY DEF GateReady
    <3>2. \A i \in 1 .. Len(in.cart.lines) : in.cart.lines[i] \in CartLine
      BY <3>1
    <3> QED BY <3>1, <3>2 DEF CartLine
  <2>2. \A s : QtyOf(in.cart.lines, s) \in Int
    BY <2>1, QtyIs
  <2>3. \A s \in DOMAIN in.items : in.items[s].stock \in Nat
    BY ItemIs DEF GateReady
  <2> QED BY <1>3, <2>2, <2>3
<1>9. \A s \in skus : ~(QtyOf(in.cart.lines, s) <= in.items[s].stock) <=> QtyOf(in.cart.lines, s) > in.items[s].stock
  BY <1>8
<1>10. Unsold(in) <=> \/ ~r.allowAll /\ \E s \in skus : in.items[s].category \notin r.allowlist
                      \/ r.requireStock /\ \E s \in skus : QtyOf(in.cart.lines, s) > in.items[s].stock /\ s \notin r.backorderSkus
                      \/ r.blockExpired /\ \E s \in skus : IsExpired(in.items[s], in.now)
  BY DEF Unsold, skus
<1> QED BY <1>5, <1>6, <1>7, <1>9, <1>10 DEF c

----------------------------------------------------------------------------
(* The verdict is the policy's.                                            *)

Alarms == {"BAND", "ESCALATE_TRIGGER", "UNAVAILABLE_INPUT"}

LEMMA SeverityIs ==
  ASSUME NEW i \in 1 .. 16
  PROVE  /\ Severity(RuleIds[i]) = "BLOCKER" <=> i \notin {2, 6, 15, 16}
         /\ Severity(RuleIds[i]) = "ESCALATE_IF_FAILED" <=> i \in {2, 6, 15, 16}
<1>1. RuleIds[i] \in {"EFFECTIVE", "DRIFT", "INJECTION", "OFFENDER"} <=> i \in {2, 6, 15, 16}
  BY Sixteen, RuleAt
<1> QED BY <1>1 DEF Severity

\* Twelve rules block and four escalate; an alarm of any rule escalates.
LEMMA BlockedIs ==
  ASSUME NEW t, Named(t)
  PROVE  LET failed(i) == t[i].status = "FAIL" IN
         /\ Blocked(t) <=> \/ failed(1) \/ failed(3) \/ failed(4) \/ failed(5) \/ failed(7) \/ failed(8)
                           \/ failed(9) \/ failed(10) \/ failed(11) \/ failed(12) \/ failed(13) \/ failed(14)
         /\ Doubted(t) <=> \/ failed(2) \/ failed(6) \/ failed(15) \/ failed(16)
                           \/ \E i \in 1 .. 16 : t[i].status \in Alarms
<1> DEFINE failed(i) == t[i].status = "FAIL"
<1>1. \A i \in 1 .. 16 :
        /\ Blocks(t[i]) <=> failed(i) /\ i \notin {2, 6, 15, 16}
        /\ Escalates(t[i]) <=> t[i].status \in Alarms \/ (failed(i) /\ i \in {2, 6, 15, 16})
  BY SeverityIs DEF Named, Blocks, Escalates, Alarms
<1> HIDE DEF failed
<1>2. Blocked(t) <=> \E i \in 1 .. 16 : failed(i) /\ i \notin {2, 6, 15, 16}
  BY <1>1 DEF Blocked
<1>3. Doubted(t) <=> \E i \in 1 .. 16 : t[i].status \in Alarms \/ (failed(i) /\ i \in {2, 6, 15, 16})
  BY <1>1 DEF Doubted
<1>4. Doubted(t) <=> \/ failed(2) \/ failed(6) \/ failed(15) \/ failed(16)
                     \/ \E i \in 1 .. 16 : t[i].status \in Alarms
  BY <1>3
<1>5. Blocked(t) => \/ failed(1) \/ failed(3) \/ failed(4) \/ failed(5) \/ failed(7) \/ failed(8)
                    \/ failed(9) \/ failed(10) \/ failed(11) \/ failed(12) \/ failed(13) \/ failed(14)
  <2>1. ASSUME NEW i \in 1 .. 16, failed(i), i \notin {2, 6, 15, 16}
        PROVE  \/ failed(1) \/ failed(3) \/ failed(4) \/ failed(5) \/ failed(7) \/ failed(8)
               \/ failed(9) \/ failed(10) \/ failed(11) \/ failed(12) \/ failed(13) \/ failed(14)
    BY <2>1, Sixteen
  <2> QED BY <1>2, <2>1
<1>6. (\/ failed(1) \/ failed(3) \/ failed(4) \/ failed(5) \/ failed(7) \/ failed(8)
       \/ failed(9) \/ failed(10) \/ failed(11) \/ failed(12) \/ failed(13) \/ failed(14)) => Blocked(t)
  BY <1>2
<1> QED BY <1>4, <1>5, <1>6 DEF failed

\* What is looked at before the cart is known to be sound.
LEMMA EarlyIs ==
  ASSUME NEW in, GateReady(in), ReadyRules(in.rules), in.now \in Int, in.cart.issued \in Int, in.cart.expires \in Int
  PROVE  LET c == BuildContext(in) IN
         /\ CitationGate(c) = PassIf(in.cart.audited)
         /\ RulesEffective(c) = PassIf(~(in.rules.effectiveFrom > in.now))
         /\ ProposalFreshness(c) = PassIf(~Untimely(in))
<1> DEFINE c == BuildContext(in)
<1>1. c.in = in
  BY ContextHas
<1>2. /\ CitationGate(c) = PassIf(in.cart.audited)
      /\ RulesEffective(c) = PassIf(in.rules.effectiveFrom <= in.now)
      /\ ProposalFreshness(c) =
           PassIf(/\ in.cart.issued - in.now <= in.rules.maxSkew * Second
                  /\ (in.now - in.cart.issued) \div Second <= in.rules.maxAge
                  /\ in.cart.expires >= in.now)
  <2> HIDE DEF c
  <2> QED BY <1>1 DEF CitationGate, RulesEffective, ProposalFreshness
<1>3. in.rules.effectiveFrom \in Int /\ in.rules.maxSkew \in Nat /\ in.rules.maxAge \in Nat
  BY LimitsAre
<1>4. (in.rules.effectiveFrom <= in.now) <=> ~(in.rules.effectiveFrom > in.now)
  BY <1>3
<1> DEFINE ahead == in.cart.issued - in.now  skew == in.rules.maxSkew * Second
           age == (in.now - in.cart.issued) \div Second
<1>5. ahead \in Int /\ skew \in Int /\ age \in Int
  BY <1>3 DEF Second
<1>6. Untimely(in) <=> ahead > skew \/ in.cart.expires < in.now \/ age > in.rules.maxAge
  BY DEF Untimely
<1> HIDE DEF ahead, skew, age
<1>7. (ahead <= skew /\ age <= in.rules.maxAge /\ in.cart.expires >= in.now) <=> ~Untimely(in)
  BY <1>3, <1>5, <1>6
<1>8. \A a, b : (a <=> b) => PassIf(a) = PassIf(b)
  BY DEF PassIf
<1> QED BY <1>2, <1>4, <1>7, <1>8 DEF ahead, skew, age, c

\* What the buyer's history says.
LEMMA HistoryIs ==
  ASSUME NEW in, GateReady(in), ReadyRules(in.rules), ReadyHistory(in.velocity)
  PROVE  LET c == BuildContext(in)  r == in.rules  v == in.velocity IN
         /\ VelocityRequests(c) = IF v.available THEN PassIf(~(v.requests >= r.maxRequests)) ELSE "UNAVAILABLE_INPUT"
         /\ c.totals.net \in Int =>
              VelocityValue(c) = IF v.available THEN PassIf(~(v.approved + c.totals.net > r.maxDayValue))
                                 ELSE "UNAVAILABLE_INPUT"
         /\ RepeatOffender(c) \in {"PASS", "SKIP", "ESCALATE_TRIGGER"}
         /\ RepeatOffender(c) = "ESCALATE_TRIGGER" <=>
              v.available /\ \/ v.escalations >= r.escalationsMax
                             \/ v.declines >= r.declinesMax
                             \/ v.injections >= r.injectionsMax
<1> DEFINE c == BuildContext(in)  r == in.rules  v == in.velocity  net == c.totals.net
           offends == \/ v.escalations >= r.escalationsMax
                      \/ v.declines >= r.declinesMax
                      \/ v.injections >= r.injectionsMax
<1>1. c.in = in
  BY ContextHas
<1>2. /\ VelocityRequests(c) = IF ~v.available THEN "UNAVAILABLE_INPUT" ELSE PassIf(v.requests + 1 <= r.maxRequests)
      /\ VelocityValue(c) = IF ~v.available THEN "UNAVAILABLE_INPUT" ELSE PassIf(v.approved + net <= r.maxDayValue)
      /\ RepeatOffender(c) = IF ~v.available THEN "SKIP" ELSE IF offends THEN "ESCALATE_TRIGGER" ELSE "PASS"
  <2> HIDE DEF c
  <2>1. /\ VelocityRequests(c) = IF ~v.available THEN "UNAVAILABLE_INPUT" ELSE PassIf(v.requests + 1 <= r.maxRequests)
        /\ VelocityValue(c) = IF ~v.available THEN "UNAVAILABLE_INPUT" ELSE PassIf(v.approved + net <= r.maxDayValue)
    BY <1>1 DEF VelocityRequests, VelocityValue
  <2>2. RepeatOffender(c) = IF ~v.available THEN "SKIP" ELSE IF offends THEN "ESCALATE_TRIGGER" ELSE "PASS"
    BY <1>1 DEF RepeatOffender
  <2> QED BY <2>1, <2>2
<1>3. v.available \in BOOLEAN /\ (v.available => v.requests \in Nat /\ v.approved \in Nat)
  BY DEF ReadyHistory, ValidHistory
<1>4. r.maxRequests \in Nat /\ r.maxDayValue \in Nat
  BY LimitsAre
<1>5. \A a, b : (a <=> b) => PassIf(a) = PassIf(b)
  BY DEF PassIf
<1>6. /\ RepeatOffender(c) \in {"PASS", "SKIP", "ESCALATE_TRIGGER"}
      /\ RepeatOffender(c) = "ESCALATE_TRIGGER" <=> v.available /\ offends
  <2> HIDE DEF offends, c
  <2> QED BY <1>2
<1>7. v.available => (v.requests + 1 <= r.maxRequests <=> ~(v.requests >= r.maxRequests))
  BY <1>3, <1>4
<1>8. net \in Int /\ v.available => (v.approved + net <= r.maxDayValue <=> ~(v.approved + net > r.maxDayValue))
  BY <1>3, <1>4
<1> HIDE DEF net, c
<1> QED BY <1>2, <1>5, <1>6, <1>7, <1>8 DEF net, c

\* The two rules with a band.
LEMMA BandsAre ==
  ASSUME NEW in, GateReady(in), ReadyRules(in.rules)
  PROVE  LET c == BuildContext(in)  r == in.rules IN
         /\ c.totals.net \in Int =>
              CartValue(c) = Banded(c.totals.net, r.maxValue, r.valueBandPct > 0, ValueBandLowerEdge(r))
         /\ c.bps \in Int =>
              DiscountCap(c) = Banded(c.bps, ToBps(r.maxDiscountPct), r.discountBandPct > 0, DiscountBandLowerBps(r))
<1> DEFINE c == BuildContext(in)  r == in.rules
<1>1. c.in = in
  BY ContextHas
<1>2. /\ r.maxValue \in Int /\ ToBps(r.maxDiscountPct) \in Int
      /\ ValueBandLowerEdge(r) \in Int /\ DiscountBandLowerBps(r) \in Int
  BY LimitsAre, EdgesAre
<1> DEFINE net == c.totals.net  bps == c.bps  cap == ToBps(r.maxDiscountPct)
           low == ValueBandLowerEdge(r)  lowBps == DiscountBandLowerBps(r)
<1> HIDE DEF c
<1>3. CartValue(c) = CASE net > r.maxValue -> "FAIL"
                       [] r.valueBandPct > 0 /\ net >= low /\ net < r.maxValue -> "BAND"
                       [] OTHER -> "PASS"
  BY <1>1, Zenon DEF CartValue
<1>4. DiscountCap(c) = CASE bps > cap -> "FAIL"
                         [] r.discountBandPct > 0 /\ bps >= lowBps /\ bps < cap -> "BAND"
                         [] OTHER -> "PASS"
  BY <1>1, Zenon DEF DiscountCap
<1> HIDE DEF net, bps, cap, low, lowBps, r
<1>5. net \in Int => CartValue(c) = Banded(net, r.maxValue, r.valueBandPct > 0, low)
  <2> SUFFICES ASSUME net \in Int PROVE CartValue(c) = Banded(net, r.maxValue, r.valueBandPct > 0, low)
    OBVIOUS
  <2>1. r.maxValue \in Int /\ low \in Int
    BY <1>2 DEF low
  <2> QED BY <1>3, <2>1, BandedIs, Zenon
<1>6. bps \in Int => DiscountCap(c) = Banded(bps, cap, r.discountBandPct > 0, lowBps)
  <2> SUFFICES ASSUME bps \in Int PROVE DiscountCap(c) = Banded(bps, cap, r.discountBandPct > 0, lowBps)
    OBVIOUS
  <2>1. cap \in Int /\ lowBps \in Int
    BY <1>2 DEF cap, lowBps
  <2> QED BY <1>4, <2>1, BandedIs, Zenon
<1> QED BY <1>5, <1>6 DEF net, bps, cap, low, lowBps, c, r

\* The entries of a sound cart.
SoundFate(t, in, net) ==
  LET r == in.rules
      v == in.velocity
      margin == net - CostTotal(in.cart.lines, in.items)
      bps == ToBps(in.cart.pct)
      yes(i, ok) == t[i].status = PassIf(ok)
  IN /\ yes(1, in.cart.audited) /\ yes(2, ~(r.effectiveFrom > in.now)) /\ yes(3, ~Untimely(in))
     /\ t[4].status = "PASS" /\ t[5].status = "PASS" /\ yes(6, ~Disputed(in, net))
     /\ t[7].status = Banded(net, r.maxValue, r.valueBandPct > 0, ValueBandLowerEdge(r))
     /\ t[8].status = Banded(bps, ToBps(r.maxDiscountPct), r.discountBandPct > 0, DiscountBandLowerBps(r))
     /\ t[9].status = IF t[6].status = "PASS"
                        THEN PassIf(CrossMarginHolds(margin, net, ToBps(r.marginFloorPct))) ELSE "SKIP"
     /\ {t[10].status, t[11].status, t[12].status} \subseteq {"PASS", "FAIL"}
     /\ (t[10].status = "FAIL" \/ t[11].status = "FAIL" \/ t[12].status = "FAIL") <=> Unsold(in)
     /\ t[13].status = IF v.available THEN PassIf(~(v.requests >= r.maxRequests)) ELSE "UNAVAILABLE_INPUT"
     /\ t[14].status = IF v.available THEN PassIf(~(v.approved + net > r.maxDayValue)) ELSE "UNAVAILABLE_INPUT"
     /\ t[15].status = IF in.suspected THEN "ESCALATE_TRIGGER" ELSE "PASS"
     /\ t[16].status \in {"PASS", "SKIP", "ESCALATE_TRIGGER"}
     /\ t[16].status = "ESCALATE_TRIGGER" <=>
          v.available /\ \/ v.escalations >= r.escalationsMax
                         \/ v.declines >= r.declinesMax
                         \/ v.injections >= r.injectionsMax

InputReady(in) ==
  /\ GateReady(in) /\ ReadyRules(in.rules) /\ ReadyHistory(in.velocity)
  /\ in.now \in Int /\ in.cart.issued \in Int /\ in.cart.expires \in Int

LEMMA SoundFateIs ==
  ASSUME NEW in, InputReady(in), SoundCart(in)
  PROVE  SoundFate(RunRules(BuildContext(in)), in, NetTotal(in.cart, in.items))
<1> DEFINE c == BuildContext(in)  t == RunRules(c)  r == in.rules  v == in.velocity
           net == NetTotal(in.cart, in.items)  margin == net - CostTotal(in.cart.lines, in.items)
           bps == ToBps(in.cart.pct)
<1>1. GateReady(in) /\ ReadyRules(r) /\ ReadyHistory(v) /\ in.now \in Int /\ in.cart.issued \in Int /\ in.cart.expires \in Int
  BY DEF InputReady
<1>2. Marked(t, c)
  BY TraceMarked
<1>3. c.structure /\ c.resolved /\ c.in = in /\ (c.drifted <=> Disputed(in, c.totals.net))
  BY <1>1, SoundnessIs, ContextHas
<1>4. c.totals.net = net /\ net \in Int /\ c.totals.margin = margin /\ c.bps = bps /\ bps \in Int
  <2>1. \A b \in BasisPoints : b \in Int
    BY DEF BasisPoints
  <2> QED BY <1>1, <2>1, TotalsAre
<1>5. /\ CitationGate(c) = PassIf(in.cart.audited) /\ RulesEffective(c) = PassIf(~(r.effectiveFrom > in.now))
      /\ ProposalFreshness(c) = PassIf(~Untimely(in))
  BY <1>1, EarlyIs
<1>6. /\ CartValue(c) = Banded(net, r.maxValue, r.valueBandPct > 0, ValueBandLowerEdge(r))
      /\ DiscountCap(c) = Banded(bps, ToBps(r.maxDiscountPct), r.discountBandPct > 0, DiscountBandLowerBps(r))
  <2> HIDE DEF c, net, bps
  <2> QED BY <1>1, <1>4, BandsAre DEF c
<1>7. (CategoryAllowlist(c) = "FAIL" \/ StockAvailability(c) = "FAIL" \/ ExpiryGuard(c) = "FAIL") <=> Unsold(in)
  BY <1>1, LinesSay
<1>8. /\ VelocityRequests(c) = IF v.available THEN PassIf(~(v.requests >= r.maxRequests)) ELSE "UNAVAILABLE_INPUT"
      /\ VelocityValue(c) = IF v.available THEN PassIf(~(v.approved + net > r.maxDayValue)) ELSE "UNAVAILABLE_INPUT"
      /\ RepeatOffender(c) \in {"PASS", "SKIP", "ESCALATE_TRIGGER"}
      /\ RepeatOffender(c) = "ESCALATE_TRIGGER" <=>
           v.available /\ \/ v.escalations >= r.escalationsMax
                          \/ v.declines >= r.declinesMax
                          \/ v.injections >= r.injectionsMax
  <2> HIDE DEF net
  <2> QED BY <1>1, <1>4, HistoryIs
<1> HIDE DEF c, net, bps, margin
<1>9. /\ CartStructure(c) = PassIf(c.structure) /\ SkuResolution(c) = PassIf(c.resolved)
      /\ TotalsDrift(c) = PassIf(~c.drifted)
      /\ MarginFloor(c) = PassIf(CrossMarginHolds(margin, net, ToBps(r.marginFloorPct)))
      /\ InjectionGuard(c) = IF in.suspected THEN "ESCALATE_TRIGGER" ELSE "PASS"
  BY <1>3, <1>4 DEF CartStructure, SkuResolution, TotalsDrift, MarginFloor, InjectionGuard
<1>10. {CategoryAllowlist(c), StockAvailability(c), ExpiryGuard(c)} \subseteq {"PASS", "FAIL"}
  <2>1. \A a : PassIf(a) \in {"PASS", "FAIL"}
    BY DEF PassIf
  <2> QED BY <2>1 DEF CategoryAllowlist, StockAvailability, ExpiryGuard
<1>11. \A a, b : (a <=> b) => PassIf(a) = PassIf(b)
  BY DEF PassIf
<1>12. CartStructure(c) = "PASS" /\ SkuResolution(c) = "PASS" /\ TotalsDrift(c) = PassIf(~Disputed(in, net))
  <2>1. PassIf(c.structure) = "PASS" /\ PassIf(c.resolved) = "PASS"
    BY <1>3 DEF PassIf
  <2> QED BY <1>3, <1>4, <1>9, <1>11, <2>1
<1> HIDE DEF t
<1>13. /\ t[1].status = CitationGate(c) /\ t[2].status = RulesEffective(c) /\ t[3].status = ProposalFreshness(c)
       /\ t[4].status = "PASS" /\ t[5].status = "PASS" /\ t[6].status = TotalsDrift(c) /\ t[7].status = CartValue(c)
       /\ t[8].status = DiscountCap(c)
       /\ t[9].status = IF t[6].status = "PASS" THEN MarginFloor(c) ELSE "SKIP"
       /\ t[10].status = CategoryAllowlist(c) /\ t[11].status = StockAvailability(c)
       /\ t[12].status = ExpiryGuard(c) /\ t[13].status = VelocityRequests(c)
       /\ t[14].status = VelocityValue(c) /\ t[15].status = InjectionGuard(c)
       /\ t[16].status = RepeatOffender(c)
  BY <1>2, <1>12 DEF Marked
<1>14. SoundFate(t, in, net)
  BY <1>5, <1>6, <1>7, <1>8, <1>9, <1>10, <1>12, <1>13 DEF SoundFate, margin, bps
<1> QED BY <1>14 DEF t, c, net

LEMMA BandedSays ==
  ASSUME NEW value \in Int, NEW limit \in Int, NEW edge \in Int, NEW on
  PROVE  LET b == Banded(value, limit, on, edge) IN
         /\ b \in {"PASS", "FAIL", "BAND"}
         /\ b = "FAIL" <=> value > limit
         /\ b = "BAND" <=> on /\ value \in edge .. limit - 1
BY DEF Banded

\* The verdict on a sound cart.
LEMMA SoundOutcome ==
  ASSUME NEW in, InputReady(in), SoundCart(in), NEW t, Named(t), NEW net \in Int, SoundFate(t, in, net),
         ToBps(in.cart.pct) \in Int
  PROVE  /\ Blocked(t) <=> Refused(in, net)
         /\ ~Blocked(t) => (Doubted(t) <=> Doubtful(in, net))
<1> DEFINE r == in.rules  v == in.velocity  margin == net - CostTotal(in.cart.lines, in.items)
           bps == ToBps(in.cart.pct)  cap == ToBps(r.maxDiscountPct)
           low == ValueBandLowerEdge(r)  lowBps == DiscountBandLowerBps(r)
           holds == CrossMarginHolds(margin, net, ToBps(r.marginFloorPct))
           late == Untimely(in)  disputed == Disputed(in, net)  unsold == Unsold(in)
           over == net > r.maxValue  overBps == bps > cap
           band == r.valueBandPct > 0 /\ net \in low .. r.maxValue - 1
           bandBps == r.discountBandPct > 0 /\ bps \in lowBps .. cap - 1
           many == v.requests >= r.maxRequests  dear == v.approved + net > r.maxDayValue
           offends == \/ v.escalations >= r.escalationsMax
                      \/ v.declines >= r.declinesMax
                      \/ v.injections >= r.injectionsMax
           future == r.effectiveFrom > in.now
           failed(i) == t[i].status = "FAIL"  alarmed(i) == t[i].status \in Alarms
<1>1. r.maxValue \in Int /\ cap \in Int /\ low \in Int /\ lowBps \in Int
  BY LimitsAre, EdgesAre DEF InputReady
<1>2. /\ t[7].status \in {"PASS", "FAIL", "BAND"} /\ (failed(7) <=> over) /\ (t[7].status = "BAND" <=> band)
      /\ t[8].status \in {"PASS", "FAIL", "BAND"} /\ (failed(8) <=> overBps) /\ (t[8].status = "BAND" <=> bandBps)
  <2>1. /\ t[7].status = Banded(net, r.maxValue, r.valueBandPct > 0, low)
        /\ t[8].status = Banded(bps, cap, r.discountBandPct > 0, lowBps)
    BY DEF SoundFate
  <2> HIDE DEF low, lowBps, cap, bps, r
  <2>2. LET b == Banded(net, r.maxValue, r.valueBandPct > 0, low) IN
        b \in {"PASS", "FAIL", "BAND"} /\ (b = "FAIL" <=> net > r.maxValue)
        /\ (b = "BAND" <=> r.valueBandPct > 0 /\ net \in low .. r.maxValue - 1)
    BY <1>1, BandedSays
  <2>3. bps \in Int
    BY DEF bps
  <2>4. LET b == Banded(bps, cap, r.discountBandPct > 0, lowBps) IN
        b \in {"PASS", "FAIL", "BAND"} /\ (b = "FAIL" <=> bps > cap)
        /\ (b = "BAND" <=> r.discountBandPct > 0 /\ bps \in lowBps .. cap - 1)
    BY <1>1, <2>3, BandedSays
  <2> QED BY <2>1, <2>2, <2>4
<1>3. /\ t[1].status = PassIf(in.cart.audited) /\ t[2].status = PassIf(~future) /\ t[3].status = PassIf(~late)
      /\ t[4].status = "PASS" /\ t[5].status = "PASS" /\ t[6].status = PassIf(~disputed)
      /\ t[9].status = IF t[6].status = "PASS" THEN PassIf(holds) ELSE "SKIP"
      /\ {t[10].status, t[11].status, t[12].status} \subseteq {"PASS", "FAIL"}
      /\ (failed(10) \/ failed(11) \/ failed(12)) <=> unsold
      /\ t[13].status = IF v.available THEN PassIf(~many) ELSE "UNAVAILABLE_INPUT"
      /\ t[14].status = IF v.available THEN PassIf(~dear) ELSE "UNAVAILABLE_INPUT"
      /\ t[15].status = IF in.suspected THEN "ESCALATE_TRIGGER" ELSE "PASS"
      /\ t[16].status \in {"PASS", "SKIP", "ESCALATE_TRIGGER"}
      /\ t[16].status = "ESCALATE_TRIGGER" <=> v.available /\ offends
  BY DEF SoundFate
<1>4. Refused(in, net) <=> \/ ~in.cart.audited \/ late \/ unsold \/ overBps \/ over
                           \/ (~disputed /\ ~holds) \/ (v.available /\ (many \/ dear))
  BY Zenon DEF Refused
<1>5. Doubtful(in, net) <=> \/ future \/ disputed \/ in.suspected \/ ~v.available \/ band \/ bandBps \/ offends
  BY DEF Doubtful
<1> HIDE DEF holds, late, disputed, unsold, over, overBps, band, bandBps, many, dear, offends, future, r, v
<1>6. /\ (failed(1) <=> ~in.cart.audited) /\ (failed(2) <=> future) /\ (failed(3) <=> late)
      /\ ~failed(4) /\ ~failed(5) /\ (failed(6) <=> disputed) /\ (failed(9) <=> ~disputed /\ ~holds)
      /\ (failed(13) <=> v.available /\ many) /\ (failed(14) <=> v.available /\ dear)
      /\ ~failed(15) /\ ~failed(16)
      /\ ~alarmed(1) /\ ~alarmed(2) /\ ~alarmed(3) /\ ~alarmed(4) /\ ~alarmed(5) /\ ~alarmed(6) /\ ~alarmed(9)
      /\ (alarmed(7) <=> band) /\ (alarmed(8) <=> bandBps)
      /\ ~alarmed(10) /\ ~alarmed(11) /\ ~alarmed(12)
      /\ (alarmed(13) <=> ~v.available) /\ (alarmed(14) <=> ~v.available)
      /\ (alarmed(15) <=> in.suspected) /\ (alarmed(16) <=> v.available /\ offends)
  <2>1. /\ (failed(1) <=> ~in.cart.audited) /\ (failed(2) <=> future) /\ (failed(3) <=> late)
        /\ ~failed(4) /\ ~failed(5) /\ (failed(6) <=> disputed) /\ (t[6].status = "PASS" <=> ~disputed)
        /\ ~alarmed(1) /\ ~alarmed(2) /\ ~alarmed(3) /\ ~alarmed(4) /\ ~alarmed(5) /\ ~alarmed(6)
    BY <1>3 DEF PassIf, Alarms
  <2>2. (failed(9) <=> ~disputed /\ ~holds) /\ ~alarmed(9)
    BY <1>3, <2>1 DEF PassIf, Alarms
  <2>3. /\ (failed(13) <=> v.available /\ many) /\ (failed(14) <=> v.available /\ dear)
        /\ (alarmed(13) <=> ~v.available) /\ (alarmed(14) <=> ~v.available)
    BY <1>3 DEF PassIf, Alarms
  <2>4. /\ ~failed(15) /\ ~failed(16) /\ (alarmed(15) <=> in.suspected) /\ (alarmed(16) <=> v.available /\ offends)
    BY <1>3 DEF Alarms
  <2>5. (alarmed(7) <=> band) /\ (alarmed(8) <=> bandBps) /\ ~alarmed(10) /\ ~alarmed(11) /\ ~alarmed(12)
    BY <1>2, <1>3 DEF Alarms
  <2> QED BY <2>1, <2>2, <2>3, <2>4, <2>5
<1>7. Blocked(t) <=> Refused(in, net)
  <2>1. Blocked(t) <=> \/ failed(1) \/ failed(3) \/ failed(4) \/ failed(5) \/ failed(7) \/ failed(8)
                       \/ failed(9) \/ failed(10) \/ failed(11) \/ failed(12) \/ failed(13) \/ failed(14)
    BY BlockedIs
  <2> HIDE DEF failed, alarmed
  <2> QED BY <1>2, <1>3, <1>4, <1>6, <2>1
<1>8. Doubted(t) <=> Doubtful(in, net)
  <2>1. Doubted(t) <=> \/ failed(2) \/ failed(6) \/ failed(15) \/ failed(16) \/ \E i \in 1 .. 16 : alarmed(i)
    BY BlockedIs
  <2> HIDE DEF failed, alarmed
  <2>2. (\E i \in 1 .. 16 : alarmed(i)) <=> band \/ bandBps \/ ~v.available \/ in.suspected \/ (v.available /\ offends)
    <3>1. ASSUME NEW i \in 1 .. 16, alarmed(i)
          PROVE  alarmed(7) \/ alarmed(8) \/ alarmed(13) \/ alarmed(14) \/ alarmed(15) \/ alarmed(16)
      BY <3>1, <1>6, Sixteen
    <3>2. (\E i \in 1 .. 16 : alarmed(i)) <=>
            alarmed(7) \/ alarmed(8) \/ alarmed(13) \/ alarmed(14) \/ alarmed(15) \/ alarmed(16)
      BY <3>1
    <3> QED BY <1>6, <3>2
  <2>3. Doubted(t) <=> future \/ disputed \/ band \/ bandBps \/ ~v.available \/ in.suspected \/ (v.available /\ offends)
    BY <1>6, <2>1, <2>2
  <2> QED BY <1>5, <2>3
<1> QED BY <1>7, <1>8

LEMMA OutcomeIs ==
  ASSUME NEW in, InputReady(in)
  PROVE  EvaluateProposal(in).outcome = PolicyOutcome(in)
<1> DEFINE c == BuildContext(in)  t == RunRules(c)  net == NetTotal(in.cart, in.items)
           outcome == EvaluateProposal(in).outcome
<1>1. Marked(t, c) /\ GateReady(in)
  BY TraceMarked DEF InputReady
<1>2. PICK X : t \in Seq(X) /\ Len(t) = 16
  BY TraceMarked
<1>3. outcome = IF Blocked(t) THEN "DECLINE" ELSE IF Doubted(t) THEN "ESCALATE" ELSE "APPROVE"
  <2>1. EvaluateProposal(in) = Aggregate(t, c.totals)
    BY DEF EvaluateProposal, Decide
  <2> HIDE DEF t, c
  <2> QED BY <1>2, <2>1, AggregateIs
<1>4. PolicyOutcome(in) = IF Refused(in, net) THEN "DECLINE" ELSE IF Doubtful(in, net) THEN "ESCALATE" ELSE "APPROVE"
  BY DEF PolicyOutcome
<1>5. Named(t)
  BY <1>1 DEF Marked
<1>6. CASE SoundCart(in)
  <2>1. net \in Int /\ ToBps(in.cart.pct) \in Int
    <3>1. \A b \in BasisPoints : b \in Int
      BY DEF BasisPoints
    <3> QED BY <1>1, <1>6, <3>1, TotalsAre
  <2>2. SoundFate(t, in, net)
    BY <1>6, SoundFateIs
  <2> HIDE DEF t, c, net, outcome
  <2>3. (Blocked(t) <=> Refused(in, net)) /\ (~Blocked(t) => (Doubted(t) <=> Doubtful(in, net)))
    BY <1>5, <1>6, <2>1, <2>2, SoundOutcome
  <2> QED BY <1>3, <1>4, <2>3 DEF outcome
<1>7. CASE ~SoundCart(in)
  <2>1. ~c.structure \/ ~c.resolved
    BY <1>1, <1>7, SoundnessIs
  <2> HIDE DEF c
  <2>2. t[4].status = PassIf(c.structure) /\ t[5].status = IF t[4].status = "PASS" THEN PassIf(c.resolved) ELSE "SKIP"
    BY <1>1 DEF Marked, CartStructure, SkuResolution
  <2> HIDE DEF t
  <2>3. t[4].status = "FAIL" \/ t[5].status = "FAIL"
    BY <2>1, <2>2 DEF PassIf
  <2>4. Blocked(t)
    BY <1>5, <2>3, BlockedIs
  <2>5. Refused(in, net)
    BY <1>7 DEF Refused
  <2> QED BY <1>3, <1>4, <2>4, <2>5
<1> QED BY <1>6, <1>7

----------------------------------------------------------------------------
(* The amounts are safe.                                                   *)

\* One of some numbers is the largest.
LEMMA LargestIs ==
  ASSUME NEW k \in Nat \ {0}, NEW p \in [1 .. k -> Nat]
  PROVE  \E j \in 1 .. k : \A i \in 1 .. k : p[i] <= p[j]
<1> DEFINE B == {m \in Nat : \A i \in 1 .. k : p[i] <= m}
<1>1. B # {}
  BY SumIsNat
<1>2. PICK m \in B : \A x \in B : m <= x
  <2> HIDE DEF B
  <2>1. B \subseteq Nat
    BY DEF B
  <2> QED BY <1>1, <2>1, LeastNat
<1>3. \E j \in 1 .. k : p[j] = m
  <2> SUFFICES ASSUME \A j \in 1 .. k : p[j] # m PROVE FALSE
    OBVIOUS
  <2>1. m \in Nat /\ \A j \in 1 .. k : p[j] \in Nat /\ p[j] < m
    OBVIOUS
  <2>2. m - 1 \in Nat
    <3>1. 1 \in 1 .. k
      OBVIOUS
    <3>2. p[1] \in Nat /\ p[1] < m
      BY <2>1, <3>1
    <3> QED BY <2>1, <3>2
  <2>3. \A j \in 1 .. k : p[j] <= m - 1
    BY <2>1
  <2>4. m - 1 \in B
    BY <2>2, <2>3
  <2>5. m <= m - 1
    <3> HIDE DEF B
    <3> QED BY <1>2, <2>4
  <2> QED BY <2>1, <2>5
<1> QED BY <1>3

\* What is kept of distinct lines is distinct.
LEMMA KnownDistinct ==
  ASSUME NEW m \in Nat, NEW lines \in [1 .. m -> CartLine], NEW items,
         \A i, j \in 1 .. m : lines[i].sku = lines[j].sku => i = j
  PROVE  \A i, j \in DOMAIN Known(lines, items) :
           Known(lines, items)[i].sku = Known(lines, items)[j].sku => i = j
<1> DEFINE P == {i \in DOMAIN lines : lines[i].sku \in DOMAIN items}  at == Sorted(P)  n == Cardinality(P)
<1>1. Known(lines, items) = [i \in DOMAIN at |-> lines[at[i]]]
  BY DEF Known, Picked
<1>2. P \subseteq 1 .. m /\ P \in SUBSET Nat /\ IsFiniteSet(P)
  <2>1. IsFiniteSet(1 .. m)
    <3>1. 1 \in Int /\ m \in Int
      OBVIOUS
    <3> QED BY <3>1, FS_Interval
  <2>2. P \subseteq 1 .. m
    OBVIOUS
  <2> HIDE DEF P
  <2>3. P \in SUBSET Nat
    BY <2>2
  <2> QED BY <2>1, <2>2, <2>3, FS_Subset
<1> HIDE DEF P, at, n
<1>3. at \in [1 .. n -> P] /\ \A i, j \in 1 .. n : at[i] = at[j] => i = j
  BY <1>2, SortedIs DEF at, n
<1>4. \A i \in 1 .. n : at[i] \in 1 .. m
  BY <1>2, <1>3
<1> QED BY <1>1, <1>3, <1>4

LEMMA UnitsAreNat ==
  ASSUME NEW lines \in Seq(CartLine)
  PROVE  /\ UnitsOf(lines) \in Nat
         /\ \A s : QtyOf(lines, s) \in Int /\ QtyOf(lines, s) <= UnitsOf(lines)
<1> DEFINE n == Len(lines)  u == [i \in 1 .. n |-> Larger(0, lines[i].qty)]
<1>1. n \in Nat /\ DOMAIN lines = 1 .. n /\ \A i \in 1 .. n : lines[i] \in CartLine
  OBVIOUS
<1> HIDE DEF n
<1>2. \A i \in 1 .. n : lines[i].qty \in Int
  BY <1>1 DEF CartLine
<1>3. u \in [1 .. n -> Nat] /\ UnitsOf(lines) = SumSeq(u)
  BY <1>1, <1>2 DEF UnitsOf, Larger
<1>4. ASSUME NEW s PROVE QtyOf(lines, s) \in Int /\ QtyOf(lines, s) <= SumSeq(u)
  <2> DEFINE q == [i \in 1 .. n |-> IF lines[i].sku = s THEN lines[i].qty ELSE 0]
  <2>1. QtyOf(lines, s) = SumSeq(q)
    BY <1>1 DEF QtyOf
  <2>2. q \in [1 .. n -> Int] /\ u \in [1 .. n -> Int] /\ \A i \in 1 .. n : q[i] <= u[i]
    BY <1>2 DEF Larger
  <2> HIDE DEF q, u
  <2> QED BY <1>1, <2>1, <2>2, SumCompares, SumIsInt
<1> HIDE DEF u
<1> QED BY <1>1, <1>3, <1>4, SumIsNat

LEMMA ProductGrows ==
  ASSUME NEW x \in Int, NEW y \in Int, NEW a \in Int, NEW b \in Int, 0 <= x, x <= y, a <= b, 0 <= b
  PROVE  x * a <= y * b
<1>1. x * (b - a) >= 0 /\ x * (b - a) = x * b - x * a
  OBVIOUS
<1>2. (y - x) * b >= 0 /\ (y - x) * b = y * b - x * b
  OBVIOUS
<1>3. x * a \in Int /\ x * b \in Int /\ y * b \in Int
  OBVIOUS
<1> QED BY <1>1, <1>2, <1>3

\* Distinct lines, each with all the units asked of its sku, at no more than c a unit.
Keeps(lines, kept, k) ==
  /\ lines \in Seq(CartLine) /\ k \in Nat /\ kept \in [1 .. k -> CartLine]
  /\ \A i, j \in 1 .. k : kept[i].sku = kept[j].sku => i = j
  /\ \A i \in 1 .. k : kept[i].qty = QtyOf(lines, kept[i].sku)

PricedUnder(price, kept, c) ==
  /\ price \in [SkusOf(kept) -> Nat] /\ c \in Nat
  /\ \A s \in SkusOf(kept) : price[s] <= c

LEMMA GrossIsBounded ==
  ASSUME NEW lines, NEW k, NEW kept, NEW price, NEW c, Keeps(lines, kept, k), PricedUnder(price, kept, c)
  PROVE  SumSeq([i \in 1 .. k |-> price[kept[i].sku] * kept[i].qty]) <= c * UnitsOf(lines)
<1> DEFINE n == Len(lines)  S == SkusOf(kept)  none == 0 - 1  K == S \cup {none}
           w == [s \in K |-> IF s \in S THEN price[s] ELSE 0]
           order == [j \in 1 .. k + 1 |-> IF j <= k THEN kept[j].sku ELSE none]
           key == [i \in 1 .. n |-> IF lines[i].sku \in S THEN lines[i].sku ELSE none]
           qty == [i \in 1 .. n |-> lines[i].qty]
           worth == [i \in 1 .. k |-> price[kept[i].sku] * kept[i].qty]
           u == [i \in 1 .. n |-> Larger(0, lines[i].qty)]
<1>1. n \in Nat /\ DOMAIN lines = 1 .. n /\ \A i \in 1 .. n : lines[i] \in CartLine
  BY DEF Keeps
<1>0. /\ k \in Nat /\ kept \in [1 .. k -> CartLine]
      /\ \A i, j \in 1 .. k : kept[i].sku = kept[j].sku => i = j
      /\ price \in [S -> Nat] /\ c \in Nat /\ \A s \in S : price[s] <= c
  BY DEF Keeps, PricedUnder
<1> HIDE DEF n
<1>2. \A i \in 1 .. n : lines[i].qty \in Int /\ lines[i].sku \in Nat
  BY <1>1 DEF CartLine
<1>3. \A j \in 1 .. k : kept[j].qty \in Int /\ kept[j].sku \in Nat
  <2>1. \A j \in 1 .. k : kept[j] \in CartLine
    BY <1>0
  <2> QED BY <2>1 DEF CartLine
<1>4. S = {kept[j].sku : j \in 1 .. k} /\ S \subseteq Nat /\ none \notin S
  <2>1. S = {kept[j].sku : j \in 1 .. k}
    BY <1>0 DEF SkusOf
  <2>2. \A j \in 1 .. k : kept[j].sku # none
    BY <1>3
  <2> QED BY <1>3, <2>1, <2>2
<1> HIDE DEF S, none
<1>5. w \in [K -> Nat] /\ w[none] = 0 /\ \A s \in S : w[s] = price[s] /\ s # none
  BY <1>0, <1>4
<1>6. \A s \in K : w[s] \in Nat /\ w[s] <= c
  BY <1>0, <1>4, <1>5
<1>7. /\ order \in [1 .. k + 1 -> K] /\ order[k + 1] = none
      /\ \A j \in 1 .. k : order[j] = kept[j].sku /\ order[j] \in S
  BY <1>0, <1>4
<1>8. key \in [1 .. n -> K] /\ qty \in [1 .. n -> Int]
  BY <1>2
<1>9. \A i, j \in 1 .. k + 1 : order[i] = order[j] => i = j
  <2> SUFFICES ASSUME NEW i \in 1 .. k + 1, NEW j \in 1 .. k + 1, order[i] = order[j] PROVE i = j
    OBVIOUS
  <2> HIDE DEF order
  <2>1. \A x \in 1 .. k : order[x] # order[k + 1]
    BY <1>0, <1>4, <1>7
  <2>2. CASE i \in 1 .. k /\ j \in 1 .. k
    BY <1>0, <1>7, <2>2
  <2>3. CASE i = k + 1 \/ j = k + 1
    <3>1. (i \in 1 .. k \/ i = k + 1) /\ (j \in 1 .. k \/ j = k + 1)
      BY <1>0
    <3> QED BY <2>1, <2>3, <3>1
  <2> QED BY <1>0, <2>2, <2>3
<1>10. \A i \in 1 .. n : \E j \in 1 .. k + 1 : order[j] = key[i]
  <2> TAKE i \in 1 .. n
  <2> HIDE DEF order
  <2>1. CASE lines[i].sku \in S
    <3>1. PICK j \in 1 .. k : kept[j].sku = lines[i].sku
      BY <1>0, <1>4, <2>1
    <3>2. j \in 1 .. k + 1 /\ order[j] = key[i]
      BY <1>0, <1>7, <2>1, <3>1
    <3> QED BY <3>2
  <2>2. CASE lines[i].sku \notin S
    <3>1. k + 1 \in 1 .. k + 1 /\ key[i] = none
      BY <1>0, <2>2
    <3> QED BY <1>7, <3>1
  <2> QED BY <2>1, <2>2
<1>11. Groups(K, w, order, key, qty, k + 1, n)
  <2>1. w \in [K -> Int] /\ k + 1 \in Nat
    BY <1>0, <1>5
  <2> HIDE DEF w, order, key, qty, K
  <2> QED BY <1>1, <1>7, <1>8, <1>9, <1>10, <2>1 DEF Groups
<1>12. \A j \in 1 .. k : Part(key, qty, kept[j].sku) = kept[j].qty
  <2> TAKE j \in 1 .. k
  <2>0. kept[j].qty = QtyOf(lines, kept[j].sku)
    BY DEF Keeps
  <2>1. kept[j].sku \in S /\ kept[j].sku # none
    BY <1>0, <1>4, <1>5, <1>7
  <2>2. [i \in DOMAIN key |-> IF key[i] = kept[j].sku THEN qty[i] ELSE 0]
          = [i \in DOMAIN lines |-> IF lines[i].sku = kept[j].sku THEN lines[i].qty ELSE 0]
    BY <1>1, <2>1
  <2> QED BY <2>0, <2>2 DEF Part, QtyOf
<1>13. \A s : Part(key, qty, s) \in Int
  <2> TAKE s
  <2>1. [i \in DOMAIN key |-> IF key[i] = s THEN qty[i] ELSE 0] \in [1 .. n -> Int]
    BY <1>2
  <2> QED BY <1>1, <2>1, SumIsInt DEF Part
<1> DEFINE per == PerKey(w, order, key, qty, k + 1)
<1>14. /\ per \in [1 .. k + 1 -> Int] /\ \A i \in 1 .. k : per[i] = worth[i]
       /\ worth \in [1 .. k -> Int] /\ per[k + 1] = 0
  <2> HIDE DEF w, order, key, qty, K
  <2>1. \A j \in 1 .. k + 1 : per[j] = w[order[j]] * Part(key, qty, order[j]) /\ order[j] \in K
    BY <1>7 DEF PerKey
  <2>2. \A j \in 1 .. k + 1 : per[j] \in Int
    <3> TAKE j \in 1 .. k + 1
    <3>1. w[order[j]] \in Nat /\ Part(key, qty, order[j]) \in Int
      BY <1>6, <1>13, <2>1
    <3>2. \A x \in Nat, y \in Int : x * y \in Int
      OBVIOUS
    <3> QED BY <2>1, <3>1, <3>2
  <2>3. \A j \in 1 .. k : per[j] = price[kept[j].sku] * kept[j].qty
    <3> TAKE j \in 1 .. k
    <3>1. w[order[j]] = price[kept[j].sku] /\ order[j] = kept[j].sku /\ j \in 1 .. k + 1
      BY <1>0, <1>5, <1>7
    <3> QED BY <1>12, <2>1, <3>1
  <2>4. per[k + 1] = 0
    <3>1. k + 1 \in 1 .. k + 1
      BY <1>0
    <3> QED BY <1>5, <1>7, <1>13, <2>1, <3>1
  <2>5. per \in [1 .. k + 1 -> Int]
    BY <2>2 DEF PerKey
  <2>6. worth \in [1 .. k -> Int] /\ \A i \in 1 .. k : per[i] = worth[i]
    <3>1. \A i \in 1 .. k : worth[i] \in Int /\ per[i] = worth[i]
      BY <1>0, <2>2, <2>3
    <3> QED BY <3>1
  <2> QED BY <2>4, <2>5, <2>6
<1> DEFINE z == [i \in 1 .. 1 |-> 0]
<1>15. SumSeq(per) = SumSeq(worth)
  <2>1. z \in [1 .. 1 -> Int] /\ \A i \in 1 .. 1 : z[i] = 0 /\ per[k + i] = z[i]
    BY <1>14
  <2> HIDE DEF per, worth, z
  <2>2. SumSeq(z) = 0
    BY <2>1, SumOfZeros
  <2>3. SumSeq(per) = SumSeq(worth) + SumSeq(z)
    <3> DEFINE one == 1
    <3>1. one \in Nat /\ z \in [1 .. one -> Int] /\ \A i \in 1 .. one : per[k + i] = z[i]
      BY <2>1
    <3>2. per \in [1 .. k + one -> Int] /\ worth \in [1 .. k -> Int] /\ \A i \in 1 .. k : per[i] = worth[i]
      BY <1>14
    <3>3. k \in Nat
      BY <1>0
    <3> HIDE DEF one
    <3> HIDE DEF S, K, w, order, key, qty, u
    <3> QED BY <3>1, <3>2, <3>3, SumJoins, ZenonT(60)
  <2>4. SumSeq(worth) \in Int
    BY <1>0, <1>14, SumIsInt
  <2> QED BY <2>2, <2>3, <2>4
<1> DEFINE mem == PerMember(w, key, qty, n)  cu == [i \in 1 .. n |-> c * u[i]]
<1>16. mem \in [1 .. n -> Int] /\ cu \in [1 .. n -> Int] /\ u \in [1 .. n -> Int] /\ \A i \in 1 .. n : mem[i] <= cu[i]
  <2>1. \A i \in 1 .. n : u[i] \in Nat /\ qty[i] <= u[i] /\ qty[i] \in Int
    BY <1>2 DEF Larger
  <2>3. \A i \in 1 .. n : key[i] \in K
    BY <1>8
  <2> HIDE DEF u, key, qty, w, K
  <2>4. \A i \in 1 .. n : mem[i] = w[key[i]] * qty[i]
    BY DEF PerMember
  <2>5. \A i \in 1 .. n : mem[i] \in Int /\ cu[i] \in Int /\ mem[i] <= cu[i]
    <3>0. c \in Nat
      BY <1>0
    <3> TAKE i \in 1 .. n
    <3>1. w[key[i]] \in Int /\ 0 <= w[key[i]] /\ w[key[i]] <= c
      BY <1>6, <2>3
    <3> DEFINE x == w[key[i]]  a == qty[i]  b == u[i]
    <3>2. a \in Int /\ b \in Int /\ a <= b /\ 0 <= b /\ mem[i] = x * a /\ cu[i] = c * b
      BY <2>1, <2>4
    <3> HIDE DEF a, b, mem, cu
    <3>3. x \in Int /\ 0 <= x /\ x <= c /\ c \in Int
      BY <1>0, <3>1
    <3> HIDE DEF x
    <3>4. x * a <= c * b
      BY <3>2, <3>3, ProductGrows
    <3> QED BY <3>0, <3>2, <3>3, <3>4
  <2>6. mem \in [1 .. n -> Int]
    BY <2>5 DEF PerMember
  <2>7. u \in [1 .. n -> Int]
    BY <2>1 DEF u
  <2> QED BY <2>5, <2>6, <2>7
<1>17. SumSeq(mem) <= c * UnitsOf(lines)
  <2>1. UnitsOf(lines) = SumSeq(u)
    BY <1>1 DEF UnitsOf
  <2>2. \A i \in 1 .. n : cu[i] = c * u[i]
    OBVIOUS
  <2> HIDE DEF mem, cu, u
  <2>3. SumSeq(cu) = c * SumSeq(u)
    <3>1. c \in Int /\ n \in Nat
      BY <1>0, <1>1
    <3>2. u \in [1 .. n -> Int] /\ cu \in [1 .. n -> Int]
      BY <1>16
    <3> HIDE DEF n
    <3> QED BY <2>2, <3>1, <3>2, SumScales
  <2>4. SumSeq(mem) <= SumSeq(cu)
    BY <1>1, <1>16, SumCompares
  <2> QED BY <2>1, <2>3, <2>4
<1>18. SumSeq(per) = SumSeq(mem)
  <2> HIDE DEF w, order, key, qty, K
  <2> QED BY <1>11, GroupSums
<1> HIDE DEF per, mem, worth
<1> QED BY <1>15, <1>17, <1>18 DEF worth

LEMMA TotalsSafe ==
  ASSUME NEW k \in Nat, NEW resolved \in [1 .. k -> CartLine], NEW items, NEW bps \in BasisPoints,
         Priceable(items, resolved, k), SumSeq(Weights(resolved, items)) <= MaxSafe,
         \A i \in 1 .. k : items[resolved[i].sku].cost * resolved[i].qty \in Paise
  PROVE  ValidTotals(Recompute(resolved, items, bps))
<1> DEFINE t == Recompute(resolved, items, bps)  nets == NetsOf(t.perLine)
<1>1. Recomputed(t, k, resolved) /\ t.gross = SumSeq(Weights(resolved, items))
  BY RecomputeIs
<1>2. \A i \in 1 .. k : t.perLine[i].cost = items[resolved[i].sku].cost * resolved[i].qty
  BY MarginIs
<1> HIDE DEF t
<1>3. t.gross \in Nat /\ t.net \in Nat /\ t.net <= t.gross /\ t.gross <= MaxSafe /\ MaxSafe \in Nat
  BY <1>1, SchemasAssumption DEF Recomputed
<1>4. t.perLine \in [1 .. k -> PricedLine] /\ t.net = SumSeq(nets)
  BY <1>1 DEF Recomputed
<1>5. nets \in [1 .. k -> Nat] /\ \A i \in 1 .. k : nets[i] = t.perLine[i].net
  <2>1. \A i \in 1 .. k : t.perLine[i] \in PricedLine
    BY <1>4
  <2>2. \A i \in 1 .. k : t.perLine[i].net \in Nat
    BY <2>1 DEF PricedLine
  <2> QED BY <1>4, <2>2 DEF NetsOf
<1> HIDE DEF nets
<1>6. \A i \in 1 .. k : nets[i] <= t.net
  BY <1>4, <1>5, SumIsNat
<1>7. {t.gross, t.net} \subseteq Paise
  BY <1>3 DEF Paise
<1>8. \A i \in 1 .. k : t.perLine[i].net \in Paise
  BY <1>3, <1>5, <1>6 DEF Paise
<1> QED BY <1>2, <1>3, <1>4, <1>7, <1>8 DEF ValidTotals, t

\* A gate's totals are ones its schema admits.
LEMMA TotalsValid ==
  ASSUME NEW in, GateReady(in), Fits(in.items, UnitsOf(in.cart.lines))
  PROVE  ValidTotals(BuildContext(in).totals)
<1> DEFINE m == Merged(in)  lines == in.cart.lines  kept == Resolved(in)  units == UnitsOf(lines)
<1>1. lines \in Seq(CartLine) /\ GroundTruth(in.items) /\ kept = Known(m, in.items)
  BY DEF GateReady, Resolved
<1>2. BuildContext(in) = ContextFor(in, m)
  BY DEF BuildContext, Merged
<1>3. ASSUME NEW s, NEW b, NEW t, ContextFor(in, m) = Context(in, m, s, b, t)
      PROVE  BuildContext(in).totals = t
  BY <1>2, <1>3 DEF Context
<1>4. CASE ~StructureOf(in.cart, m)
  <2>1. BuildContext(in).totals = Recompute(kept, Zeroed(in.items), 0)
    <3>1. ContextFor(in, m) = Context(in, m, FALSE, 0, Recompute(Known(m, in.items), Zeroed(in.items), 0))
      BY <1>4, ContextUnsound
    <3> HIDE DEF m, kept
    <3>2. BuildContext(in).totals = Recompute(Known(m, in.items), Zeroed(in.items), 0)
      BY <1>3, <3>1, Zenon
    <3> QED BY <1>1, <3>2
  <2>2. PICK k \in Nat :
             /\ kept \in [1 .. k -> CartLine]
             /\ \A i \in 1 .. k : kept[i].sku \in DOMAIN in.items
    BY ResolvedIs
  <2> HIDE DEF kept
  <2>3. Priceable(Zeroed(in.items), kept, k)
    BY <1>1, <2>2, PriceableIs
  <2>4. \A i \in 1 .. k : kept[i].qty \in Int
    <3>1. \A i \in 1 .. k : kept[i] \in CartLine
      BY <2>2
    <3> QED BY <3>1 DEF CartLine
  <2> DEFINE z == Zeroed(in.items)
  <2>5. \A s \in DOMAIN in.items : z[s].price = 0 /\ z[s].cost = 0
    BY DEF Zeroed
  <2> HIDE DEF z
  <2>6. Weights(kept, z) \in [1 .. k -> Int] /\ \A i \in 1 .. k : Weights(kept, z)[i] = 0
    <3>1. \A i \in 1 .. k : z[kept[i].sku].price * kept[i].qty = 0
      BY <2>2, <2>4, <2>5
    <3> QED BY <2>2, <3>1 DEF Weights
  <2>7. SumSeq(Weights(kept, z)) = 0
    BY <2>6, SumOfZeros
  <2>8. \A i \in 1 .. k : z[kept[i].sku].cost * kept[i].qty \in Paise
    <3>1. \A i \in 1 .. k : z[kept[i].sku].cost * kept[i].qty = 0
      BY <2>2, <2>4, <2>5
    <3>2. 0 \in Paise
      BY SchemasAssumption DEF Paise
    <3> QED BY <3>1, <3>2
  <2>9. 0 \in BasisPoints /\ SumSeq(Weights(kept, z)) <= MaxSafe
    BY <2>7, SchemasAssumption DEF BasisPoints
  <2>10. ValidTotals(Recompute(kept, z, 0))
    BY <2>2, <2>3, <2>8, <2>9, TotalsSafe DEF z
  <2> QED BY <2>1, <2>10 DEF z
<1>5. CASE StructureOf(in.cart, m)
  <2>1. BuildContext(in).totals = Recompute(kept, in.items, ToBps(in.cart.pct))
    <3>1. ContextFor(in, m) = Context(in, m, TRUE, ToBps(in.cart.pct), Recompute(Known(m, in.items), in.items, ToBps(in.cart.pct)))
      BY <1>5, ContextSound
    <3> HIDE DEF m, kept
    <3>2. BuildContext(in).totals = Recompute(Known(m, in.items), in.items, ToBps(in.cart.pct))
      BY <1>3, <3>1, Zenon
    <3> QED BY <1>1, <3>2
  <2>2. ToBps(in.cart.pct) \in BasisPoints
    BY <1>5, SoundIs, BpsIs
  <2>3. PICK k \in Nat :
             /\ kept \in [1 .. k -> CartLine]
             /\ \A i \in 1 .. k : kept[i].sku \in DOMAIN in.items
             /\ \A i \in 1 .. k : \E j \in DOMAIN m : kept[i] = m[j]
    BY ResolvedIs
  <2>4. \A i \in DOMAIN m : m[i].qty > 0
    BY <1>5, SoundIs
  <2>5. PICK n \in Nat :
             /\ m \in [1 .. n -> CartLine]
             /\ \A i, j \in 1 .. n : m[i].sku = m[j].sku => i = j
             /\ \A i \in 1 .. n : m[i].qty = QtyOf(lines, m[i].sku)
    BY <1>1, MergeIs DEF Merged
  <2>6. \A i, j \in DOMAIN kept : kept[i].sku = kept[j].sku => i = j
    <3> HIDE DEF m, kept
    <3> QED BY <1>1, <2>5, KnownDistinct
  <2> HIDE DEF m, kept, lines
  <2>7. \A i \in 1 .. k : kept[i].qty = QtyOf(lines, kept[i].sku) /\ kept[i].qty \in Nat
    <3>1. \A i \in DOMAIN m : m[i].qty = QtyOf(lines, m[i].sku) /\ m[i].qty > 0
      BY <2>4, <2>5
    <3>2. \A i \in 1 .. k : kept[i].qty \in Int
      <4>1. \A i \in 1 .. k : kept[i] \in CartLine
        BY <2>3
      <4> QED BY <4>1 DEF CartLine
    <3> QED BY <2>3, <3>1, <3>2
  <2>8. Keeps(lines, kept, k)
    BY <1>1, <2>3, <2>6, <2>7 DEF Keeps
  <2>9. Priceable(in.items, kept, k)
    BY <1>1, <2>3, <2>7, PriceableIs
  <2>10. units \in Nat /\ \A s : QtyOf(lines, s) <= units
    BY <1>1, UnitsAreNat
  <2>11. \A s \in DOMAIN in.items : /\ units * in.items[s].price <= MaxSafe /\ units * in.items[s].cost <= MaxSafe
                                    /\ in.items[s].price \in Nat /\ in.items[s].cost \in Nat
    <3> TAKE s \in DOMAIN in.items
    <3>1. units * in.items[s].price \in Paise /\ units * in.items[s].cost \in Paise
      BY DEF Fits, lines
    <3>2. in.items[s].price \in Nat /\ in.items[s].cost \in Nat
      BY <1>1, ItemIs
    <3>3. \A x \in Paise : x <= MaxSafe
      BY SchemasAssumption DEF Paise
    <3> QED BY <3>1, <3>2, <3>3
  <2> HIDE DEF units
  <2>12. \A i \in 1 .. k : in.items[kept[i].sku].cost * kept[i].qty \in Paise
    <3> TAKE i \in 1 .. k
    <3> DEFINE cost == in.items[kept[i].sku].cost  q == kept[i].qty
    <3>1. cost \in Nat /\ q \in Nat /\ q <= units /\ units * cost <= MaxSafe
      BY <2>3, <2>7, <2>10, <2>11
    <3> HIDE DEF cost, q
    <3>2. cost * q <= cost * units /\ cost * units = units * cost /\ cost * q \in Nat
      BY <2>10, <3>1, MulMono
    <3>3. cost * q \in Paise
      <4> DEFINE x == cost * q  y == units * cost
      <4>1. x \in Nat /\ x <= y /\ y <= MaxSafe /\ y \in Nat
        BY <2>10, <3>1, <3>2
      <4> HIDE DEF x, y
      <4>2. x \in Paise
        BY <4>1, SchemasAssumption DEF Paise
      <4> QED BY <4>2 DEF x
    <3> QED BY <3>3 DEF cost, q
  <2>13. SumSeq(Weights(kept, in.items)) <= MaxSafe
    <3>1. CASE k = 0
      <4>1. Weights(kept, in.items) \in [1 .. k -> Int]
        BY <2>9 DEF Priceable
      <4>2. SumSeq(Weights(kept, in.items)) = 0
        BY <3>1, <4>1, SumIsInt
      <4> QED BY <4>2, SchemasAssumption
    <3>2. CASE k # 0
      <4> DEFINE p == [i \in 1 .. k |-> in.items[kept[i].sku].price]
      <4>1. p \in [1 .. k -> Nat] /\ k \in Nat \ {0}
        BY <2>3, <2>11, <3>2
      <4>2. PICK j \in 1 .. k : \A i \in 1 .. k : p[i] <= p[j]
        <5> HIDE DEF p
        <5> QED BY <4>1, LargestIs
      <4> DEFINE c == p[j]  price == [s \in SkusOf(kept) |-> in.items[s].price]
      <4>3. c \in Nat /\ units * c <= MaxSafe
        BY <2>3, <2>11
      <4>4. SkusOf(kept) = {kept[i].sku : i \in 1 .. k}
        BY <2>3 DEF SkusOf
      <4>5. PricedUnder(price, kept, c)
        <5>1. \A s \in SkusOf(kept) : in.items[s].price \in Nat /\ in.items[s].price <= c
          BY <2>3, <2>11, <4>2, <4>4
        <5> HIDE DEF c
        <5> QED BY <4>3, <5>1 DEF PricedUnder
      <4>6. [i \in 1 .. k |-> price[kept[i].sku] * kept[i].qty] = Weights(kept, in.items)
        BY <2>3, <4>4 DEF Weights
      <4> HIDE DEF price, c
      <4>7. SumSeq([i \in 1 .. k |-> price[kept[i].sku] * kept[i].qty]) <= c * UnitsOf(lines)
        BY <2>8, <4>5, GrossIsBounded
      <4> DEFINE sum == SumSeq(Weights(kept, in.items))  most == c * units
      <4>8. sum <= most /\ most <= MaxSafe
        BY <2>10, <4>3, <4>6, <4>7 DEF units
      <4>9. sum \in Int /\ most \in Int
        <5>1. Weights(kept, in.items) \in [1 .. k -> Int]
          BY <2>9 DEF Priceable
        <5> QED BY <2>10, <4>3, <5>1, SumIsInt
      <4> HIDE DEF sum, most
      <4>10. sum <= MaxSafe
        BY <4>8, <4>9, SchemasAssumption
      <4> QED BY <4>10 DEF sum
    <3> QED BY <3>1, <3>2
  <2>14. ValidTotals(Recompute(kept, in.items, ToBps(in.cart.pct)))
    BY <2>2, <2>3, <2>9, <2>12, <2>13, TotalsSafe
  <2> QED BY <2>1, <2>14
<1> QED BY <1>4, <1>5

----------------------------------------------------------------------------
(* The result is well formed.                                              *)

LEMMA BandOrNot ==
  ASSUME NEW over, NEW within
  PROVE  (CASE over -> "FAIL" [] within -> "BAND" [] OTHER -> "PASS") \in {"PASS", "FAIL", "BAND"}
BY Zenon

LEMMA StatusesAre ==
  ASSUME NEW t, NEW c, Marked(t, c), NEW i \in 1 .. 16
  PROVE  t[i].status \in RuleStatuses
<1>1. \A ok : PassIf(ok) \in RuleStatuses
  BY DEF PassIf, RuleStatuses
<1>2. {"PASS", "FAIL", "BAND", "ESCALATE_TRIGGER", "UNAVAILABLE_INPUT", "SKIP"} \subseteq RuleStatuses
  BY DEF RuleStatuses
<1>3. CartValue(c) \in RuleStatuses /\ DiscountCap(c) \in RuleStatuses
  <2>1. CartValue(c) \in {"PASS", "FAIL", "BAND"} /\ DiscountCap(c) \in {"PASS", "FAIL", "BAND"}
    BY BandOrNot, Zenon DEF CartValue, DiscountCap
  <2> QED BY <1>2, <2>1
<1>4. /\ CitationGate(c) \in RuleStatuses /\ RulesEffective(c) \in RuleStatuses /\ ProposalFreshness(c) \in RuleStatuses
      /\ CartStructure(c) \in RuleStatuses /\ SkuResolution(c) \in RuleStatuses /\ TotalsDrift(c) \in RuleStatuses
      /\ MarginFloor(c) \in RuleStatuses /\ CategoryAllowlist(c) \in RuleStatuses
      /\ StockAvailability(c) \in RuleStatuses /\ ExpiryGuard(c) \in RuleStatuses
  BY <1>1 DEF CitationGate, RulesEffective, ProposalFreshness, CartStructure, SkuResolution, TotalsDrift,
              MarginFloor, CategoryAllowlist, StockAvailability, ExpiryGuard
<1>5. /\ VelocityRequests(c) \in RuleStatuses /\ VelocityValue(c) \in RuleStatuses
      /\ InjectionGuard(c) \in RuleStatuses /\ RepeatOffender(c) \in RuleStatuses
  BY <1>1, <1>2 DEF VelocityRequests, VelocityValue, InjectionGuard, RepeatOffender
<1> HIDE DEF RuleStatuses
<1>6. /\ t[1].status \in RuleStatuses /\ t[2].status \in RuleStatuses /\ t[3].status \in RuleStatuses
      /\ t[4].status \in RuleStatuses /\ t[5].status \in RuleStatuses /\ t[6].status \in RuleStatuses
      /\ t[7].status \in RuleStatuses /\ t[8].status \in RuleStatuses
  BY <1>2, <1>3, <1>4 DEF Marked
<1>7. /\ t[9].status \in RuleStatuses /\ t[10].status \in RuleStatuses
      /\ t[11].status \in RuleStatuses /\ t[12].status \in RuleStatuses
      /\ t[13].status \in RuleStatuses /\ t[14].status \in RuleStatuses
      /\ t[15].status \in RuleStatuses /\ t[16].status \in RuleStatuses
  BY <1>2, <1>4, <1>5 DEF Marked
<1> QED BY <1>6, <1>7, Sixteen

LEMMA CountsApart ==
  ASSUME NEW S, NEW T, IsFiniteSet(S), IsFiniteSet(T), S \cap T = {}
  PROVE  Cardinality(S \cup T) = Cardinality(S) + Cardinality(T)
<1>1. Cardinality(S \cap T) = 0
  BY FS_EmptySet
<1>2. Cardinality(S) \in Nat /\ Cardinality(T) \in Nat
  BY FS_CardinalityType
<1>3. Cardinality(S \cup T) = Cardinality(S) + Cardinality(T) - Cardinality(S \cap T)
  BY FS_Union
<1> QED BY <1>1, <1>2, <1>3

\* Every entry is counted once.
LEMMA CountsAre ==
  ASSUME NEW n \in Nat, NEW t, DOMAIN t = 1 .. n, \A i \in 1 .. n : t[i].status \in RuleStatuses
  PROVE  LET s == Summary(t) IN s.passed + s.failed + s.triggers + s.skipped = n
<1> DEFINE In(S) == {i \in DOMAIN t : t[i].status \in S}
           A == In({"PASS"})  B == In({"FAIL"})
           C == In({"BAND", "ESCALATE_TRIGGER", "UNAVAILABLE_INPUT"})  D == In({"SKIP"})
<1>1. /\ Summary(t).passed = Cardinality(A) /\ Summary(t).failed = Cardinality(B)
      /\ Summary(t).triggers = Cardinality(C) /\ Summary(t).skipped = Cardinality(D)
  BY DEF Summary
<1>2. (A \cup B) \cup (C \cup D) = 1 .. n /\ A \cap B = {} /\ C \cap D = {} /\ (A \cup B) \cap (C \cup D) = {}
  <2>1. A \cap B = {} /\ C \cap D = {} /\ (A \cup B) \cap (C \cup D) = {}
    OBVIOUS
  <2>2. ASSUME NEW i PROVE i \in (A \cup B) \cup (C \cup D) <=> i \in 1 .. n
    BY DEF RuleStatuses
  <2> HIDE DEF A, B, C, D
  <2> QED BY <2>1, <2>2
<1>3. IsFiniteSet(1 .. n) /\ Cardinality(1 .. n) = n
  <2>1. 1 \in Int /\ n \in Int
    OBVIOUS
  <2>2. IsFiniteSet(1 .. n) /\ Cardinality(1 .. n) = IF 1 > n THEN 0 ELSE n - 1 + 1
    BY <2>1, FS_Interval
  <2> QED BY <2>2
<1> HIDE DEF A, B, C, D
<1>4. IsFiniteSet(A) /\ IsFiniteSet(B) /\ IsFiniteSet(C) /\ IsFiniteSet(D)
      /\ IsFiniteSet(A \cup B) /\ IsFiniteSet(C \cup D)
  <2>1. \A S \in SUBSET (1 .. n) : IsFiniteSet(S)
    BY <1>3, FS_Subset
  <2> QED BY <1>2, <2>1
<1>5. /\ Cardinality(A) \in Nat /\ Cardinality(B) \in Nat /\ Cardinality(C) \in Nat /\ Cardinality(D) \in Nat
  BY <1>4, FS_CardinalityType
<1>6. Cardinality(A \cup B) = Cardinality(A) + Cardinality(B) /\ Cardinality(C \cup D) = Cardinality(C) + Cardinality(D)
  BY <1>2, <1>4, CountsApart
<1>7. n = Cardinality(A \cup B) + Cardinality(C \cup D)
  <2>1. Cardinality((A \cup B) \cup (C \cup D)) = Cardinality(A \cup B) + Cardinality(C \cup D)
    BY <1>2, <1>4, CountsApart
  <2> QED BY <1>2, <1>3, <2>1
<1> QED BY <1>1, <1>5, <1>6, <1>7

LEMMA ResultIsValid ==
  ASSUME NEW in, GateReady(in), Fits(in.items, UnitsOf(in.cart.lines))
  PROVE  ValidResult(EvaluateProposal(in))
<1> DEFINE c == BuildContext(in)  t == RunRules(c)  v == EvaluateProposal(in)
<1>1. Marked(t, c)
  BY TraceMarked
<1>2. PICK X : t \in Seq(X) /\ Len(t) = 16
  BY TraceMarked
<1>3. v = Aggregate(t, c.totals)
  BY DEF EvaluateProposal, Decide
<1>4. ValidTotals(c.totals)
  BY TotalsValid
<1>5. \A i \in 1 .. 16 : t[i].status \in RuleStatuses
  BY <1>1, StatusesAre
<1> HIDE DEF t, c, v
<1>6. /\ v.trace = t /\ v.totals = c.totals
      /\ v.outcome = IF Blocked(t) THEN "DECLINE" ELSE IF Doubted(t) THEN "ESCALATE" ELSE "APPROVE"
      /\ v.declines # <<>> <=> v.outcome = "DECLINE"
      /\ v.escalations # <<>> <=> v.outcome = "ESCALATE"
  BY <1>2, <1>3, AggregateIs
<1>7. DOMAIN t = 1 .. 16 /\ \A i \in 1 .. 16 : t[i].id = RuleIds[i]
  BY <1>1 DEF Marked, Named
<1>8. [i \in DOMAIN t |-> t[i].id] = RuleIds /\ Len(RuleIds) = 16
  <2>1. RuleIds = [i \in 1 .. 16 |-> RuleIds[i]] /\ Len(RuleIds) = 16
    BY DEF RuleIds
  <2> HIDE DEF RuleIds
  <2> QED BY <1>7, <2>1
<1>9. LET s == Summary(t) IN s.passed + s.failed + s.triggers + s.skipped = 16
  <2> DEFINE n == 16
  <2>1. n \in Nat /\ DOMAIN t = 1 .. n /\ \A i \in 1 .. n : t[i].status \in RuleStatuses
    BY <1>5, <1>7
  <2>2. LET s == Summary(t) IN s.passed + s.failed + s.triggers + s.skipped = n
    <3> HIDE DEF n
    <3> QED BY <2>1, CountsAre
  <2> QED BY <2>2
<1> QED BY <1>4, <1>5, <1>6, <1>7, <1>8, <1>9 DEF ValidResult, v

----------------------------------------------------------------------------
(* The gate keeps to the policy.                                           *)

LEMMA InputIsReady ==
  ASSUME NEW in, ReadyInput(in)
  PROVE  InputReady(in) /\ Fits(in.items, UnitsOf(in.cart.lines))
<1>1. ReadyCart(in.cart) /\ GroundTruth(in.items) /\ Fits(in.items, UnitsOf(in.cart.lines))
      /\ ReadyRules(in.rules) /\ ReadyHistory(in.velocity) /\ in.now \in Int
  BY DEF ReadyInput
<1>2. in.cart.lines \in Seq(CartLine) /\ {in.cart.pct, in.cart.aiTotal, in.cart.issued, in.cart.expires} \subseteq Int
  BY <1>1 DEF ReadyCart
<1>3. in.cart.pct \in Int /\ in.cart.issued \in Int /\ in.cart.expires \in Int
  BY <1>2
<1> QED BY <1>1, <1>2, <1>3 DEF InputReady, GateReady

\* A band is named only by the rules that have one, and a missing history by
\* those that read it.
LEMMA CauseIs ==
  ASSUME NEW in, InputReady(in), SoundCart(in), NEW t, NEW net \in Int, SoundFate(t, in, net),
         ToBps(in.cart.pct) \in Int, NEW i \in 1 .. 16
  PROVE  /\ t[i].status = "BAND" =>
              \/ net \in ValueBandLowerEdge(in.rules) .. in.rules.maxValue - 1
              \/ ToBps(in.cart.pct) \in DiscountBandLowerBps(in.rules) .. ToBps(in.rules.maxDiscountPct) - 1
         /\ t[i].status = "UNAVAILABLE_INPUT" => ~in.velocity.available
<1> DEFINE r == in.rules  v == in.velocity  bps == ToBps(in.cart.pct)  cap == ToBps(r.maxDiscountPct)
           low == ValueBandLowerEdge(r)  lowBps == DiscountBandLowerBps(r)
           band == net \in low .. r.maxValue - 1  bandBps == bps \in lowBps .. cap - 1
           on == r.valueBandPct > 0  onBps == r.discountBandPct > 0
<1>1. r.maxValue \in Int /\ cap \in Int /\ low \in Int /\ lowBps \in Int
  BY LimitsAre, EdgesAre DEF InputReady
<1>2. \A ok : PassIf(ok) \in {"PASS", "FAIL"}
  BY DEF PassIf
<1>3. /\ t[1].status \in {"PASS", "FAIL"} /\ t[2].status \in {"PASS", "FAIL"} /\ t[3].status \in {"PASS", "FAIL"}
      /\ t[4].status \in {"PASS", "FAIL"} /\ t[5].status \in {"PASS", "FAIL"} /\ t[6].status \in {"PASS", "FAIL"}
      /\ t[9].status \in {"PASS", "FAIL", "SKIP"} /\ t[10].status \in {"PASS", "FAIL"}
      /\ t[11].status \in {"PASS", "FAIL"} /\ t[12].status \in {"PASS", "FAIL"}
      /\ t[15].status \in {"PASS", "ESCALATE_TRIGGER"} /\ t[16].status \in {"PASS", "SKIP", "ESCALATE_TRIGGER"}
  BY <1>2 DEF SoundFate
<1>4. /\ v.available => t[13].status \in {"PASS", "FAIL"} /\ t[14].status \in {"PASS", "FAIL"}
      /\ ~v.available => t[13].status = "UNAVAILABLE_INPUT" /\ t[14].status = "UNAVAILABLE_INPUT"
  BY <1>2 DEF SoundFate
<1>5. t[7].status = Banded(net, r.maxValue, on, low) /\ t[8].status = Banded(bps, cap, onBps, lowBps)
  BY DEF SoundFate
<1> HIDE DEF r, v, bps, cap, low, lowBps, on, onBps
<1>6. t[7].status \in {"PASS", "FAIL", "BAND"} /\ (t[7].status = "BAND" => band)
  BY <1>1, <1>5, BandedSays
<1>7. t[8].status \in {"PASS", "FAIL", "BAND"} /\ (t[8].status = "BAND" => bandBps)
  <2>1. bps \in Int
    BY DEF bps
  <2> QED BY <1>1, <1>5, <2>1, BandedSays
<1> HIDE DEF band, bandBps
<1>8. (t[i].status = "BAND" => band \/ bandBps) /\ (t[i].status = "UNAVAILABLE_INPUT" => ~v.available)
  BY <1>3, <1>4, <1>6, <1>7, Sixteen
<1> QED BY <1>8 DEF band, bandBps, r, v, bps, cap, low, lowBps

FirstCause(v) == Head(v.escalations)

Full(t) == \E X : t \in Seq(X) /\ Len(t) = 16

LEMMA FirstIs ==
  ASSUME NEW t, Full(t), NEW totals, Aggregate(t, totals).outcome = "ESCALATE"
  PROVE  \E i \in 1 .. 16 : FirstCause(Aggregate(t, totals)) = t[i]
<1> DEFINE v == Aggregate(t, totals)
<1>1. PICK X : t \in Seq(X) /\ Len(t) = 16
  BY DEF Full
<1>2. \E i \in 1 .. 16 : Head(v.escalations) = t[i] /\ Escalates(t[i])
  BY <1>1, AggregateIs
<1> QED BY <1>2 DEF FirstCause

\* The reason on the approval row holds.
LEMMA ReasonIs ==
  ASSUME NEW in, InputReady(in), EvaluateProposal(in).outcome = "ESCALATE"
  PROVE  ReasonHolds(in, EvaluateProposal(in))
<1> DEFINE c == BuildContext(in)  t == RunRules(c)  v == EvaluateProposal(in)  first == FirstCause(v)
           net == NetTotal(in.cart, in.items)
<1>1. Marked(t, c) /\ GateReady(in)
  BY TraceMarked DEF InputReady
<1>2. Full(t)
  BY TraceMarked DEF Full
<1>3. v = Aggregate(t, c.totals)
  BY DEF EvaluateProposal, Decide
<1>4. v.totals = c.totals /\ \E i \in 1 .. 16 : first = t[i]
  <2> DEFINE totals == c.totals
  <2>1. Aggregate(t, totals).outcome = "ESCALATE"
    BY <1>3
  <2> HIDE DEF t, c, v, totals
  <2>2. Aggregate(t, totals).totals = totals /\ \E i \in 1 .. 16 : FirstCause(Aggregate(t, totals)) = t[i]
    BY <1>2, <2>1, FirstIs, AggregateHas
  <2> QED BY <1>3, <2>2 DEF totals
<1>5. SoundCart(in)
  <2>1. PolicyOutcome(in) = "ESCALATE"
    BY OutcomeIs
  <2>2. ~Refused(in, net)
    BY <2>1 DEF PolicyOutcome
  <2> QED BY <2>2 DEF Refused
<1>6. c.totals.net = net /\ net \in Int /\ ToBps(in.cart.pct) \in Int
  <2>1. \A b \in BasisPoints : b \in Int
    BY DEF BasisPoints
  <2> QED BY <1>1, <1>5, <2>1, TotalsAre
<1>7. SoundFate(t, in, net)
  BY <1>5, SoundFateIs
<1>8. PICK i \in 1 .. 16 : first = t[i]
  BY <1>4
<1> DEFINE banded == \/ net \in ValueBandLowerEdge(in.rules) .. in.rules.maxValue - 1
                     \/ ToBps(in.cart.pct) \in DiscountBandLowerBps(in.rules) .. ToBps(in.rules.maxDiscountPct) - 1
<1>9. /\ first.status = "BAND" => banded
      /\ first.status = "UNAVAILABLE_INPUT" => ~in.velocity.available
  <2> HIDE DEF t, c, v, net, first
  <2> QED BY <1>5, <1>6, <1>7, <1>8, CauseIs
<1>10. /\ EscalateReason(v) = "ESCALATION_BAND_SOFT_EDGE" => first.status = "BAND"
       /\ EscalateReason(v) = "VELOCITY_SOFT_BAND" => first.status = "UNAVAILABLE_INPUT"
  <2> HIDE DEF v
  <2> DEFINE why == CASE first.status = "BAND" -> "ESCALATION_BAND_SOFT_EDGE"
                      [] first.status = "UNAVAILABLE_INPUT" -> "VELOCITY_SOFT_BAND"
                      [] OTHER -> "HIGH_CART_VALUE"
  <2>1. EscalateReason(v) = why
    BY DEF EscalateReason, FirstCause
  <2>2. \/ why = "ESCALATION_BAND_SOFT_EDGE" /\ first.status = "BAND"
        \/ why = "VELOCITY_SOFT_BAND" /\ first.status = "UNAVAILABLE_INPUT"
        \/ why = "HIGH_CART_VALUE"
    <3> HIDE DEF first
    <3> QED BY Zenon
  <2> HIDE DEF why, first
  <2> QED BY <2>1, <2>2
<1>11. v.totals.net = net
  BY <1>4, <1>6
<1> HIDE DEF v, t, c, net, first
<1> QED BY <1>9, <1>10, <1>11 DEF ReasonHolds, v

\* A cart its schema admits has a sound structure.
LEMMA AdmittedIs ==
  ASSUME NEW in, GateReady(in), ValidCart(in.cart)
  PROVE  \A i \in 1 .. 16 : EvaluateProposal(in).trace[i].id = "STRUCTURE" => EvaluateProposal(in).trace[i].status # "FAIL"
<1> DEFINE c == BuildContext(in)  t == RunRules(c)  lines == in.cart.lines  n == Len(lines)
<1>1. Marked(t, c)
  BY TraceMarked
<1>2. PICK X : t \in Seq(X) /\ Len(t) = 16
  BY TraceMarked
<1>3. EvaluateProposal(in).trace = t
  <2> HIDE DEF t, c
  <2>1. EvaluateProposal(in) = Aggregate(t, c.totals)
    BY DEF EvaluateProposal, Decide, t, c
  <2> QED BY <1>2, <2>1, AggregateIs
<1>4. lines \in Seq(CartLine) /\ in.cart.pct \in Percent /\ in.cart.finite
  <2>1. lines \in Seq(CartLine)
    BY DEF GateReady
  <2> QED BY <2>1, Zenon DEF ValidCart
<1>5. n \in Nat /\ DOMAIN lines = 1 .. n /\ lines # <<>> /\ \A i \in 1 .. n : lines[i].qty \in Nat /\ lines[i].qty > 0
  <2>0. n \in 1 .. 25
    BY Zenon DEF ValidCart
  <2>1. \A i \in DOMAIN lines : lines[i].qty \in 1 .. 999
    BY Zenon DEF ValidCart
  <2>2. lines \in Seq(CartLine)
    BY <1>4
  <2> HIDE DEF lines
  <2>3. n \in Nat /\ DOMAIN lines = 1 .. n /\ lines # <<>>
    <3>1. n \in Nat /\ n # 0
      <4> HIDE DEF n
      <4> QED BY <2>0
    <3> QED BY <2>2, <3>1
  <2>4. \A x \in 1 .. 999 : x \in Nat /\ x > 0
    OBVIOUS
  <2> HIDE DEF n
  <2>5. \A i \in 1 .. n : lines[i].qty \in Nat /\ lines[i].qty > 0
    <3> TAKE i \in 1 .. n
    <3>1. i \in DOMAIN lines
      BY <2>3
    <3>2. lines[i].qty \in 1 .. 999
      BY <2>1, <3>1
    <3> QED BY <2>4, <3>2
  <2> QED BY <2>3, <2>5
<1> HIDE DEF lines, n
<1>6. ASSUME NEW s \in SkusOf(lines) PROVE QtyOf(lines, s) > 0
  <2> DEFINE q == [i \in 1 .. n |-> IF lines[i].sku = s THEN lines[i].qty ELSE 0]
  <2>1. PICK j \in 1 .. n : lines[j].sku = s
    BY <1>5 DEF SkusOf
  <2>2. \A i \in 1 .. n : lines[i].qty \in Nat /\ lines[i].qty > 0
    BY <1>5
  <2>3. q \in [1 .. n -> Nat] /\ q[j] > 0
    BY <2>1, <2>2
  <2>4. QtyOf(lines, s) = SumSeq(q)
    BY <1>5 DEF QtyOf
  <2> HIDE DEF q
  <2>5. SumSeq(q) \in Nat /\ q[j] <= SumSeq(q)
    BY <1>5, <2>3, SumIsNat
  <2>6. q[j] \in Nat
    BY <2>3
  <2> QED BY <2>3, <2>4, <2>5, <2>6
<1>7. StructureOf(in.cart, Merged(in))
  BY <1>4, <1>5, <1>6, StructureIs DEF Merged, lines
<1>8. c.structure
  BY <1>7, ContextHas
<1> HIDE DEF c
<1>9. t[4].status = PassIf(c.structure) /\ Named(t)
  BY <1>1 DEF Marked, CartStructure
<1>10. t[4].status # "FAIL"
  BY <1>8, <1>9, PassIs
<1> HIDE DEF t
<1>11. \A i \in 1 .. 16 : t[i].id = "STRUCTURE" <=> i = 4
  BY <1>9, PlacesAre DEF Named
<1> QED BY <1>3, <1>10, <1>11

----------------------------------------------------------------------------
(* Whoever proposes, the gate is handed distinct skus of the shelf, in      *)
(* quantities the shelf holds.                                              *)

Stands(lines, shelf) ==
  /\ lines \in Seq(CartLine) /\ Len(lines) <= 6
  /\ \A i \in 1 .. Len(lines) :
       /\ lines[i].sku \in DOMAIN shelf.items
       /\ lines[i].qty \in 1 .. 5 /\ lines[i].qty <= shelf.items[lines[i].sku].stock
  /\ \A i, j \in 1 .. Len(lines) : lines[i].sku = lines[j].sku => i = j

LEMMA ClampIs ==
  ASSUME NEW qty \in Int, NEW stock \in Nat, stock >= 1
  PROVE  Clamp(qty, stock) \in 1 .. 2 /\ Clamp(qty, stock) <= stock
BY DEF Clamp, Larger

LEMMA EmptyStands ==
  ASSUME NEW shelf
  PROVE  Stands(<<>>, shelf)
BY DEF Stands

LEMMA PushIs ==
  ASSUME NEW lines, NEW sku, NEW qty \in Int, NEW shelf, GroundTruth(shelf.items), Stands(lines, shelf)
  PROVE  Stands(PushLine(lines, sku, qty, shelf), shelf)
<1>1. CASE ~CanPush(lines, sku, shelf)
  BY <1>1 DEF PushLine
<1>2. CASE CanPush(lines, sku, shelf)
  <2> DEFINE stock == shelf.items[sku].stock  added == [sku |-> sku, qty |-> Clamp(qty, stock)]
             n == Len(lines)  pushed == Append(lines, added)
  <2>1. sku \in DOMAIN shelf.items /\ stock >= 1 /\ n < 4 /\ sku \notin SkusOf(lines)
    BY <1>2 DEF CanPush, InStock
  <2>2. sku \in Nat
    BY <2>1 DEF GroundTruth
  <2>3. stock \in Nat
    BY <2>1, ItemIs
  <2>4. Clamp(qty, stock) \in 1 .. 2 /\ Clamp(qty, stock) <= stock
    <3> HIDE DEF stock
    <3> QED BY <2>1, <2>3, ClampIs
  <2>5. added \in CartLine
    <3> HIDE DEF stock
    <3> QED BY <2>2, <2>4 DEF CartLine
  <2>6. PushLine(lines, sku, qty, shelf) = pushed
    BY <1>2 DEF PushLine
  <2>7. added.sku = sku /\ added.qty \in 1 .. 5 /\ added.qty <= shelf.items[added.sku].stock
    BY <2>4
  <2>8. lines \in Seq(CartLine) /\ n \in Nat /\ DOMAIN lines = 1 .. n
    BY DEF Stands
  <2> HIDE DEF added, stock
  <2>9. /\ pushed \in Seq(CartLine) /\ Len(pushed) = n + 1
        /\ pushed[n + 1] = added /\ \A i \in 1 .. n : pushed[i] = lines[i]
    BY <2>5, <2>8
  <2>10. \A i \in 1 .. n : lines[i].sku # sku
    BY <2>1, <2>8 DEF SkusOf
  <2> HIDE DEF n, pushed
  <2>11. \A i \in 1 .. n + 1 : i \in 1 .. n \/ i = n + 1
    BY <2>8
  <2>12. \A i \in 1 .. n + 1 :
           /\ pushed[i].sku \in DOMAIN shelf.items
           /\ pushed[i].qty \in 1 .. 5 /\ pushed[i].qty <= shelf.items[pushed[i].sku].stock
    <3> TAKE i \in 1 .. n + 1
    <3>1. CASE i \in 1 .. n
      BY <2>9, <3>1 DEF Stands, n
    <3>2. CASE i = n + 1
      BY <2>1, <2>7, <2>9, <3>2
    <3> QED BY <2>11, <3>1, <3>2
  <2>13. \A i, j \in 1 .. n + 1 : pushed[i].sku = pushed[j].sku => i = j
    <3>1. \A i, j \in 1 .. n : lines[i].sku = lines[j].sku => i = j
      BY DEF Stands, n
    <3>2. pushed[n + 1].sku = sku
      BY <2>7, <2>9
    <3> QED BY <2>9, <2>10, <2>11, <3>1, <3>2
  <2>14. n + 1 <= 6
    BY <2>1, <2>8
  <2> QED BY <2>6, <2>9, <2>12, <2>13, <2>14 DEF Stands
<1> QED BY <1>1, <1>2

AskedLines(request, shelf) == FoldLeft(LAMBDA lines, r : PushLine(lines, r.sku, r.qty, shelf), <<>>, request)

LEMMA AskedIs ==
  ASSUME NEW request \in Seq(CartLine), NEW shelf, GroundTruth(shelf.items)
  PROVE  Stands(AskedLines(request, shelf), shelf)
<1> DEFINE n == Len(request)  A == {lines \in Seq(CartLine) : Stands(lines, shelf)}
           push(a, r) == PushLine(a, r.sku, r.qty, shelf)
           Turn(g) == [u \in SUBSET (1 .. n) |->
                         IF u = {} THEN <<>> ELSE push(g[u \ {Max(u)}], request[Max(u)])]
           F == [i \in 1 .. n |-> [a \in A |-> push(a, request[i])]]
<1>1. n \in Nat /\ DOMAIN request = 1 .. n /\ \A i \in 1 .. n : request[i] \in CartLine
  OBVIOUS
<1>2. AskedLines(request, shelf) = (CHOOSE g : g = Turn(g))[1 .. n]
  BY <1>1 DEF AskedLines, FoldLeft, MapThenFoldSet
<1> HIDE DEF n
<1>3. \A i \in 1 .. n, a \in A : push(a, request[i]) \in A
  <2> TAKE i \in 1 .. n, a \in A
  <2>1. request[i].qty \in Int
    BY <1>1 DEF CartLine
  <2>2. Stands(push(a, request[i]), shelf)
    BY <2>1, PushIs
  <2>3. push(a, request[i]) \in Seq(CartLine)
    BY <2>2 DEF Stands
  <2> QED BY <2>2, <2>3
<1>0. <<>> \in A
  <2>1. Stands(<<>>, shelf)
    BY EmptyStands
  <2> QED BY <2>1
<1>14. \A a \in A : Stands(a, shelf)
  OBVIOUS
<1> HIDE DEF A, push
<1>4. F \in [1 .. n -> [A -> A]]
  BY <1>3
<1>5. PICK f \in [SUBSET (1 .. n) -> A] : Folds(f, <<>>, F, n)
  <2> HIDE DEF F
  <2> QED BY <1>0, <1>1, <1>4, FoldExists
<1>6. f = Turn(f)
  <2>1. ASSUME NEW u \in SUBSET (1 .. n), u # {}
        PROVE  F[Max(u)][f[u \ {Max(u)}]] = push(f[u \ {Max(u)}], request[Max(u)])
    <3>1. Max(u) \in 1 .. n
      BY <1>1, <2>1, MaxIs
    <3>2. f[u \ {Max(u)}] \in A
      OBVIOUS
    <3> QED BY <3>1, <3>2
  <2>2. \A u \in SUBSET (1 .. n) : f[u] = IF u = {} THEN <<>> ELSE push(f[u \ {Max(u)}], request[Max(u)])
    <3> HIDE DEF F
    <3> QED BY <1>5, <2>1 DEF Folds
  <2> QED BY <2>2
<1> DEFINE h == CHOOSE g : g = Turn(g)
<1>7. h = Turn(h)
  <2> HIDE DEF Turn
  <2> QED BY <1>6
<1> HIDE DEF h
<1>8. \A u \in SUBSET (1 .. n) : h[u] = IF u = {} THEN <<>> ELSE push(h[u \ {Max(u)}], request[Max(u)])
  BY <1>7
<1>9. \A k \in 1 .. n : h[1 .. k] = push(h[1 .. (k - 1)], request[k])
  BY <1>1, <1>8, PrefixIs
<1> DEFINE T == {k \in 0 .. n : h[1 .. k] \in A}
<1>10. 0 \in T
  <2>1. 1 .. 0 = {} /\ {} \in SUBSET (1 .. n) /\ 0 \in 0 .. n
    BY <1>1
  <2>2. h[1 .. 0] = <<>>
    BY <1>8, <2>1
  <2> QED BY <1>0, <2>1, <2>2
<1>11. ASSUME NEW k \in 1 .. n, k - 1 \in T PROVE k \in T
  <2>1. h[1 .. (k - 1)] \in A /\ k \in 0 .. n
    BY <1>1, <1>11
  <2> QED BY <1>3, <1>9, <2>1
<1>12. n \in T
  <2>1. n \in 0 .. n
    BY <1>1
  <2> HIDE DEF T
  <2> QED BY <1>1, <1>10, <1>11, <2>1, Climbs
<1>13. AskedLines(request, shelf) = h[1 .. n]
  BY <1>2 DEF h
<1> HIDE DEF Turn, h
<1> QED BY <1>12, <1>13, <1>14

LEMMA CoreIs ==
  ASSUME NEW request \in Seq(CartLine), NEW shelf, GroundTruth(shelf.items)
  PROVE  Stands(Core(request, shelf), shelf)
<1> DEFINE asked == AskedLines(request, shelf)
           sellable == {s \in DOMAIN shelf.items : InStock(s, shelf)}
           seed == SeedSku(sellable, shelf)
<1>1. Core(request, shelf) = IF asked # <<>> \/ sellable = {} THEN asked ELSE PushLine(<<>>, seed, 1, shelf)
  BY DEF Core, AskedLines
<1> HIDE DEF asked, seed, sellable
<1>2. Stands(asked, shelf)
  BY AskedIs DEF asked
<1>3. Stands(<<>>, shelf) /\ 1 \in Int
  BY EmptyStands
<1>4. Stands(PushLine(<<>>, seed, 1, shelf), shelf)
  BY <1>3, PushIs
<1> QED BY <1>1, <1>2, <1>4

LEMMA ComplementIs ==
  ASSUME NEW lines, NEW shelf, GroundTruth(shelf.items), Stands(lines, shelf)
  PROVE  Stands(Complement(lines, shelf), shelf)
<1>1. Complement(lines, shelf) = lines \/ \E sku : Complement(lines, shelf) = PushLine(lines, sku, 1, shelf)
  BY DEF Complement
<1>2. 1 \in Int
  OBVIOUS
<1>3. \A sku : Stands(PushLine(lines, sku, 1, shelf), shelf)
  BY <1>2, PushIs
<1> QED BY <1>1, <1>3

LEMMA NudgeIs ==
  ASSUME NEW lines, NEW shelf, GroundTruth(shelf.items), Stands(lines, shelf)
  PROVE  Stands(Nudge(lines, shelf).lines, shelf)
<1>1. \E apt : Nudge(lines, shelf) = NudgedByOneOf(apt, lines, shelf)
  BY DEF Nudge
<1>2. PICK apt : Nudge(lines, shelf) = NudgedByOneOf(apt, lines, shelf)
  BY <1>1
<1>3. CASE apt = {}
  BY <1>2, <1>3 DEF NudgedByOneOf
<1>4. CASE apt # {}
  <2> DEFINE top == Heaviest(apt)  sku == Head(Open(top, lines, shelf))
  <2>1. Nudge(lines, shelf) = Nudged(lines, PushLine(lines, sku, 1, shelf), top)
    BY <1>2, <1>4 DEF NudgedByOneOf, NudgedBy
  <2> HIDE DEF top, sku
  <2>2. Nudge(lines, shelf).lines = PushLine(lines, sku, 1, shelf)
    BY <2>1 DEF Nudged
  <2>3. 1 \in Int
    OBVIOUS
  <2> QED BY <2>2, <2>3, PushIs
<1> QED BY <1>3, <1>4

----------------------------------------------------------------------------
(* Sums over a set.  Whatever order its members are chosen in, the sum is   *)
(* that of any list of them.                                               *)

AnyOf(u) == CHOOSE x \in u : TRUE
SetTurn(g, P, w) == [u \in SUBSET P |-> IF u = {} THEN 0 ELSE w[AnyOf(u)] + g[u \ {AnyOf(u)}]]

Lists(order, P, n) ==
  /\ n \in Nat /\ order \in [1 .. n -> P]
  /\ \A x \in P : \E i \in 1 .. n : order[i] = x
  /\ \A i, j \in 1 .. n : order[i] = order[j] => i = j

PartOf(u, order, w, n) == [i \in 1 .. n |-> IF order[i] \in u THEN w[order[i]] ELSE 0]
PartSum(P, order, w, n) == [u \in SUBSET P |-> SumSeq(PartOf(u, order, w, n))]

LEMMA AnyIsIn ==
  ASSUME NEW u, u # {}
  PROVE  AnyOf(u) \in u
BY DEF AnyOf

LEMMA ListedAreFinite ==
  ASSUME NEW order, NEW P, NEW n, Lists(order, P, n)
  PROVE  IsFiniteSet(P)
<1>1. n \in Nat /\ order \in Surjection(1 .. n, P)
  BY DEF Lists, Surjection
<1> QED BY <1>1, FS_Interval, FS_Surjection

LEMMA PartSums ==
  ASSUME NEW order, NEW P, NEW n, Lists(order, P, n), NEW w \in [P -> Int]
  PROVE  LET g == PartSum(P, order, w, n) IN g = SetTurn(g, P, w)
<1> DEFINE g == PartSum(P, order, w, n)  part(u) == PartOf(u, order, w, n)
<1>1. n \in Nat /\ order \in [1 .. n -> P] /\ \A i \in 1 .. n : w[order[i]] \in Int
  BY DEF Lists
<1>2. ASSUME NEW u PROVE part(u) \in [1 .. n -> Int]
  BY <1>1 DEF PartOf
<1>3. SumSeq(part({})) = 0
  <2>1. \A i \in 1 .. n : part({})[i] = 0
    BY DEF PartOf
  <2>2. part({}) \in [1 .. n -> Int]
    BY <1>2
  <2> HIDE DEF part
  <2> QED BY <1>1, <2>1, <2>2, SumOfZeros
<1>4. ASSUME NEW u \in SUBSET P, u # {}
      PROVE  SumSeq(part(u)) = w[AnyOf(u)] + SumSeq(part(u \ {AnyOf(u)}))
  <2> DEFINE x == AnyOf(u)  rest == u \ {x}
  <2>1. x \in u /\ x \in P
    BY <1>4, AnyIsIn
  <2> HIDE DEF x
  <2>2. PICK j \in 1 .. n : order[j] = x
    BY <2>1 DEF Lists
  <2>3. \A i \in 1 .. n : order[i] = x <=> i = j
    BY <2>2 DEF Lists
  <2> DEFINE one == [i \in 1 .. n |-> IF i = j THEN w[x] ELSE 0]
  <2>4. w[x] \in Int
    BY <2>1
  <2>5. one \in [1 .. n -> Int] /\ one[j] = w[x] /\ \A i \in 1 .. n : j # i => one[i] = 0
    BY <2>4
  <2>6. \A i \in 1 .. n : part(u)[i] = part(rest)[i] + one[i]
    <3> TAKE i \in 1 .. n
    <3>1. CASE i = j
      <4>1. part(u)[i] = w[x] /\ part(rest)[i] = 0 /\ one[i] = w[x]
        BY <2>1, <2>2, <3>1 DEF PartOf
      <4> HIDE DEF part, one, rest
      <4> QED BY <2>4, <4>1
    <3>2. CASE i # j
      <4>1. order[i] # x /\ one[i] = 0
        BY <2>3, <3>2
      <4>2. part(u)[i] = part(rest)[i]
        BY <4>1 DEF PartOf
      <4>3. part(u)[i] \in Int
        BY <1>2
      <4> HIDE DEF part, one, rest
      <4> QED BY <4>1, <4>2, <4>3
    <3> QED BY <3>1, <3>2
  <2>7. part(rest) \in [1 .. n -> Int] /\ part(u) \in [1 .. n -> Int]
    BY <1>2
  <2> HIDE DEF one, part, rest
  <2>8. SumSeq(one) = w[x]
    BY <1>1, <2>5, SumOfOne
  <2>9. Adds(part(rest), one, part(u), n)
    BY <1>1, <2>5, <2>6, <2>7 DEF Adds
  <2>10. SumSeq(part(u)) = SumSeq(part(rest)) + SumSeq(one)
    BY <2>9, SumAdds
  <2>11. SumSeq(part(rest)) \in Int
    BY <1>1, <2>7, SumIsInt
  <2> QED BY <2>4, <2>8, <2>10, <2>11 DEF x, rest
<1>5. \A u \in SUBSET P : g[u] = SumSeq(part(u))
  BY DEF PartSum
<1>6. g = [u \in SUBSET P |-> g[u]]
  BY DEF PartSum
<1> HIDE DEF g, part
<1>7. ASSUME NEW u \in SUBSET P
      PROVE  g[u] = IF u = {} THEN 0 ELSE w[AnyOf(u)] + g[u \ {AnyOf(u)}]
  <2>1. u \ {AnyOf(u)} \in SUBSET P
    OBVIOUS
  <2> QED BY <1>3, <1>4, <1>5, <2>1
<1> QED BY <1>6, <1>7 DEF SetTurn, g

LEMMA OneSetSum ==
  ASSUME NEW order, NEW P, NEW n, Lists(order, P, n), NEW w \in [P -> Int], NEW h, h = SetTurn(h, P, w)
  PROVE  h[P] = SumSeq([i \in 1 .. n |-> w[order[i]]])
<1> DEFINE g == PartSum(P, order, w, n)  m == Cardinality(P)
           T == {k \in 0 .. m : \A u \in SUBSET P : Cardinality(u) = k => h[u] = g[u]}
<1>1. g = SetTurn(g, P, w)
  BY PartSums
<1>2. IsFiniteSet(P) /\ m \in Nat
  BY ListedAreFinite, FS_CardinalityType
<1> HIDE DEF g, m
<1>3. \A u \in SUBSET P : g[u] = IF u = {} THEN 0 ELSE w[AnyOf(u)] + g[u \ {AnyOf(u)}]
  BY <1>1 DEF SetTurn
<1>4. \A u \in SUBSET P : h[u] = IF u = {} THEN 0 ELSE w[AnyOf(u)] + h[u \ {AnyOf(u)}]
  BY DEF SetTurn
<1>5. \A u \in SUBSET P : IsFiniteSet(u) /\ Cardinality(u) \in Nat
  BY <1>2, FS_Subset, FS_CardinalityType
<1>6. 0 \in T
  <2>1. ASSUME NEW u \in SUBSET P, Cardinality(u) = 0 PROVE h[u] = g[u]
    <3>1. u = {}
      BY <1>5, <2>1, FS_EmptySet
    <3> QED BY <1>3, <1>4, <3>1
  <2>2. 0 \in 0 .. m
    BY <1>2
  <2> QED BY <2>1, <2>2
<1>7. ASSUME NEW k \in 1 .. m, k - 1 \in T PROVE k \in T
  <2>1. ASSUME NEW u \in SUBSET P, Cardinality(u) = k PROVE h[u] = g[u]
    <3>1. u # {}
      BY <1>2, <2>1, FS_EmptySet
    <3>2. AnyOf(u) \in u
      BY <3>1, AnyIsIn
    <3>3. Cardinality(u \ {AnyOf(u)}) = k - 1 /\ u \ {AnyOf(u)} \in SUBSET P
      BY <1>5, <2>1, <3>2, FS_RemoveElement
    <3>4. h[u \ {AnyOf(u)}] = g[u \ {AnyOf(u)}]
      BY <1>7, <3>3
    <3> QED BY <1>3, <1>4, <3>1, <3>4
  <2>2. k \in 0 .. m
    BY <1>2
  <2> QED BY <2>1, <2>2
<1>8. m \in T
  <2>1. m \in 0 .. m
    BY <1>2
  <2> HIDE DEF T
  <2> QED BY <1>2, <1>6, <1>7, <2>1, Climbs
<1>9. h[P] = g[P]
  BY <1>8 DEF m
<1>10. g[P] = SumSeq(PartOf(P, order, w, n))
  BY DEF g, PartSum
<1>11. PartOf(P, order, w, n) = [i \in 1 .. n |-> w[order[i]]]
  <2>1. \A i \in 1 .. n : order[i] \in P
    BY DEF Lists
  <2> QED BY <2>1 DEF PartOf
<1> QED BY <1>9, <1>10, <1>11

\* The list prices of some skus of the shelf.
ListPrices(items, S) == MapThenSumSet(LAMBDA s : items[s].price, S)

LEMMA PricesAdd ==
  ASSUME NEW items, GroundTruth(items), NEW S \in SUBSET (DOMAIN items), NEW order, NEW n, Lists(order, S, n)
  PROVE  ListPrices(items, S) = SumSeq([i \in 1 .. n |-> items[order[i]].price])
<1> DEFINE w == [s \in S |-> items[s].price]
           Turn(g) == [s \in SUBSET S |-> IF s = {} THEN 0
                         ELSE items[CHOOSE x \in s : TRUE].price + g[s \ {CHOOSE x \in s : TRUE}]]
           h == CHOOSE g : g = Turn(g)
<1>1. ListPrices(items, S) = h[S]
  BY DEF ListPrices, MapThenSumSet, MapThenFoldSet
<1>2. w \in [S -> Int]
  BY ItemIs
<1>3. ASSUME NEW g PROVE Turn(g) = SetTurn(g, S, w)
  <2>1. ASSUME NEW u \in SUBSET S
        PROVE  (IF u = {} THEN 0 ELSE items[CHOOSE x \in u : TRUE].price + g[u \ {CHOOSE x \in u : TRUE}])
                 = IF u = {} THEN 0 ELSE w[AnyOf(u)] + g[u \ {AnyOf(u)}]
    <3>1. u # {} => w[AnyOf(u)] = items[AnyOf(u)].price
      BY AnyIsIn
    <3>2. AnyOf(u) = CHOOSE x \in u : TRUE
      BY DEF AnyOf
    <3> HIDE DEF w
    <3> QED BY <3>1, <3>2
  <2> HIDE DEF w
  <2> QED BY <2>1 DEF SetTurn
<1> HIDE DEF Turn
<1>4. \E g : g = Turn(g)
  <2>1. PartSum(S, order, w, n) = SetTurn(PartSum(S, order, w, n), S, w)
    <3> HIDE DEF w
    <3> QED BY <1>2, PartSums
  <2> HIDE DEF w
  <2> QED BY <1>3, <2>1
<1>5. h = Turn(h)
  BY <1>4
<1> HIDE DEF h
<1>6. h = SetTurn(h, S, w)
  BY <1>3, <1>5
<1>7. h[S] = SumSeq([i \in 1 .. n |-> w[order[i]]])
  <2> HIDE DEF w
  <2> QED BY <1>2, <1>6, OneSetSum
<1>8. [i \in 1 .. n |-> w[order[i]]] = [i \in 1 .. n |-> items[order[i]].price]
  <2>1. \A i \in 1 .. n : order[i] \in S
    BY DEF Lists
  <2> QED BY <2>1
<1> QED BY <1>1, <1>7, <1>8

\* The list prices of entries of an evidence pack.
CitedPrices(P) == MapThenSumSet(LAMBDA e : e.list, P)

LEMMA CitedAdd ==
  ASSUME NEW P, \A e \in P : e.list \in Int, NEW order, NEW n, Lists(order, P, n)
  PROVE  CitedPrices(P) = SumSeq([i \in 1 .. n |-> order[i].list])
<1> DEFINE w == [e \in P |-> e.list]
           Turn(g) == [s \in SUBSET P |-> IF s = {} THEN 0
                         ELSE (CHOOSE x \in s : TRUE).list + g[s \ {CHOOSE x \in s : TRUE}]]
           h == CHOOSE g : g = Turn(g)
<1>1. CitedPrices(P) = h[P]
  BY DEF CitedPrices, MapThenSumSet, MapThenFoldSet
<1>2. w \in [P -> Int]
  OBVIOUS
<1>3. ASSUME NEW g PROVE Turn(g) = SetTurn(g, P, w)
  <2>1. ASSUME NEW u \in SUBSET P
        PROVE  (IF u = {} THEN 0 ELSE (CHOOSE x \in u : TRUE).list + g[u \ {CHOOSE x \in u : TRUE}])
                 = IF u = {} THEN 0 ELSE w[AnyOf(u)] + g[u \ {AnyOf(u)}]
    <3>1. u # {} => w[AnyOf(u)] = AnyOf(u).list
      BY AnyIsIn
    <3>2. AnyOf(u) = CHOOSE x \in u : TRUE
      BY DEF AnyOf
    <3> HIDE DEF w
    <3> QED BY <3>1, <3>2
  <2> HIDE DEF w
  <2> QED BY <2>1 DEF SetTurn
<1> HIDE DEF Turn
<1>4. \E g : g = Turn(g)
  <2>1. PartSum(P, order, w, n) = SetTurn(PartSum(P, order, w, n), P, w)
    <3> HIDE DEF w
    <3> QED BY <1>2, PartSums
  <2> HIDE DEF w
  <2> QED BY <1>3, <2>1
<1>5. h = Turn(h)
  BY <1>4
<1> HIDE DEF h
<1>6. h = SetTurn(h, P, w)
  BY <1>3, <1>5
<1>7. h[P] = SumSeq([i \in 1 .. n |-> w[order[i]]])
  <2> HIDE DEF w
  <2> QED BY <1>2, <1>6, OneSetSum
<1>8. [i \in 1 .. n |-> w[order[i]]] = [i \in 1 .. n |-> order[i].list]
  <2>1. \A i \in 1 .. n : order[i] \in P
    BY DEF Lists
  <2> QED BY <2>1
<1> QED BY <1>1, <1>7, <1>8

----------------------------------------------------------------------------
(* The figures of an offer are the shelf's.                                 *)

LEMMA JustifiedByOne ==
  ASSUME NEW shelf, NEW value, NEW s \in DOMAIN shelf.items,
         NEW f \in {shelf.items[s].cost, shelf.items[s].price - shelf.items[s].cost}, Distance(value, f) <= 1
  PROVE  Justified(value, shelf)
BY DEF Justified

LEMMA JustifiedBySum ==
  ASSUME NEW shelf, NEW value, NEW S \in SUBSET (DOMAIN shelf.items),
         Distance(value, ListPrices(shelf.items, S)) <= 1
  PROVE  Justified(value, shelf)
BY DEF Justified, ListPrices

LEMMA OnePrice ==
  ASSUME NEW items, GroundTruth(items), NEW s \in DOMAIN items
  PROVE  ListPrices(items, {s}) = items[s].price
<1> DEFINE order == [i \in 1 .. 1 |-> s]  sum == [i \in 1 .. 1 |-> items[order[i]].price]
<1>1. Lists(order, {s}, 1) /\ {s} \in SUBSET (DOMAIN items)
  BY DEF Lists
<1>2. ListPrices(items, {s}) = SumSeq(sum)
  <2> HIDE DEF order
  <2> QED BY <1>1, PricesAdd
<1>3. items[s].price \in Int
  BY ItemIs
<1>4. sum \in [1 .. 1 -> Int] /\ sum[1] = items[s].price /\ 1 \in 1 .. 1 /\ (\A i \in 1 .. 1 : 1 # i => sum[i] = 0)
  BY <1>3
<1> HIDE DEF sum
<1>5. SumSeq(sum) = sum[1]
  <2>1. 1 \in Nat
    OBVIOUS
  <2> QED BY <1>4, <2>1, SumOfOne
<1> QED BY <1>2, <1>4, <1>5

\* The entries of a pack.
Evidence(kind, sku, shelf) ==
  [kind |-> kind, sku |-> sku, list |-> shelf.items[sku].price,
   facts |-> DeriveNumericFacts(kind, shelf.items[sku], shelf.now)]
SkuKinds == {"PRICE", "STOCK", "MARGIN", "OCCASION_FIT", "PAIRING"}
CampaignEntry(p) ==
  [kind |-> "CAMPAIGN_PRIORITY", sku |-> 0, list |-> 0,
   facts |-> {Fact("COUNT", p.weight)} \cup {Fact("PCT", v) : v \in p.advertised}]
Entries(shelf) ==
  {Evidence(kind, sku, shelf) : kind \in SkuKinds, sku \in DOMAIN shelf.items}
    \cup {CampaignEntry(shelf.priorities[i]) : i \in DOMAIN shelf.priorities}

LEMMA RowsAre ==
  ASSUME NEW shelf, GroundTruth(shelf.items), NEW kind \in SkuKinds, NEW skus \in SUBSET (DOMAIN shelf.items)
  PROVE  [i \in DOMAIN Sorted(skus) |-> Evidence(kind, Sorted(skus)[i], shelf)] \in Seq(Entries(shelf))
<1> DEFINE order == Sorted(skus)  n == Cardinality(skus)
<1>1. skus \in SUBSET Nat /\ IsFiniteSet(skus)
  <2>1. DOMAIN shelf.items \subseteq Nat /\ IsFiniteSet(DOMAIN shelf.items)
    BY DEF GroundTruth
  <2> QED BY <2>1, FS_Subset
<1>2. n \in Nat /\ order \in [1 .. n -> skus]
  BY <1>1, SortedIs
<1> HIDE DEF order, n
<1>3. \A i \in 1 .. n : Evidence(kind, order[i], shelf) \in Entries(shelf)
  BY <1>2 DEF Entries
<1>4. [i \in 1 .. n |-> Evidence(kind, order[i], shelf)] \in Seq(Entries(shelf))
  <2> DEFINE E == Entries(shelf)  e(i) == Evidence(kind, order[i], shelf)
  <2>1. \A i \in 1 .. n : e(i) \in E
    BY <1>3
  <2> HIDE DEF E, e
  <2>2. [i \in 1 .. n |-> e(i)] \in Seq(E)
    BY <1>2, <2>1
  <2> QED BY <2>2 DEF E, e
<1>5. DOMAIN order = 1 .. n
  BY <1>2
<1> QED BY <1>4, <1>5 DEF order

LEMMA PackIs ==
  ASSUME NEW shelf, ReadyShelf(shelf)
  PROVE  BuildEvidencePack(shelf) \in Seq(Entries(shelf))
<1> DEFINE E == Entries(shelf)
           rows(kind, skus) == [i \in DOMAIN Sorted(skus) |-> Evidence(kind, Sorted(skus)[i], shelf)]
           all == DOMAIN shelf.items
           paired == {s \in DOMAIN shelf.items : shelf.pairs[s] # {}}
           campaign == [i \in DOMAIN shelf.priorities |-> CampaignEntry(shelf.priorities[i])]
<1>1. BuildEvidencePack(shelf) =
        rows("PRICE", all) \o rows("STOCK", all) \o rows("MARGIN", all)
          \o rows("OCCASION_FIT", shelf.fits) \o rows("PAIRING", paired) \o campaign
  BY DEF BuildEvidencePack, Evidence, CampaignEntry
<1>2. GroundTruth(shelf.items) /\ shelf.fits \in SUBSET all /\ paired \in SUBSET all /\ all \in SUBSET all
      /\ shelf.priorities \in Seq(Priority)
  BY DEF ReadyShelf
<1>3. ASSUME NEW kind \in SkuKinds, NEW skus \in SUBSET all PROVE rows(kind, skus) \in Seq(E)
  BY <1>2, RowsAre
<1>4. campaign \in Seq(E)
  <2> DEFINE p == shelf.priorities  n == Len(shelf.priorities)
  <2>1. n \in Nat /\ DOMAIN p = 1 .. n
    BY <1>2
  <2>2. \A i \in 1 .. n : CampaignEntry(p[i]) \in E
    BY <2>1 DEF Entries
  <2>3. campaign = [i \in 1 .. n |-> CampaignEntry(p[i])]
    BY <2>1
  <2> HIDE DEF E, n, p, campaign
  <2> QED BY <2>1, <2>2, <2>3
<1>5. /\ rows("PRICE", all) \in Seq(E) /\ rows("STOCK", all) \in Seq(E) /\ rows("MARGIN", all) \in Seq(E)
      /\ rows("OCCASION_FIT", shelf.fits) \in Seq(E) /\ rows("PAIRING", paired) \in Seq(E)
  <2>1. "PRICE" \in SkuKinds /\ "STOCK" \in SkuKinds /\ "MARGIN" \in SkuKinds
        /\ "OCCASION_FIT" \in SkuKinds /\ "PAIRING" \in SkuKinds
    BY DEF SkuKinds
  <2> HIDE DEF rows, E, all, paired
  <2> QED BY <1>2, <1>3, <2>1
<1> DEFINE a == rows("PRICE", all)  b == rows("STOCK", all)  c == rows("MARGIN", all)
           d == rows("OCCASION_FIT", shelf.fits)  e == rows("PAIRING", paired)
<1>6. BuildEvidencePack(shelf) = a \o b \o c \o d \o e \o campaign
  BY <1>1
<1>7. a \in Seq(E) /\ b \in Seq(E) /\ c \in Seq(E) /\ d \in Seq(E) /\ e \in Seq(E)
  BY <1>5
<1> HIDE DEF a, b, c, d, e, campaign, E
<1>8. a \o b \o c \o d \o e \o campaign \in Seq(E)
  <2>1. a \o b \in Seq(E)
    BY <1>7
  <2>2. a \o b \o c \in Seq(E)
    BY <1>7, <2>1
  <2>3. a \o b \o c \o d \in Seq(E)
    BY <1>7, <2>2
  <2>4. a \o b \o c \o d \o e \in Seq(E)
    BY <1>7, <2>3
  <2> QED BY <1>4, <2>4
<1> QED BY <1>6, <1>8 DEF E

\* An entry licenses no rupees but a price, a cost or what is between them.
LEMMA EntryIs ==
  ASSUME NEW shelf, NEW e \in Entries(shelf)
  PROVE  /\ \A f \in e.facts : f.unit = "RUPEE" =>
              \E s \in DOMAIN shelf.items :
                f.value \in {shelf.items[s].price, shelf.items[s].cost, shelf.items[s].price - shelf.items[s].cost}
         /\ e.kind = "PRICE" => e.sku \in DOMAIN shelf.items /\ e = Evidence("PRICE", e.sku, shelf)
<1>1. CASE \E i \in DOMAIN shelf.priorities : e = CampaignEntry(shelf.priorities[i])
  <2>1. PICK i \in DOMAIN shelf.priorities : e = CampaignEntry(shelf.priorities[i])
    BY <1>1
  <2>2. e.kind = "CAMPAIGN_PRIORITY" /\ \A f \in e.facts : f.unit \in {"COUNT", "PCT"}
    BY <2>1 DEF CampaignEntry, Fact
  <2> QED BY <2>2
<1>2. CASE \E kind \in SkuKinds, sku \in DOMAIN shelf.items : e = Evidence(kind, sku, shelf)
  <2>1. PICK kind \in SkuKinds, sku \in DOMAIN shelf.items : e = Evidence(kind, sku, shelf)
    BY <1>2
  <2> DEFINE item == shelf.items[sku]
  <2>2. e.kind = kind /\ e.sku = sku /\ e.facts = DeriveNumericFacts(kind, item, shelf.now)
    BY <2>1 DEF Evidence
  <2>3. kind = "PRICE" => DeriveNumericFacts(kind, item, shelf.now) = {Fact("RUPEE", item.price), Fact("RUPEE", item.cost)}
    BY Zenon DEF DeriveNumericFacts
  <2>4. kind = "STOCK" => \A f \in DeriveNumericFacts(kind, item, shelf.now) : f.unit = "COUNT"
    <3>1. kind = "STOCK" => DeriveNumericFacts(kind, item, shelf.now) =
            {Fact("COUNT", item.stock), Fact("COUNT", 0)}
              \cup (IF item.sellBy = 0 THEN {} ELSE {Fact("COUNT", DaysToExpiry(item, shelf.now))})
      BY Zenon DEF DeriveNumericFacts
    <3> QED BY <3>1 DEF Fact
  <2>5. kind = "MARGIN" => DeriveNumericFacts(kind, item, shelf.now) =
          {Fact("PCT", MarginPct(item)), Fact("RUPEE", item.price - item.cost)}
    BY Zenon DEF DeriveNumericFacts
  <2>6. kind \notin {"PRICE", "STOCK", "MARGIN"} => DeriveNumericFacts(kind, item, shelf.now) = {}
    BY Zenon DEF DeriveNumericFacts
  <2>7. \A f \in e.facts : f.unit = "RUPEE" => f.value \in {item.price, item.cost, item.price - item.cost}
    <3> HIDE DEF item
    <3> QED BY <2>2, <2>3, <2>4, <2>5, <2>6 DEF Fact
  <2> QED BY <2>1, <2>2, <2>7
<1> QED BY <1>1, <1>2 DEF Entries

\* The cited list prices are those of the skus cited.
LEMMA CitedArePrices ==
  ASSUME NEW shelf, GroundTruth(shelf.items), NEW P \in SUBSET Entries(shelf), \A e \in P : e.kind = "PRICE"
  PROVE  \E S \in SUBSET (DOMAIN shelf.items) : CitedPrices(P) = ListPrices(shelf.items, S)
<1> DEFINE items == shelf.items  S == {e.sku : e \in P}  n == Cardinality(S)
<1>1. \A e \in P : e.sku \in DOMAIN items /\ e = Evidence("PRICE", e.sku, shelf)
  BY EntryIs
<1>2. S \in SUBSET (DOMAIN items) /\ IsFiniteSet(S)
  <2>1. S \in SUBSET (DOMAIN items)
    BY <1>1
  <2>2. IsFiniteSet(DOMAIN items)
    BY DEF GroundTruth
  <2> HIDE DEF S
  <2> QED BY <2>1, <2>2, FS_Subset
<1>3. \A s \in S : Evidence("PRICE", s, shelf) \in P
  BY <1>1
<1>4. \A s : Evidence("PRICE", s, shelf).sku = s /\ Evidence("PRICE", s, shelf).list = items[s].price
  BY DEF Evidence
<1>5. n \in Nat /\ ExistsBijection(1 .. n, S)
  <2> HIDE DEF S
  <2> QED BY <1>2, FS_CardinalityType
<1> HIDE DEF n
<1>6. PICK order : Lists(order, S, n)
  <2>1. PICK order \in Bijection(1 .. n, S) : TRUE
    BY <1>5 DEF ExistsBijection
  <2>2. order \in [1 .. n -> S] /\ \A x \in S : \E i \in 1 .. n : order[i] = x
    BY <2>1 DEF Bijection, Surjection
  <2>3. \A i, j \in 1 .. n : order[i] = order[j] => i = j
    BY <2>1 DEF Bijection, Injection, IsInjective
  <2> HIDE DEF S
  <2> QED BY <1>5, <2>2, <2>3 DEF Lists
<1> DEFINE cited == [i \in 1 .. n |-> Evidence("PRICE", order[i], shelf)]
<1>7. Lists(cited, P, n)
  <2>1. order \in [1 .. n -> S] /\ (\A x \in S : \E i \in 1 .. n : order[i] = x)
        /\ \A i, j \in 1 .. n : order[i] = order[j] => i = j
    BY <1>6 DEF Lists
  <2>2. \A e \in P : e.sku \in S
    OBVIOUS
  <2> HIDE DEF S
  <2>3. \A i \in 1 .. n : cited[i] = Evidence("PRICE", order[i], shelf) /\ cited[i] \in P /\ cited[i].sku = order[i]
    BY <1>3, <1>4, <2>1
  <2>4. \A e \in P : \E i \in 1 .. n : cited[i] = e
    <3> TAKE e \in P
    <3>1. PICK i \in 1 .. n : order[i] = e.sku
      BY <2>1, <2>2
    <3> QED BY <1>1, <2>3, <3>1
  <2>5. \A i, j \in 1 .. n : cited[i] = cited[j] => i = j
    <3> HIDE DEF cited
    <3> QED BY <2>1, <2>3
  <2>6. cited \in [1 .. n -> P]
    BY <2>3
  <2> HIDE DEF cited
  <2> QED BY <1>5, <2>4, <2>5, <2>6 DEF Lists
<1>8. \A e \in P : e.list \in Int
  <2> TAKE e \in P
  <2>1. e.sku \in DOMAIN items /\ e.list = items[e.sku].price
    BY <1>1, <1>4
  <2> QED BY <2>1, ItemIs
<1>9. CitedPrices(P) = SumSeq([i \in 1 .. n |-> cited[i].list])
  <2> HIDE DEF cited
  <2> QED BY <1>7, <1>8, CitedAdd
<1>10. [i \in 1 .. n |-> cited[i].list] = [i \in 1 .. n |-> items[order[i]].price]
  BY <1>4
<1>11. ListPrices(items, S) = SumSeq([i \in 1 .. n |-> items[order[i]].price])
  <2> HIDE DEF S
  <2> QED BY <1>2, <1>6, PricesAdd
<1> QED BY <1>2, <1>9, <1>10, <1>11

Upheld(claim, shelf) ==
  \A k \in DOMAIN claim.tokens :
    claim.tokens[k].unit = "RUPEE" => Justified(claim.tokens[k].value, shelf)
Upholds(claims, shelf) == \A i \in DOMAIN claims : Upheld(claims[i], shelf)

\* A claim that stands quotes no rupees but the shelf's.
LEMMA ClaimStands ==
  ASSUME NEW shelf, ReadyShelf(shelf), NEW claim, JudgeClaim(claim, BuildEvidencePack(shelf)) = "ok"
  PROVE  Upheld(claim, shelf)
<1> SUFFICES ASSUME NEW k \in DOMAIN claim.tokens, claim.tokens[k].unit = "RUPEE"
             PROVE  Justified(claim.tokens[k].value, shelf)
  BY DEF Upheld
<1> DEFINE pack == BuildEvidencePack(shelf)  token == claim.tokens[k]  items == shelf.items
           cited == {pack[i] : i \in claim.ids \cap DOMAIN pack}
           facts == UNION {e.facts : e \in cited}
           prices == {e \in cited : e.kind = "PRICE"}
<1>1. pack \in Seq(Entries(shelf)) /\ GroundTruth(items)
  BY PackIs DEF ReadyShelf
<1>2. cited \in SUBSET Entries(shelf)
  <2> HIDE DEF pack
  <2> QED BY <1>1
<1>3. JudgeToken(token, claim.kind, cited) \notin {"fatal", "strip"}
  BY DEF JudgeClaim
<1>4. MatchesAny(token, facts, cited)
  BY <1>3 DEF JudgeToken
<1> HIDE DEF cited
<1>5. \/ \E f \in facts : f.unit = token.unit /\ Distance(token.value, f.value) <= 1
      \/ prices # {} /\ Distance(token.value, CitedPrices(prices)) <= 1
  <2>1. token.unit = "RUPEE"
    OBVIOUS
  <2> HIDE DEF token, facts
  <2> QED BY <1>4, <2>1, Zenon DEF MatchesAny, CitedPrices
<1>6. CASE \E f \in facts : f.unit = token.unit /\ Distance(token.value, f.value) <= 1
  <2>1. PICK e \in cited : \E f \in e.facts : f.unit = "RUPEE" /\ Distance(token.value, f.value) <= 1
    BY <1>6
  <2>2. PICK f \in e.facts : f.unit = "RUPEE" /\ Distance(token.value, f.value) <= 1
    BY <2>1
  <2>3. PICK s \in DOMAIN items : f.value \in {items[s].price, items[s].cost, items[s].price - items[s].cost}
    BY <1>2, <2>2, EntryIs
  <2>4. CASE f.value = items[s].price
    <3>1. f.value = ListPrices(items, {s}) /\ {s} \in SUBSET (DOMAIN items)
      BY <1>1, <2>4, OnePrice
    <3>2. Distance(token.value, ListPrices(items, {s})) <= 1
      BY <2>2, <3>1
    <3> HIDE DEF token
    <3>3. Justified(token.value, shelf)
      BY <3>1, <3>2, JustifiedBySum
    <3> QED BY <3>3 DEF token
  <2>5. CASE f.value \in {items[s].cost, items[s].price - items[s].cost}
    <3> HIDE DEF token
    <3>1. Justified(token.value, shelf)
      BY <2>2, <2>5, JustifiedByOne
    <3> QED BY <3>1 DEF token
  <2> QED BY <2>3, <2>4, <2>5
<1>7. CASE Distance(token.value, CitedPrices(prices)) <= 1
  <2>1. prices \in SUBSET Entries(shelf) /\ \A e \in prices : e.kind = "PRICE"
    BY <1>2
  <2> HIDE DEF prices
  <2>2. PICK S \in SUBSET (DOMAIN items) : CitedPrices(prices) = ListPrices(items, S)
    BY <1>1, <2>1, CitedArePrices
  <2>3. Distance(token.value, ListPrices(items, S)) <= 1
    BY <1>7, <2>2
  <2> HIDE DEF token
  <2>4. Justified(token.value, shelf)
    BY <2>3, JustifiedBySum
  <2> QED BY <2>4 DEF token
<1> QED BY <1>5, <1>6, <1>7

\* The audit keeps the claims that stand.
LEMMA AuditUpholds ==
  ASSUME NEW shelf, ReadyShelf(shelf), NEW proposal, {"items", "claims"} \subseteq DOMAIN proposal,
         NEW n \in Nat, DOMAIN proposal.claims = 1 .. n
  PROVE  Upholds(AuditCitations(proposal, shelf).effective.claims, shelf)
<1> DEFINE pack == BuildEvidencePack(shelf)  judged == Judged(proposal.claims, pack)
           P == {i \in DOMAIN judged : judged[i].verdict = "ok"}  at == Sorted(P)  m == Cardinality(P)
           kept == [i \in DOMAIN at |-> judged[at[i]]]
<1>1. AuditCitations(proposal, shelf).effective.claims = [i \in DOMAIN kept |-> kept[i].claim]
  <2>1. AuditCitations(proposal, shelf).effective = [proposal EXCEPT !.claims = [i \in DOMAIN kept |-> kept[i].claim]]
    BY DEF AuditCitations, AuditAgainst, Audited, Field, Picked
  <2> HIDE DEF kept
  <2> QED BY <2>1
<1>2. DOMAIN judged = 1 .. n /\ \A i \in 1 .. n : judged[i].claim = proposal.claims[i]
        /\ judged[i].verdict = JudgeClaim(proposal.claims[i], pack)
  BY DEF Judged
<1> HIDE DEF judged
<1>3. P \subseteq 1 .. n /\ P \in SUBSET Nat /\ IsFiniteSet(P)
  <2>1. IsFiniteSet(1 .. n)
    <3>1. 1 \in Int /\ n \in Int
      OBVIOUS
    <3> QED BY <3>1, FS_Interval
  <2>2. P \subseteq 1 .. n
    BY <1>2
  <2> HIDE DEF P
  <2>3. P \in SUBSET Nat
    BY <2>2
  <2> QED BY <2>1, <2>2, <2>3, FS_Subset
<1>4. at \in [1 .. m -> P]
  <2> HIDE DEF P
  <2> QED BY <1>3, SortedIs
<1>5. \A i \in P : judged[i].verdict = "ok"
  OBVIOUS
<1> HIDE DEF P, at, m
<1>6. DOMAIN kept = 1 .. m /\ \A i \in 1 .. m : kept[i] = judged[at[i]]
  BY <1>4
<1> HIDE DEF kept
<1>7. ASSUME NEW i \in DOMAIN kept PROVE Upheld(kept[i].claim, shelf)
  <2>1. at[i] \in P /\ at[i] \in 1 .. n /\ kept[i] = judged[at[i]]
    BY <1>3, <1>4, <1>6
  <2>2. kept[i].claim = proposal.claims[at[i]] /\ JudgeClaim(proposal.claims[at[i]], pack) = "ok"
    BY <1>2, <1>5, <2>1
  <2> QED BY <2>2, ClaimStands
<1> QED BY <1>1, <1>7 DEF Upholds

\* The fallback quotes list prices.
LEMMA FallbackUpholds ==
  ASSUME NEW shelf, ReadyShelf(shelf), NEW lines, Stands(lines, shelf), NEW pack
  PROVE  Upholds(FallbackClaims(lines, shelf, pack), shelf)
<1> DEFINE n == Len(lines)  item(i) == shelf.items[lines[i].sku]
           name(i) == IF item(i).label = 0 THEN <<>> ELSE <<Token("COUNT", item(i).label, FALSE)>>
           claim(i, kind, token) == [kind |-> kind, ids |-> {EntryOf(pack, kind, lines[i].sku)},
                                     tokens |-> Append(name(i), token)]
           priced(i) == claim(i, "PRICE", Token("RUPEE", item(i).price, FALSE))
           stocked(i) == claim(i, "STOCK", Token("COUNT", item(i).stock, FALSE))
           X == {priced(i) : i \in 1 .. n} \cup {stocked(i) : i \in 1 .. n}
           pairs == [i \in 1 .. n |-> <<priced(i), stocked(i)>>]
<1>1. lines \in Seq(CartLine) /\ n \in Nat /\ DOMAIN lines = 1 .. n
      /\ \A i \in 1 .. n : lines[i].sku \in DOMAIN shelf.items
  BY DEF Stands
<1> HIDE DEF n
<1>2. FallbackClaims(lines, shelf, pack) = FlattenSeq(pairs)
  BY <1>1 DEF FallbackClaims
<1>3. ASSUME NEW i \in 1 .. n PROVE Justified(item(i).price, shelf)
  <2>1. lines[i].sku \in DOMAIN shelf.items /\ GroundTruth(shelf.items)
    BY <1>1 DEF ReadyShelf
  <2> DEFINE s == lines[i].sku  price == shelf.items[s].price
  <2>2. price \in Nat /\ price = ListPrices(shelf.items, {s}) /\ {s} \in SUBSET (DOMAIN shelf.items)
    BY <2>1, ItemIs, OnePrice
  <2> HIDE DEF price, s
  <2>3. Distance(price, ListPrices(shelf.items, {s})) <= 1
    BY <2>2 DEF Distance
  <2>4. Justified(price, shelf)
    BY <2>2, <2>3, JustifiedBySum
  <2> QED BY <2>4 DEF price, s
<1>4. ASSUME NEW i \in 1 .. n PROVE Upheld(priced(i), shelf) /\ Upheld(stocked(i), shelf)
  <2> DEFINE rupees == Token("RUPEE", item(i).price, FALSE)  count == Token("COUNT", item(i).stock, FALSE)
             named == name(i)
  <2>1. named = <<>> \/ \E c : named = <<Token("COUNT", c, FALSE)>>
    OBVIOUS
  <2>2. priced(i).tokens = Append(named, rupees) /\ stocked(i).tokens = Append(named, count)
    OBVIOUS
  <2>3. rupees.value = item(i).price /\ count.unit = "COUNT" /\ \A c : Token("COUNT", c, FALSE).unit = "COUNT"
    BY DEF Token
  <2>4. Justified(rupees.value, shelf)
    BY <1>3, <2>3
  <2> HIDE DEF item, named, rupees, count, priced, stocked
  <2>5. \A t : (t.unit = "RUPEE" => Justified(t.value, shelf)) =>
          \A k \in DOMAIN Append(named, t) : Append(named, t)[k].unit = "RUPEE" => Justified(Append(named, t)[k].value, shelf)
    <3>1. CASE named = <<>>
      BY <3>1
    <3>2. CASE \E c : named = <<Token("COUNT", c, FALSE)>>
      <4>1. PICK c : named = <<Token("COUNT", c, FALSE)>>
        BY <3>2
      <4> DEFINE first == Token("COUNT", c, FALSE)
      <4>2. first.unit # "RUPEE" /\ named = <<first>>
        BY <2>3, <4>1
      <4> HIDE DEF first
      <4> QED BY <4>2
    <3> QED BY <2>1, <3>1, <3>2
  <2>6. count.unit # "RUPEE"
    BY <2>3
  <2> QED BY <2>2, <2>4, <2>5, <2>6 DEF Upheld
<1>5. \A x \in X : Upheld(x, shelf)
  <2> HIDE DEF priced, stocked
  <2> QED BY <1>4
<1>6. pairs \in [1 .. n -> Seq(X)]
  <2>1. ASSUME NEW i \in 1 .. n PROVE <<priced(i), stocked(i)>> \in Seq(X)
    <3>1. priced(i) \in X /\ stocked(i) \in X
      OBVIOUS
    <3> HIDE DEF X, priced, stocked
    <3> QED BY <3>1
  <2> HIDE DEF X, priced, stocked
  <2> QED BY <2>1
<1>7. FlattenSeq(pairs) \in Seq(X)
  <2> DEFINE w == [x \in X |-> 0]
  <2>1. w \in [X -> Int]
    OBVIOUS
  <2> HIDE DEF pairs, X, w
  <2> QED BY <1>1, <1>6, <2>1, FlatWeighs
<1> DEFINE flat == FlattenSeq(pairs)
<1>8. \A i \in DOMAIN flat : flat[i] \in X
  <2> HIDE DEF flat, X
  <2>1. flat \in Seq(X)
    BY <1>7 DEF flat
  <2> QED BY <2>1
<1> HIDE DEF pairs, X
<1> QED BY <1>2, <1>5, <1>8 DEF Upholds

----------------------------------------------------------------------------
(* The offer of the negotiation stage.                                      *)

Offered(p, shelf) == Stands(p.items, shelf) /\ p.pct \in Percent /\ Upholds(p.claims, shelf)

LEMMA BundleIs ==
  ASSUME NEW request \in Seq(CartLine), NEW shelf, ReadyShelf(shelf)
  PROVE  Offered(BuildFallbackBundle(request, shelf), shelf)
<1> DEFINE core == Core(request, shelf)  nudged == Nudge(Complement(core, shelf), shelf)
<1>0. 0 \in Percent /\ 5000 \in Percent
  BY DEF Percent
<1>1. Stands(core, shelf) /\ GroundTruth(shelf.items)
  BY CoreIs DEF ReadyShelf
<1>2. BuildFallbackBundle(request, shelf) = BundleAround(core, shelf)
  BY DEF BuildFallbackBundle
<1> HIDE DEF core
<1>3. CASE core = <<>>
  <2>1. Stands(<<>>, shelf) /\ Upholds(<<>>, shelf)
    BY EmptyStands DEF Upholds
  <2> QED BY <1>0, <1>2, <1>3, <2>1 DEF BundleAround, Offered
<1>4. CASE core # <<>>
  <2>1. BuildFallbackBundle(request, shelf) = Bundle(nudged, shelf)
    BY <1>2, <1>4 DEF BundleAround
  <2>2. Stands(nudged.lines, shelf)
    BY <1>1, ComplementIs, NudgeIs
  <2> HIDE DEF nudged
  <2>3. Upholds(FallbackClaims(nudged.lines, shelf, BuildEvidencePack(shelf)), shelf)
    BY <2>2, FallbackUpholds
  <2>4. /\ Bundle(nudged, shelf).claims = FallbackClaims(nudged.lines, shelf, BuildEvidencePack(shelf))
        /\ Bundle(nudged, shelf).items = nudged.lines
        /\ Bundle(nudged, shelf).pct = IF Len(nudged.lines) >= 2 THEN 5000 ELSE 0
    BY DEF Bundle
  <2> QED BY <1>0, <2>1, <2>2, <2>3, <2>4 DEF Offered
<1> QED BY <1>3, <1>4

\* A proposal that is not refused names only what the shelf holds.
Proposed(p) ==
  /\ DOMAIN p = {"items", "pct", "claims", "priorities"}
  /\ p.items \in Seq(CartLine) /\ Len(p.items) \in 1 .. 6 /\ p.pct \in Percent
  /\ DOMAIN p.claims = 1 .. Len(p.claims) /\ Len(p.claims) \in Nat
  /\ \A i \in 1 .. Len(p.items) : p.items[i].qty \in 1 .. 5
  /\ \A i, j \in 1 .. Len(p.items) : p.items[i].sku = p.items[j].sku => i = j

LEMMA AuditKeeps ==
  ASSUME NEW proposal, Proposed(proposal), NEW shelf, ReadyShelf(shelf), AuditCitations(proposal, shelf).verdict # "FAILED"
  PROVE  Offered(AuditCitations(proposal, shelf).effective, shelf)
<1> DEFINE audit == AuditCitations(proposal, shelf)  items == proposal.items
<1>1. /\ \E claims : audit.effective = [proposal EXCEPT !.claims = claims]
      /\ ~Unsellable(proposal, shelf)
  BY DEF AuditCitations, AuditAgainst, Audited
<1>2. PICK claims : audit.effective = [proposal EXCEPT !.claims = claims]
  BY <1>1
<1>3. [proposal EXCEPT !.claims = claims].items = proposal.items
      /\ [proposal EXCEPT !.claims = claims].pct = proposal.pct
  BY DEF Proposed
<1>4. items \in Seq(CartLine) /\ Len(items) \in 1 .. 6 /\ DOMAIN items = 1 .. Len(items) /\ proposal.pct \in Percent
  BY DEF Proposed
<1>5. \A i \in DOMAIN items : items[i].sku \in DOMAIN shelf.items /\ items[i].qty <= shelf.items[items[i].sku].stock
  BY <1>1 DEF Unsellable, ItemStands
<1>6. Stands(items, shelf)
  BY <1>4, <1>5 DEF Stands, Proposed
<1>7. Upholds(audit.effective.claims, shelf)
  <2>1. {"items", "claims"} \subseteq DOMAIN proposal /\ Len(proposal.claims) \in Nat
        /\ DOMAIN proposal.claims = 1 .. Len(proposal.claims)
    BY DEF Proposed
  <2> QED BY <2>1, AuditUpholds
<1> QED BY <1>2, <1>3, <1>4, <1>6, <1>7 DEF Offered

LEMMA NegotiationIs ==
  ASSUME NEW reply, NEW request \in Seq(CartLine), NEW shelf, ReadyShelf(shelf),
         reply.kind = "parsed" => Proposed(reply.proposal)
  PROVE  Offered(RunNegotiation(reply, request, shelf).proposal, shelf)
<1> DEFINE out == RunNegotiation(reply, request, shelf)
           audit == AuditCitations(reply.proposal, shelf)
           bundle == BuildFallbackBundle(request, shelf)
<1>1. out = StageResult(reply.kind = "parsed", audit, request, shelf)
  BY DEF RunNegotiation
<1> HIDE DEF out
<1>2. Offered(bundle, shelf)
  BY BundleIs
<1>3. reply.kind = "parsed" /\ audit.verdict # "FAILED" => Offered(audit.effective, shelf)
  BY AuditKeeps
<1> HIDE DEF audit
<1>4. CASE reply.kind = "parsed" /\ audit.verdict # "FAILED"
  <2>1. out.proposal = audit.effective
    BY <1>1, <1>4 DEF StageResult
  <2> QED BY <1>3, <1>4, <2>1 DEF out
<1>5. CASE ~(reply.kind = "parsed" /\ audit.verdict # "FAILED")
  <2>1. out = FallenBack(bundle, shelf)
    BY <1>1, <1>5 DEF StageResult, FinishWithFallback
  <2> HIDE DEF bundle
  <2>2. out.proposal = bundle
    BY <2>1 DEF FallenBack
  <2> QED BY <1>2, <2>2 DEF out
<1> QED BY <1>4, <1>5

\* Six lines of five units.
LEMMA UnitsAreFew ==
  ASSUME NEW lines, NEW shelf, Stands(lines, shelf)
  PROVE  UnitsOf(lines) \in 0 .. MostUnits
<1> DEFINE n == Len(lines)  u == [i \in 1 .. n |-> Larger(0, lines[i].qty)]
           ones == [i \in 1 .. n |-> 1]  fives == [i \in 1 .. n |-> 5]
<1>1. lines \in Seq(CartLine) /\ n \in Nat /\ n <= 6 /\ DOMAIN lines = 1 .. n
  BY DEF Stands
<1>2. \A i \in 1 .. n : lines[i].qty \in 1 .. 5
  BY DEF Stands
<1> HIDE DEF n
<1>3. UnitsOf(lines) = SumSeq(u)
  BY <1>1 DEF UnitsOf
<1>4. u \in [1 .. n -> Nat] /\ \A i \in 1 .. n : u[i] <= 5
  BY <1>2 DEF Larger
<1>5. /\ ones \in [1 .. n -> Int] /\ \A i \in 1 .. n : ones[i] \in {0, 1} /\ ones[i] = 1
      /\ fives \in [1 .. n -> Int] /\ \A i \in 1 .. n : fives[i] = 5 /\ fives[i] = 5 * ones[i]
  OBVIOUS
<1> HIDE DEF u, ones, fives
<1>6. SumSeq(u) \in Nat
  BY <1>1, <1>4, SumIsNat
<1>7. u \in [1 .. n -> Int] /\ \A i \in 1 .. n : u[i] <= fives[i]
  BY <1>4, <1>5
<1>8. SumSeq(u) <= SumSeq(fives)
  BY <1>1, <1>5, <1>7, SumCompares
<1>9. SumSeq(ones) = n
  <2>1. SumSeq(ones) = Cardinality({i \in 1 .. n : ones[i] = 1})
    BY <1>1, <1>5, SumCounts
  <2>2. {i \in 1 .. n : ones[i] = 1} = 1 .. n
    BY <1>5
  <2>3. Cardinality(1 .. n) = n
    BY <1>1, FS_Interval
  <2> QED BY <2>1, <2>2, <2>3
<1>10. SumSeq(fives) = 5 * SumSeq(ones)
  <2>1. 5 \in Int /\ \A i \in 1 .. n : fives[i] = 5 * ones[i]
    BY <1>5
  <2> QED BY <1>1, <1>5, <2>1, SumScales, ZenonT(60)
<1> DEFINE units == SumSeq(u)  most == SumSeq(fives)
<1> HIDE DEF units, most
<1>11. units \in Nat /\ units <= most /\ most = 5 * n
  BY <1>6, <1>8, <1>9, <1>10 DEF units, most
<1>12. units \in 0 .. 30
  BY <1>1, <1>11
<1> QED BY <1>3, <1>12 DEF MostUnits, units

LEMMA FewerFit ==
  ASSUME NEW items, GroundTruth(items), NEW m \in Nat, NEW n \in Nat, m <= n, Fits(items, n)
  PROVE  Fits(items, m)
<1>1. ASSUME NEW s \in DOMAIN items
      PROVE  m * items[s].price \in Paise /\ m * items[s].cost \in Paise
  <2>1. n * items[s].price \in Paise /\ n * items[s].cost \in Paise
    BY DEF Fits
  <2>2. items[s].price \in Nat /\ items[s].cost \in Nat
    BY ItemIs
  <2>3. ASSUME NEW x \in Nat, n * x \in Paise PROVE m * x \in Paise
    <3>1. x * m <= x * n
      BY MulMono
    <3>2. x * m = m * x /\ x * n = n * x /\ m * x \in Nat
      OBVIOUS
    <3>3. n * x <= MaxSafe /\ n * x \in Nat
      BY <2>3, SchemasAssumption DEF Paise
    <3> DEFINE a == m * x  b == n * x
    <3>4. a <= b /\ a \in Nat /\ b <= MaxSafe /\ b \in Nat
      BY <3>1, <3>2, <3>3
    <3> HIDE DEF a, b
    <3>5. a \in 0 .. MaxSafe
      BY <3>4, SchemasAssumption
    <3> QED BY <3>5 DEF a, Paise
  <2> QED BY <2>1, <2>2, <2>3
<1> QED BY <1>1 DEF Fits

\* The total of the adapter is a number.
LEMMA CartIsReady ==
  ASSUME NEW p, NEW shelf, Offered(p, shelf), GroundTruth(shelf.items), shelf.now \in Nat
  PROVE  LET cart == ToProposedCart(p, shelf) IN
         ReadyCart(cart) /\ cart.lines = p.items /\ cart.pct = p.pct
<1> DEFINE n == Len(p.items)  item(l) == IF l.sku \in DOMAIN shelf.items THEN shelf.items[l.sku].price ELSE 0
           prices == [i \in 1 .. n |-> item(p.items[i]) * p.items[i].qty]
           gross == SumSeq(prices)  discount == (gross * ToBps(p.pct) + 5000) \div 10000
           cart == ToProposedCart(p, shelf)
<1>1. p.items \in Seq(CartLine) /\ n \in Nat /\ DOMAIN p.items = 1 .. n /\ p.pct \in Nat
  BY DEF Offered, Stands, Percent
<1>2. cart = [lines |-> p.items, pct |-> p.pct, aiTotal |-> gross - discount, finite |-> TRUE,
              issued |-> shelf.now, expires |-> shelf.now + ProposalTTL, audited |-> TRUE]
  BY <1>1 DEF ToProposedCart
<1>3. ASSUME NEW i \in 1 .. n PROVE prices[i] \in Int
  <2>1. p.items[i].qty \in Int /\ p.items[i].sku \in DOMAIN shelf.items
    BY DEF Offered, Stands
  <2>2. item(p.items[i]) \in Int
    BY <2>1, ItemIs
  <2> QED BY <2>1, <2>2
<1>4. prices \in [1 .. n -> Int]
  BY <1>3
<1>5. gross \in Int
  <2> HIDE DEF prices, n
  <2> QED BY <1>1, <1>4, SumIsInt
<1>6. ToBps(p.pct) \in Int
  BY <1>1 DEF ToBps
<1> HIDE DEF gross
<1>7. discount \in Int
  <2>1. gross * ToBps(p.pct) \in Int
    BY <1>5, <1>6
  <2> DEFINE g == gross * ToBps(p.pct)
  <2> HIDE DEF g
  <2>2. (g + 5000) \div 10000 \in Int
    BY <2>1 DEF g
  <2> QED BY <2>2 DEF g
<1> HIDE DEF discount, cart
<1>8. cart.lines = p.items /\ cart.pct = p.pct /\ cart.aiTotal \in Int /\ cart.finite = TRUE
      /\ cart.issued = shelf.now /\ cart.expires = shelf.now + ProposalTTL /\ cart.audited = TRUE
  BY <1>2, <1>5, <1>7
<1>9. cart.issued \in Int /\ cart.expires \in Int /\ cart.pct \in Int
  BY <1>1, <1>8 DEF ProposalTTL
<1>10. ReadyCart(cart)
  BY <1>1, <1>8, <1>9 DEF ReadyCart
<1> QED BY <1>8, <1>10 DEF cart

----------------------------------------------------------------------------
(* The invariant of a decision.                                            *)

\* The settleable is what the gate let through, as its lines were priced.
Minted ==
  /\ job.kind = "offer" /\ verdict # None /\ verdict.outcome # "DECLINE"
  /\ settleable = MintSettleable(verdict.totals.perLine, job.shelf.items, job.rules.backorderSkus)

OffersInv ==
  /\ ReadyJob(job)
  /\ phase \in {"calling", "gating", "escalated", "approved", "minted", "done"}
  /\ job.kind = "gate" => phase \in {"gating", "done"}
  /\ negotiated # None => job.kind = "offer" /\ phase # "calling"
  /\ job.kind = "offer" /\ phase # "calling" => Offered(negotiated.proposal, job.shelf)
  /\ phase \in {"calling", "gating"} => verdict = None
  /\ verdict # None => verdict = EvaluateProposal(GateInput)
  /\ phase \in {"escalated", "approved"} => verdict # None /\ verdict.outcome # "DECLINE"
  /\ phase \in {"calling", "gating", "escalated", "approved"} => settleable = <<>> /\ mandate = <<>>
  /\ phase = "minted" => mandate = <<>>
  /\ phase = "minted" \/ settleable # <<>> \/ mandate # <<>> => Minted
  /\ mandate # <<>> =>
       mandate = <<BuildCartMandate(settleable, LinesTotal(settleable), job.shelf.items)>>

LEMMA GateInputIs ==
  ASSUME OffersInv, phase # "calling"
  PROVE  ReadyInput(GateInput) /\ (job.kind = "offer" => GateInput.items = job.shelf.items)
<1>1. ReadyJob(job) /\ (job.kind = "offer" => Offered(negotiated.proposal, job.shelf))
  BY DEF OffersInv
<1>2. CASE job.kind = "gate"
  <2>1. GateInput = job.input
    BY <1>2 DEF GateInput
  <2>2. ReadyInput(job.input) /\ job.kind # "offer"
    BY <1>1, <1>2 DEF ReadyJob
  <2> QED BY <2>1, <2>2
<1>3. CASE job.kind = "offer"
  <2> DEFINE p == negotiated.proposal  cart == ToProposedCart(p, job.shelf)  in == GateInput
  <2>1. /\ in.cart = cart /\ in.items = job.shelf.items /\ in.rules = job.rules
        /\ in.velocity = job.velocity /\ in.now = job.shelf.now
        /\ in.suspected = ScanCustomerNote(job.note)
    BY <1>3 DEF GateInput
  <2> HIDE DEF in
  <2>2. /\ GroundTruth(job.shelf.items) /\ Fits(job.shelf.items, MostUnits) /\ job.shelf.now \in Nat
        /\ ReadyRules(job.rules) /\ ReadyHistory(job.velocity)
    BY <1>1, <1>3 DEF ReadyJob, ReadyShelf
  <2>3. Offered(p, job.shelf)
    BY <1>1, <1>3
  <2>4. ReadyCart(cart) /\ cart.lines = p.items
    BY <2>2, <2>3, CartIsReady
  <2>5. UnitsOf(p.items) \in Nat /\ UnitsOf(p.items) <= MostUnits
    <3>1. UnitsOf(p.items) \in 0 .. MostUnits
      BY <2>3, UnitsAreFew DEF Offered
    <3> QED BY <3>1 DEF MostUnits
  <2>6. Fits(job.shelf.items, UnitsOf(p.items))
    <3>1. MostUnits \in Nat
      BY DEF MostUnits
    <3> QED BY <2>2, <2>5, <3>1, FewerFit
  <2>7. ScanCustomerNote(job.note) \in BOOLEAN
    BY DEF ScanCustomerNote
  <2> HIDE DEF cart, p
  <2>8. ReadyInput(in)
    BY <2>1, <2>2, <2>4, <2>6, <2>7 DEF ReadyInput
  <2> QED BY <2>1, <2>8 DEF in
<1> QED BY <1>1, <1>2, <1>3 DEF ReadyJob

\* Every answer of the model, and none, leaves an offer the shelf can fill.
LEMMA NegotiatedIs ==
  ASSUME OffersInv, job.kind = "offer",
         NEW reply, reply.kind = "parsed" => reply.proposal \in Proposals
  PROVE  Offered(RunNegotiation(reply, job.request, job.shelf).proposal, job.shelf)
<1>1. job.request \in Seq(CartLine) /\ ReadyShelf(job.shelf)
  BY DEF OffersInv, ReadyJob
<1>2. ASSUME NEW p \in Proposals PROVE Proposed(p)
  <2>1. ReadyProposal(p)
    BY OffersAssumption
  <2>2. ValidProposal(p) /\ p.items \in Seq(CartLine) /\ DOMAIN p = {"items", "pct", "claims", "priorities"}
        /\ DOMAIN p.claims = 1 .. Len(p.claims)
    BY <2>1 DEF ReadyProposal
  <2>3. /\ Len(p.items) \in 1 .. 6 /\ Len(p.claims) \in 1 .. 12 /\ p.pct \in Percent
        /\ \A i \in DOMAIN p.items : p.items[i].qty \in 1 .. 5
        /\ \A i, j \in DOMAIN p.items : p.items[i].sku = p.items[j].sku => i = j
    BY <2>2, Zenon DEF ValidProposal
  <2>4. DOMAIN p.items = 1 .. Len(p.items)
    BY <2>2
  <2> QED BY <2>2, <2>3, <2>4 DEF Proposed
<1>3. reply.kind = "parsed" => Proposed(reply.proposal)
  BY <1>2
<1> QED BY <1>1, <1>3, NegotiationIs

LEMMA OffersInitial == OffersInit => OffersInv
<1> SUFFICES ASSUME OffersInit PROVE OffersInv
  OBVIOUS
<1>1. ReadyJob(job)
  BY OffersAssumption DEF OffersInit
<1>2. phase \in {"calling", "gating"} /\ (phase = "calling" <=> job.kind = "offer")
  BY DEF OffersInit
<1>3. negotiated = None /\ verdict = None /\ settleable = <<>> /\ mandate = <<>>
  BY DEF OffersInit
<1> QED BY <1>1, <1>2, <1>3 DEF OffersInv

\* From the call to the gate.
Heard ==
  /\ phase = "calling" /\ UNCHANGED <<job, verdict, settleable, mandate>>
  /\ \E reply : Negotiated(reply) /\ (reply.kind = "parsed" => reply.proposal \in Proposals)

LEMMA HeardKeeps ==
  ASSUME OffersInv, Heard
  PROVE  OffersInv'
<1>1. PICK reply : Negotiated(reply) /\ (reply.kind = "parsed" => reply.proposal \in Proposals)
  BY DEF Heard
<1>2. phase = "calling" /\ job' = job /\ verdict' = verdict /\ settleable' = settleable /\ mandate' = mandate
  BY DEF Heard
<1>3. Offered(negotiated'.proposal, job.shelf)
  <2>1. job.kind = "offer"
    BY <1>2 DEF OffersInv, ReadyJob
  <2>2. Offered(RunNegotiation(reply, job.request, job.shelf).proposal, job.shelf)
    BY <1>1, <2>1, NegotiatedIs
  <2>3. negotiated' = RunNegotiation(reply, job.request, job.shelf)
    BY <1>1 DEF Negotiated
  <2> QED BY <2>2, <2>3
<1>4. phase' = "gating"
  BY <1>1 DEF Negotiated
<1>5. ReadyJob(job') /\ verdict = None /\ settleable = <<>> /\ mandate = <<>>
  BY <1>2 DEF OffersInv
<1>6. job'.kind = "offer"
  BY <1>2 DEF OffersInv, ReadyJob
<1> QED BY <1>2, <1>3, <1>4, <1>5, <1>6 DEF OffersInv

LEMMA EvaluateKeeps ==
  ASSUME OffersInv, Evaluate
  PROVE  OffersInv'
<1>1. /\ phase = "gating" /\ verdict' = EvaluateProposal(GateInput)
      /\ job' = job /\ negotiated' = negotiated /\ settleable' = settleable /\ mandate' = mandate
  BY DEF Evaluate
<1>2. GateInput' = GateInput
  BY <1>1 DEF GateInput
<1>3. /\ phase' \in {"escalated", "approved", "done"}
      /\ job.kind = "gate" => phase' = "done"
      /\ phase' = "escalated" => verdict'.outcome = "ESCALATE"
      /\ phase' = "approved" => verdict'.outcome = "APPROVE"
  BY DEF Evaluate, After
<1>4. settleable = <<>> /\ mandate = <<>> /\ ReadyJob(job)
      /\ (job.kind = "offer" => Offered(negotiated.proposal, job.shelf))
  BY <1>1 DEF OffersInv
<1>5. phase' \in {"escalated", "approved"} => verdict' # None /\ verdict'.outcome # "DECLINE"
  BY <1>3 DEF None
<1> QED BY <1>1, <1>2, <1>3, <1>4, <1>5 DEF OffersInv

LEMMA AnsweredKeeps ==
  ASSUME OffersInv, Answered
  PROVE  OffersInv'
<1>1. /\ phase = "escalated" /\ phase' \in {"approved", "done"}
      /\ UNCHANGED <<job, negotiated, verdict, settleable, mandate>>
  BY DEF Answered
<1>2. GateInput' = GateInput
  BY <1>1 DEF GateInput
<1>3. job.kind # "gate" /\ verdict # None /\ verdict.outcome # "DECLINE" /\ settleable = <<>> /\ mandate = <<>>
  BY <1>1 DEF OffersInv
<1> QED BY <1>1, <1>2, <1>3 DEF OffersInv

LEMMA MintKeeps ==
  ASSUME OffersInv, MintLines
  PROVE  OffersInv'
<1>1. /\ phase = "approved" /\ phase' = "minted" /\ UNCHANGED <<job, negotiated, verdict, mandate>>
      /\ settleable' = MintSettleable(verdict.totals.perLine, job.shelf.items, job.rules.backorderSkus)
  BY DEF MintLines
<1>2. GateInput' = GateInput
  BY <1>1 DEF GateInput
<1>3. /\ verdict # None /\ verdict.outcome # "DECLINE" /\ mandate = <<>>
      /\ job.kind # "gate" /\ job.kind \in {"offer", "gate"}
  BY <1>1 DEF OffersInv, ReadyJob
<1>4. Minted'
  BY <1>1, <1>3 DEF Minted
<1> QED BY <1>1, <1>2, <1>3, <1>4 DEF OffersInv

LEMMA ShowKeeps ==
  ASSUME OffersInv, ShowMandate
  PROVE  OffersInv'
<1>1. /\ phase = "minted" /\ phase' = "done" /\ UNCHANGED <<job, negotiated, verdict, settleable>>
      /\ mandate' = <<BuildCartMandate(settleable, LinesTotal(settleable), job.shelf.items)>>
  BY DEF ShowMandate
<1>2. GateInput' = GateInput
  BY <1>1 DEF GateInput
<1>3. Minted
  BY <1>1 DEF OffersInv
<1>4. Minted'
  BY <1>1, <1>3 DEF Minted
<1>5. mandate' = <<BuildCartMandate(settleable, LinesTotal(settleable), job.shelf.items)>>'
  BY <1>1
<1> QED BY <1>1, <1>2, <1>4, <1>5 DEF OffersInv

LEMMA OffersStep == OffersInv /\ [OffersNext]_offerVars => OffersInv'
<1> SUFFICES ASSUME OffersInv, [OffersNext]_offerVars PROVE OffersInv'
  OBVIOUS
<1>1. CASE CallAnswers
  <2>1. \E reply : Negotiated(reply) /\ (reply.kind = "parsed" => reply.proposal \in Proposals)
    <3>1. CASE \E p \in Proposals : Negotiated([kind |-> "parsed", proposal |-> p])
      <4>1. PICK p \in Proposals : Negotiated([kind |-> "parsed", proposal |-> p])
        BY <3>1
      <4> DEFINE reply == [kind |-> "parsed", proposal |-> p]
      <4>2. Negotiated(reply) /\ reply.proposal \in Proposals
        BY <4>1
      <4> HIDE DEF reply
      <4> QED BY <4>2
    <3>2. CASE \E kind \in {"refusal", "max_tokens", "unparsed"} :
                 Negotiated([kind |-> kind, proposal |-> Unread])
      <4>1. PICK kind \in {"refusal", "max_tokens", "unparsed"} :
                 Negotiated([kind |-> kind, proposal |-> Unread])
        BY <3>2
      <4> DEFINE reply == [kind |-> kind, proposal |-> Unread]
      <4>2. Negotiated(reply) /\ reply.kind # "parsed"
        BY <4>1
      <4> HIDE DEF reply
      <4> QED BY <4>2
    <3> QED BY <1>1, <3>1, <3>2 DEF CallAnswers
  <2>2. Heard
    BY <1>1, <2>1 DEF CallAnswers, Heard
  <2> QED BY <2>2, HeardKeeps
<1> DEFINE thrown == [kind |-> "thrown", proposal |-> Unread]
<1>2. ASSUME phase = "calling", UNCHANGED <<job, verdict, settleable, mandate>>, Negotiated(thrown) PROVE OffersInv'
  <2>1. thrown.kind # "parsed"
    OBVIOUS
  <2> HIDE DEF thrown
  <2>2. Heard
    BY <1>2, <2>1 DEF Heard
  <2> QED BY <2>2, HeardKeeps
<1>3. CASE CallFails
  <2>1. phase = "calling" /\ UNCHANGED <<job, verdict, settleable, mandate>>
        /\ (Negotiated(thrown) \/ UNCHANGED <<phase, negotiated>>)
    BY <1>3 DEF CallFails
  <2>2. CASE Negotiated(thrown)
    BY <1>2, <2>1, <2>2
  <2>3. CASE UNCHANGED <<phase, negotiated>>
    <3>1. GateInput' = GateInput /\ Minted' = Minted
      BY <2>1, <2>3 DEF GateInput, Minted
    <3> QED BY <2>1, <2>3, <3>1 DEF OffersInv
  <2> QED BY <2>1, <2>2, <2>3
<1>4. CASE CallRejected
  BY <1>2, <1>4 DEF CallRejected
<1>5. CASE Evaluate
  BY <1>5, EvaluateKeeps
<1>6. CASE Answered
  BY <1>6, AnsweredKeeps
<1>7. CASE MintLines
  BY <1>7, MintKeeps
<1>8. CASE ShowMandate
  BY <1>8, ShowKeeps
<1>9. CASE UNCHANGED offerVars
  <2>1. /\ job' = job /\ phase' = phase /\ negotiated' = negotiated /\ verdict' = verdict
        /\ settleable' = settleable /\ mandate' = mandate
    BY <1>9 DEF offerVars
  <2>2. GateInput' = GateInput /\ Minted' = Minted
    BY <2>1 DEF GateInput, Minted
  <2> QED BY <2>1, <2>2 DEF OffersInv
<1> QED BY <1>1, <1>3, <1>4, <1>5, <1>6, <1>7, <1>8, <1>9 DEF OffersNext

LEMMA OffersConserve == OffersInv => PaiseConserved
<1> SUFFICES ASSUME OffersInv PROVE PaiseConserved
  OBVIOUS
<1> DEFINE in == GateInput  t == verdict.totals
<1>1. ASSUME verdict # None
      PROVE  /\ t.net = SumSeq(Field(t.perLine, LAMBDA l : l.net))
             /\ t.gross >= t.net
             /\ \A i \in DOMAIN t.perLine : t.perLine[i].net >= 0
  <2>1. verdict = EvaluateProposal(in) /\ phase # "calling"
    BY <1>1 DEF OffersInv
  <2>2. ReadyInput(in)
    BY <2>1, GateInputIs
  <2> HIDE DEF in
  <2>3. GateReady(in)
    BY <2>2, InputIsReady DEF InputReady
  <2> QED BY <2>1, <2>3, GateConserves
<1>2. ASSUME Minted
      PROVE  /\ LinesTotal(settleable) = t.net
             /\ \A s : QtyOf(settleable, s) = QtyOf(in.cart.lines, s)
             /\ \A s : QtyOf(AggregateHoldLines(settleable), s) = QtyOf(settleable, s)
             /\ LET m == BuildCartMandate(settleable, t.net, job.shelf.items) IN
                m.ok /\ ArithmeticConsistent(m) /\ m.total = t.net
  <2>1. job.kind = "offer" /\ verdict # None /\ verdict.outcome # "DECLINE"
        /\ settleable = MintSettleable(t.perLine, job.shelf.items, job.rules.backorderSkus)
    BY <1>2 DEF Minted
  <2>2. verdict = EvaluateProposal(in) /\ phase # "calling"
    BY <2>1 DEF OffersInv
  <2>3. GateReady(in) /\ in.items = job.shelf.items
    <3>1. ReadyInput(in) /\ in.items = job.shelf.items
      BY <2>1, <2>2, GateInputIs
    <3> HIDE DEF in
    <3> QED BY <3>1, InputIsReady DEF InputReady
  <2> HIDE DEF in
  <2>4. PICK k : Approvable(in, t, k)
    BY <2>1, <2>2, <2>3, ApprovedIs
  <2> HIDE DEF t
  <2>5. /\ settleable \in Seq(SettleLine) /\ LinesTotal(settleable) = t.net
        /\ \A s : QtyOf(settleable, s) = QtyOf(in.cart.lines, s)
        /\ Carries(settleable, Merged(in), k, in.items)
    <3>1. MintedFrom(in, t, settleable)
      BY <2>1, <2>3 DEF MintedFrom
    <3> QED BY <2>3, <2>4, <3>1, SettleableIs
  <2>6. LET m == BuildCartMandate(settleable, t.net, in.items) IN
        m.ok /\ ArithmeticConsistent(m) /\ m.total = t.net
    BY <2>3, <2>4, <2>5, ShownIs
  <2>7. \A s : QtyOf(AggregateHoldLines(settleable), s) = QtyOf(settleable, s)
    BY <2>5, HoldsAre
  <2> QED BY <2>3, <2>5, <2>6, <2>7
<1>3. settleable # <<>> \/ mandate # <<>> => Minted
  BY DEF OffersInv
<1>4. ASSUME mandate # <<>>
      PROVE  mandate[1].ok /\ ArithmeticConsistent(mandate[1]) /\ mandate[1].total = t.net
  <2> DEFINE m == BuildCartMandate(settleable, t.net, job.shelf.items)
  <2>1. Minted /\ mandate = <<BuildCartMandate(settleable, LinesTotal(settleable), job.shelf.items)>>
    BY <1>4 DEF OffersInv
  <2>2. LinesTotal(settleable) = t.net /\ m.ok /\ ArithmeticConsistent(m) /\ m.total = t.net
    BY <1>2, <2>1
  <2>3. mandate = <<m>>
    BY <2>1, <2>2
  <2> HIDE DEF m, t
  <2>4. mandate[1] = m
    BY <2>3
  <2> QED BY <2>2, <2>4
<1> HIDE DEF Minted
<1>5. ASSUME phase \in {"minted", "done"}, settleable # <<>>
      PROVE  /\ LinesTotal(settleable) = t.net
             /\ \A s \in SkusOf(in.cart.lines) :
                  /\ QtyOf(settleable, s) = QtyOf(in.cart.lines, s)
                  /\ QtyOf(AggregateHoldLines(settleable), s) = QtyOf(settleable, s)
  BY <1>2, <1>3, <1>5
<1> QED BY <1>1, <1>4, <1>5 DEF PaiseConserved

\* What the gate says of an input its schemas admit.
LEMMA GateIsRight ==
  ASSUME NEW in, ReadyInput(in), NEW v, v = EvaluateProposal(in)
  PROVE  /\ v.outcome = PolicyOutcome(in)
         /\ ValidResult(v)
         /\ v.outcome = "ESCALATE" => ReasonHolds(in, v)
         /\ ValidCart(in.cart) =>
              ~\E e \in Inner(v.trace, LAMBDA x : x.id = "STRUCTURE") : e.status = "FAIL"
<1>1. InputReady(in) /\ Fits(in.items, UnitsOf(in.cart.lines)) /\ GateReady(in)
  BY InputIsReady DEF InputReady
<1>2. v.outcome = PolicyOutcome(in)
  BY <1>1, OutcomeIs
<1>3. ValidResult(v)
  BY <1>1, ResultIsValid
<1>4. v.outcome = "ESCALATE" => ReasonHolds(in, v)
  BY <1>1, ReasonIs
<1>5. ASSUME ValidCart(in.cart)
      PROVE  ~\E e \in Inner(v.trace, LAMBDA x : x.id = "STRUCTURE") : e.status = "FAIL"
  <2>1. \A i \in 1 .. 16 : v.trace[i].id = "STRUCTURE" => v.trace[i].status # "FAIL"
    BY <1>1, <1>5, AdmittedIs
  <2>2. DOMAIN v.trace = 1 .. 16
    BY <1>3, RuleAt DEF ValidResult
  <2> QED BY <2>1, <2>2 DEF Inner
<1> QED BY <1>2, <1>3, <1>4, <1>5

LEMMA OffersFollowPolicy == OffersInv => GateFollowsPolicy
<1> SUFFICES ASSUME OffersInv, verdict # None
             PROVE  /\ verdict.outcome = PolicyOutcome(GateInput)
                    /\ ValidResult(verdict)
                    /\ verdict.outcome = "ESCALATE" => ReasonHolds(GateInput, verdict)
                    /\ ValidCart(GateInput.cart) =>
                         ~\E e \in Inner(verdict.trace, LAMBDA x : x.id = "STRUCTURE") : e.status = "FAIL"
  BY DEF GateFollowsPolicy
<1>1. verdict = EvaluateProposal(GateInput) /\ phase # "calling"
  BY DEF OffersInv
<1>2. ReadyInput(GateInput)
  BY <1>1, GateInputIs
<1> QED BY <1>1, <1>2, GateIsRight

----------------------------------------------------------------------------
(* An offer passes the rules that ask of its shelf.                         *)

\* The adapter's own rounding is the gate's.
LEMMA RoundingsAgree ==
  ASSUME NEW x \in Nat
  PROVE  (x + 5000) \div 10000 = IF (x % 10000) * 2 >= 10000 THEN x \div 10000 + 1 ELSE x \div 10000
OBVIOUS

\* The total an offer quotes is the one the gate computes.
LEMMA QuotedIs ==
  ASSUME NEW p, NEW shelf, Offered(p, shelf), GroundTruth(shelf.items)
  PROVE  LET cart == ToProposedCart(p, shelf) IN
         /\ cart.aiTotal = NetTotal(cart, shelf.items)
         /\ cart.lines = p.items /\ cart.pct = p.pct /\ cart.finite = TRUE
<1> DEFINE n == Len(p.items)  item(l) == IF l.sku \in DOMAIN shelf.items THEN shelf.items[l.sku].price ELSE 0
           prices == [i \in DOMAIN p.items |-> item(p.items[i]) * p.items[i].qty]
           gross == SumSeq(prices)  bps == ToBps(p.pct)  discount == (gross * bps + 5000) \div 10000
           cart == ToProposedCart(p, shelf)
<1>1. p.items \in Seq(CartLine) /\ n \in Nat /\ DOMAIN p.items = 1 .. n
  BY DEF Offered, Stands
<1>2. cart = [lines |-> p.items, pct |-> p.pct, aiTotal |-> gross - discount, finite |-> TRUE,
              issued |-> shelf.now, expires |-> shelf.now + ProposalTTL, audited |-> TRUE]
  BY DEF ToProposedCart
<1>3. \A i \in 1 .. n : p.items[i].qty \in 1 .. 5 /\ p.items[i].sku \in DOMAIN shelf.items
  BY DEF Offered, Stands
<1>4. ListTotal(p.items, shelf.items) = gross
  <2>1. \A i \in DOMAIN p.items : item(p.items[i]) = shelf.items[p.items[i].sku].price
    BY <1>1, <1>3
  <2>2. prices = [i \in DOMAIN p.items |-> shelf.items[p.items[i].sku].price * p.items[i].qty]
    BY <2>1
  <2> HIDE DEF prices
  <2> QED BY <2>2 DEF ListTotal
<1>5. prices \in [1 .. n -> Nat]
  <2>1. ASSUME NEW i \in 1 .. n PROVE prices[i] \in Nat
    <3>1. p.items[i].sku \in DOMAIN shelf.items /\ p.items[i].qty \in Nat
      BY <1>3
    <3>2. shelf.items[p.items[i].sku].price \in Nat
      BY <3>1, ItemIs
    <3>3. item(p.items[i]) \in Nat
      BY <3>1, <3>2
    <3>4. \A x, y \in Nat : x * y \in Nat
      OBVIOUS
    <3> HIDE DEF item
    <3> QED BY <1>1, <3>1, <3>3, <3>4
  <2> QED BY <1>1, <2>1
<1>6. gross \in Nat
  <2> HIDE DEF prices, n
  <2> QED BY <1>1, <1>5, SumIsNat
<1> HIDE DEF gross
<1>7. bps \in Nat
  <2>1. p.pct \in Percent
    BY DEF Offered
  <2> QED BY <2>1, BpsIs DEF BasisPoints
<1> HIDE DEF bps
<1>8. discount = MulDivRoundHalfUp(gross, bps, 10000)
  <2> DEFINE x == gross * bps
  <2>1. x \in Nat
    BY <1>6, <1>7
  <2>2. MulDivRoundHalfUp(gross, bps, 10000) = IF (x % 10000) * 2 >= 10000 THEN x \div 10000 + 1 ELSE x \div 10000
    BY DEF MulDivRoundHalfUp
  <2>3. discount = (x + 5000) \div 10000
    OBVIOUS
  <2> HIDE DEF x, discount
  <2> QED BY <2>1, <2>2, <2>3, RoundingsAgree
<1> HIDE DEF discount, cart
<1>9. cart.aiTotal = gross - discount /\ cart.lines = p.items /\ cart.pct = p.pct /\ cart.finite = TRUE
  BY <1>2
<1>10. NetTotal(cart, shelf.items) = gross - MulDivRoundHalfUp(gross, bps, 10000)
  BY <1>4, <1>9 DEF NetTotal, bps
<1> QED BY <1>8, <1>9, <1>10 DEF cart

\* Distinct skus: what was asked of one is what its line says.
LEMMA AskedOnce ==
  ASSUME NEW lines, NEW shelf, Stands(lines, shelf), GroundTruth(shelf.items), NEW s \in SkusOf(lines)
  PROVE  /\ s \in DOMAIN shelf.items
         /\ QtyOf(lines, s) \in 1 .. 5 /\ QtyOf(lines, s) <= shelf.items[s].stock
<1> DEFINE n == Len(lines)
<1>1. lines \in Seq(CartLine) /\ n \in Nat /\ DOMAIN lines = 1 .. n
  BY DEF Stands
<1>2. /\ \A i \in 1 .. n : /\ lines[i].sku \in DOMAIN shelf.items
                           /\ lines[i].qty \in 1 .. 5 /\ lines[i].qty <= shelf.items[lines[i].sku].stock
      /\ \A i, j \in 1 .. n : lines[i].sku = lines[j].sku => i = j
  BY DEF Stands
<1> HIDE DEF n
<1>3. PICK i \in 1 .. n : lines[i].sku = s
  BY <1>1 DEF SkusOf
<1>4. \A j \in 1 .. n : lines[j].qty \in Int
  BY <1>2
<1>5. \A j \in 1 .. n : lines[j].sku = s <=> j = i
  BY <1>2, <1>3
<1>6. QtyOf(lines, s) = lines[i].qty
  BY <1>1, <1>4, <1>5, QtyIs
<1> QED BY <1>2, <1>3, <1>6

LEMMA StockHas ==
  ASSUME NEW in, GateReady(in),
         \A s \in SkusOf(in.cart.lines) : s \in DOMAIN in.items /\ QtyOf(in.cart.lines, s) <= in.items[s].stock
  PROVE  StockAvailability(BuildContext(in)) = "PASS"
<1> DEFINE c == BuildContext(in)  skus == SkusOf(in.cart.lines)  m == Merged(in)
           ok == ~in.rules.requireStock \/ \A i \in DOMAIN m : m[i].sku \in DOMAIN in.items =>
                    (m[i].qty <= in.items[m[i].sku].stock \/ m[i].sku \in in.rules.backorderSkus)
<1>1. c.in = in /\ c.lines = m
  BY ContextHas
<1>2. SkusOf(m) = skus /\ \A i \in DOMAIN m : m[i].qty = QtyOf(in.cart.lines, m[i].sku)
  BY MergedHas DEF GateReady, Merged
<1> HIDE DEF c, m
<1>3. \A i \in DOMAIN m : m[i].sku \in skus
  BY <1>2 DEF SkusOf
<1>4. StockAvailability(c) = PassIf(ok)
  BY <1>1 DEF StockAvailability, EveryKnownLine
<1>5. ok
  BY <1>2, <1>3
<1> HIDE DEF ok
<1> QED BY <1>4, <1>5, PassIs DEF c

LEMMA OfferPasses ==
  ASSUME NEW in, InputReady(in), NEW p, NEW shelf, Offered(p, shelf), p.items # <<>>,
         in.items = shelf.items, in.cart = ToProposedCart(p, shelf), NEW i \in 1 .. 16,
         RuleIds[i] \in {"STRUCTURE", "SKU", "DRIFT", "STOCK"}
  PROVE  RunRules(BuildContext(in))[i].status = "PASS"
<1> DEFINE c == BuildContext(in)  t == RunRules(c)  net == c.totals.net
<1>1. GateReady(in) /\ ReadyRules(in.rules) /\ GroundTruth(shelf.items)
  BY DEF InputReady, GateReady
<1>2. in.cart.aiTotal = NetTotal(in.cart, in.items) /\ in.cart.lines = p.items /\ in.cart.pct = p.pct /\ in.cart.finite
  <2> DEFINE cart == ToProposedCart(p, shelf)
  <2>1. /\ cart.aiTotal = NetTotal(cart, shelf.items)
        /\ cart.lines = p.items /\ cart.pct = p.pct /\ cart.finite = TRUE
    BY <1>1, QuotedIs
  <2> HIDE DEF cart
  <2>2. in.cart = cart
    BY DEF cart
  <2> QED BY <2>1, <2>2
<1>3. ASSUME NEW s \in SkusOf(in.cart.lines)
      PROVE  s \in DOMAIN in.items /\ QtyOf(in.cart.lines, s) > 0 /\ QtyOf(in.cart.lines, s) <= in.items[s].stock
  <2>1. Stands(p.items, shelf)
    BY DEF Offered
  <2>2. s \in DOMAIN shelf.items /\ QtyOf(p.items, s) \in 1 .. 5 /\ QtyOf(p.items, s) <= shelf.items[s].stock
    BY <1>1, <1>2, <1>3, <2>1, AskedOnce
  <2> QED BY <1>2, <2>2
<1>4. SoundCart(in)
  <2>1. in.cart.pct \in Percent
    BY <1>2 DEF Offered
  <2> QED BY <1>2, <1>3, <2>1 DEF SoundCart
<1>5. c.structure /\ c.resolved /\ (c.drifted <=> Disputed(in, net))
  BY <1>1, <1>4, SoundnessIs, ContextHas
<1>6. net = NetTotal(in.cart, in.items) /\ net \in Nat
  BY <1>1, <1>4, TotalsAre
<1>7. StockAvailability(c) = "PASS"
  BY <1>1, <1>3, StockHas
<1>8. Marked(t, c)
  BY TraceMarked
<1> HIDE DEF c, net
<1>9. ~c.drifted
  <2>1. Distance(in.cart.aiTotal, net) = 0
    BY <1>2, <1>6 DEF Distance
  <2> DEFINE x == MulDivRoundHalfUp(net, in.rules.driftPpm, 1000000)  million == 1000000
  <2>2. x \in Nat
    <3>1. in.rules.driftPpm \in Nat
      BY <1>1, LimitsAre
    <3>2. million \in Nat \ {0}
      OBVIOUS
    <3>3. x = MulDivRoundHalfUp(net, in.rules.driftPpm, million)
      OBVIOUS
    <3> HIDE DEF million, x
    <3> QED BY <1>6, <3>1, <3>2, <3>3, RoundsToInt
  <2>3. DriftThreshold(net, in.rules) = Larger(2, x)
    BY DEF DriftThreshold
  <2> HIDE DEF x
  <2>4. Larger(2, x) \in Nat
    BY <2>2 DEF Larger
  <2> QED BY <1>5, <2>1, <2>3, <2>4 DEF Disputed
<1>10. CartStructure(c) = "PASS" /\ SkuResolution(c) = "PASS" /\ TotalsDrift(c) = "PASS"
  BY <1>5, <1>9 DEF CartStructure, SkuResolution, TotalsDrift, PassIf
<1> HIDE DEF t
<1>11. t[4].status = "PASS" /\ t[5].status = "PASS" /\ t[6].status = "PASS" /\ t[11].status = "PASS"
  BY <1>7, <1>8, <1>10 DEF Marked
<1>12. i \in {4, 5, 6, 11}
  BY Sixteen, RuleAt
<1> QED BY <1>11, <1>12 DEF t, c

\* An offer of the shelf is one its schema admits.
LEMMA OfferIsValid ==
  ASSUME NEW p, NEW shelf, Offered(p, shelf), GroundTruth(shelf.items), p.items # <<>>
  PROVE  ValidCart(ToProposedCart(p, shelf))
<1> DEFINE cart == ToProposedCart(p, shelf)  n == Len(p.items)
<1>1. cart.lines = p.items /\ cart.pct = p.pct /\ cart.finite
  BY QuotedIs
<1>2. p.items \in Seq(CartLine) /\ n \in Nat /\ n <= 6 /\ DOMAIN p.items = 1 .. n
  BY DEF Offered, Stands
<1>3. n # 0
  BY <1>2
<1>4. \A i \in 1 .. n : p.items[i].qty \in 1 .. 5
  BY DEF Offered, Stands
<1> HIDE DEF n
<1>5. n \in 1 .. 25 /\ \A q \in 1 .. 5 : q \in 1 .. 999
  BY <1>2, <1>3
<1>6. p.pct \in Percent
  BY DEF Offered
<1> HIDE DEF cart
<1>7. Len(cart.lines) \in 1 .. 25 /\ cart.pct \in Percent /\ \A i \in DOMAIN cart.lines : cart.lines[i].qty \in 1 .. 999
  <2>1. Len(cart.lines) \in 1 .. 25
    BY <1>1, <1>5 DEF n
  <2>2. ASSUME NEW i \in DOMAIN p.items PROVE p.items[i].qty \in 1 .. 999
    <3>1. i \in 1 .. n
      BY <1>2
    <3>2. p.items[i].qty \in 1 .. 5
      BY <1>4, <3>1
    <3> QED BY <1>5, <3>2
  <2>3. cart.lines = p.items /\ cart.pct \in Percent
    BY <1>1, <1>6
  <2>4. ASSUME NEW i \in DOMAIN cart.lines PROVE cart.lines[i].qty \in 1 .. 999
    <3>1. i \in DOMAIN p.items /\ cart.lines[i] = p.items[i]
      BY <2>3
    <3> QED BY <2>2, <3>1
  <2>5. \A i \in DOMAIN cart.lines : cart.lines[i].qty \in 1 .. 999
    BY <2>4, Zenon
  <2> QED BY <2>1, <2>3, <2>5, Zenon
<1> QED BY <1>1, <1>7, Zenon DEF ValidCart, cart

LEMMA OffersAreGrounded == OffersInv => OfferIsGrounded
<1> SUFFICES ASSUME OffersInv, negotiated # None, negotiated.proposal.items # <<>> PROVE OfferIsGrounded
  BY DEF OfferIsGrounded
<1> DEFINE p == negotiated.proposal  shelf == job.shelf  in == GateInput
<1>1. phase # "calling" /\ job.kind = "offer" /\ ReadyJob(job)
  BY DEF OffersInv
<1>2. Offered(p, shelf)
  BY <1>1 DEF OffersInv
<1>3. ReadyShelf(shelf)
  BY <1>1 DEF ReadyJob
<1>4. GroundTruth(shelf.items)
  BY <1>3 DEF ReadyShelf
<1>5. in.cart = ToProposedCart(p, shelf) /\ in.items = shelf.items
  BY <1>1 DEF GateInput
<1>6. InputReady(in)
  <2>1. ReadyInput(in)
    BY <1>1, GateInputIs
  <2> HIDE DEF in
  <2> QED BY <2>1, InputIsReady
<1> HIDE DEF in
<1>7. ASSUME NEW i \in DOMAIN p.items
      PROVE  /\ p.items[i].sku \in DOMAIN shelf.items
             /\ p.items[i].qty \in 1 .. shelf.items[p.items[i].sku].stock
             /\ \A j \in DOMAIN p.items : p.items[i].sku = p.items[j].sku => i = j
  <2>1. p.items \in Seq(CartLine) /\ DOMAIN p.items = 1 .. Len(p.items)
    BY <1>2 DEF Offered, Stands
  <2>2. /\ p.items[i].sku \in DOMAIN shelf.items /\ p.items[i].qty \in 1 .. 5
        /\ p.items[i].qty <= shelf.items[p.items[i].sku].stock
        /\ \A j \in 1 .. Len(p.items) : p.items[i].sku = p.items[j].sku => i = j
    BY <1>2, <2>1 DEF Offered, Stands
  <2>3. shelf.items[p.items[i].sku].stock \in Nat
    BY <1>4, <2>2, ItemIs
  <2> QED BY <2>1, <2>2, <2>3
<1>8. ASSUME NEW i \in DOMAIN p.claims, NEW n \in DOMAIN p.claims[i].tokens, p.claims[i].tokens[n].unit = "RUPEE"
      PROVE  Justified(p.claims[i].tokens[n].value, shelf)
  BY <1>2, <1>8 DEF Offered, Upholds, Upheld
<1>9. ValidCart(in.cart)
  BY <1>2, <1>4, <1>5, OfferIsValid
<1>10. ASSUME verdict # None, NEW i \in DOMAIN verdict.trace,
              verdict.trace[i].id \in {"STRUCTURE", "SKU", "DRIFT", "STOCK"}
       PROVE  verdict.trace[i].status = "PASS"
  <2> DEFINE c == BuildContext(in)  t == RunRules(c)
  <2>1. verdict = EvaluateProposal(in)
    BY <1>10 DEF OffersInv, in
  <2>2. PICK X : t \in Seq(X) /\ Len(t) = 16
    BY TraceMarked
  <2>3. Named(t)
    BY TraceMarked DEF Marked
  <2>4. verdict.trace = t
    <3>1. verdict = Aggregate(t, c.totals)
      BY <2>1 DEF EvaluateProposal, Decide
    <3> HIDE DEF t, c
    <3> QED BY <2>2, <3>1, AggregateIs
  <2>5. i \in 1 .. 16 /\ RuleIds[i] \in {"STRUCTURE", "SKU", "DRIFT", "STOCK"}
    <3> HIDE DEF t
    <3> QED BY <1>10, <2>3, <2>4 DEF Named
  <2>6. t[i].status = "PASS"
    BY <1>2, <1>5, <1>6, <2>5, OfferPasses
  <2> QED BY <2>4, <2>6
<1> QED BY <1>7, <1>8, <1>9, <1>10 DEF OfferIsGrounded, in
=============================================================================
