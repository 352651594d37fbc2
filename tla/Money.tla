------------------------------- MODULE Money -------------------------------
(***************************************************************************)
(* The integer-paise arithmetic every priced artefact goes through, and    *)
(* the three artefacts made from an approved cart: the settleable lines,   *)
(* the stock holds taken for them and the mandate shown to the buyer.      *)
(*                                                                         *)
(* Percentages are thousandths of a percent where the code has a decimal,  *)
(* and basis points after ToBps.  Carts are small enough for every product *)
(* to be a safe integer, so the RangeErrors of money.ts are left out.      *)
(***************************************************************************)
EXTENDS Integers, FiniteSets, SequencesExt

SumSeq(s) == FoldLeft(LAMBDA a, b : a + b, 0, s)
Field(s, f(_)) == [i \in DOMAIN s |-> f(s[i])]
Larger(a, b) == IF a > b THEN a ELSE b
Distance(a, b) == IF a > b THEN a - b ELSE b - a

\* The members of a finite set of numbers, in ascending order, and the members
\* of a sequence that pass a test.
Sorted(S) == [n \in 1 .. Cardinality(S) |-> CHOOSE x \in S : Cardinality({y \in S : y < x}) = n - 1]
Picked(s, test(_)) ==
  LET at == Sorted({i \in DOMAIN s : test(s[i])}) IN [n \in DOMAIN at |-> s[at[n]]]

Percent == {p \in Nat : p <= 100 * 1000}
ToBps(pct) == (pct + 5) \div 10

MulDivRoundHalfUp(a, b, c) ==
  LET q == (a * b) \div c IN IF ((a * b) % c) * 2 >= c THEN q + 1 ELSE q

\* Largest remainder; ties go to the lower line.  Ranking in doubles is taken
\* to be exact.
AllocateProportionally(total, weights) ==
  LET sum == SumSeq(weights)
      base(i) == (total * weights[i]) \div sum
      rest(i) == (total * weights[i]) % sum
      leftover == total - SumSeq([i \in DOMAIN weights |-> base(i)])
      before(i) == {j \in DOMAIN weights : rest(j) > rest(i) \/ (rest(j) = rest(i) /\ j < i)}
  IN  IF sum <= 0
        THEN [i \in DOMAIN weights |-> IF i = 1 THEN total ELSE 0]
        ELSE [i \in DOMAIN weights |->
                base(i) + (IF Cardinality(before(i)) < leftover THEN 1 ELSE 0)]

CrossMarginHolds(margin, net, floorBps) == net > 0 /\ margin * 10000 >= floorBps * net

----------------------------------------------------------------------------
(* What settlement is given: lines of one unit price that sum to the net.  *)

\* Mutant: the odd paise are dropped and every unit gets the floor.
SplitLine_Floor(l) == <<[sku |-> l.sku, qty |-> l.qty, unit |-> l.net \div l.qty,
                         backordered |-> l.backordered]>>

\* A net that does not divide by the quantity becomes two lines, one paisa apart.
SplitLine(l) ==
  LET base == l.net \div l.qty
      rem == l.net % l.qty
      part(q, u) == IF q > 0 THEN <<[sku |-> l.sku, qty |-> q, unit |-> u,
                                     backordered |-> l.backordered]>> ELSE <<>>
  IN part(rem, base + 1) \o part(l.qty - rem, base)

\* perLine is the gate's recomputation; a backordered line takes no hold.
MintSettleable(perLine, items, backorderSkus) ==
  LET flagged(l) == [sku |-> l.sku, qty |-> l.qty, net |-> l.net, backordered |->
        l.sku \in backorderSkus /\ l.qty > items[l.sku].stock]
  IN FlattenSeq([i \in DOMAIN perLine |-> SplitLine(flagged(perLine[i]))])

LinesTotal(lines) == SumSeq([i \in DOMAIN lines |-> lines[i].unit * lines[i].qty])

QtyOf(lines, sku) == SumSeq([i \in DOMAIN lines |-> IF lines[i].sku = sku THEN lines[i].qty ELSE 0])
SkusOf(lines) == {lines[i].sku : i \in DOMAIN lines}

\* One hold per sku, in the order of the skus.
AggregateHoldLines(lines) ==
  LET skus == Sorted(SkusOf(lines))
  IN [n \in DOMAIN skus |->
       [sku |-> skus[n], qty |-> QtyOf(lines, skus[n]),
        backordered |-> \E i \in DOMAIN lines : lines[i].sku = skus[n] /\ lines[i].backordered]]

----------------------------------------------------------------------------
(* What the buyer is shown.                                                *)

\* One decimal, in tenths of a percent.
DisplayPct(discount, subtotal) ==
  IF subtotal <= 0 THEN 0 ELSE (2 * discount * 1000 + subtotal) \div (2 * subtotal)

DisplayPctTolerance(subtotal) == (subtotal + 1999) \div 2000 + 1

\* Rows carry one sku each, at its raw list price.
MandateItems(lines, items) ==
  LET skus == Sorted(SkusOf(lines))
  IN [n \in DOMAIN skus |-> [sku |-> skus[n], qty |-> QtyOf(lines, skus[n]),
                             unit |-> items[skus[n]].price]]

\* The mandate of a transaction: its approved total is settlement's, the rest
\* is recomputed.  A total above the raw subtotal throws.
BuildCartMandate(lines, total, items) ==
  LET rows == MandateItems(lines, items)
      subtotal == LinesTotal(rows)
  IN [ok |-> subtotal >= total, items |-> rows, subtotal |-> subtotal, total |-> total,
      discount |-> subtotal - total, pct |-> DisplayPct(subtotal - total, subtotal)]

\* The buyer's check, which the builder runs on its own mandate.
ArithmeticConsistent(m) ==
  /\ m.subtotal = LinesTotal(m.items)
  /\ m.subtotal - m.discount = m.total
  /\ LET implied == (2 * m.subtotal * m.pct + 1000) \div 2000
     IN Distance(implied, m.discount) <= DisplayPctTolerance(m.subtotal)
=============================================================================
