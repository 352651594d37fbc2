---------------------------- MODULE Negotiation ----------------------------
(***************************************************************************)
(* From a buyer's request to the cart the gate sees: the evidence pack,    *)
(* the audit of a model's proposal against it, the fallback bundle and the *)
(* adapter to the gate's input.                                            *)
(*                                                                         *)
(* A shelf is what one run sees: items (ground truth by sku, with label    *)
(* the number printed in the product's name, 0 for none), pairs (the skus  *)
(* a sku is paired with), fits (the skus with an occasion), priorities and *)
(* now.  Rupee figures are in paise, percentages in hundredths.  The       *)
(* characters of a statement are left out: a claim is its kind, the        *)
(* evidence it cites and the numbers read from it.                         *)
(***************************************************************************)
EXTENDS Gatekeeper

CONSTANT Day              \* the length of a day, in the clock's half seconds

Token(unit, value, discount) == [unit |-> unit, value |-> value, discount |-> discount]
Inner(s, test(_)) == {s[i] : i \in {j \in DOMAIN s : test(s[j])}}

----------------------------------------------------------------------------
(* The evidence pack.  An entry's place in it is its id.                   *)

DaysToExpiry(item, now) == item.sellBy \div Day - now \div Day

\* Rounded to two decimals; none without a list price.
MarginPct(item) ==
  IF item.price > 0
    THEN (2 * (item.price - item.cost) * 10000 + item.price) \div (2 * item.price) ELSE 0

Fact(unit, value) == [unit |-> unit, value |-> value]

\* The numbers an entry licenses.  Paise facts match no token ever read.
DeriveNumericFacts(kind, item, now) ==
  CASE kind = "PRICE" -> {Fact("RUPEE", item.price), Fact("RUPEE", item.cost)}
    [] kind = "STOCK" -> {Fact("COUNT", item.stock), Fact("COUNT", 0)}
         \cup (IF item.sellBy = 0 THEN {} ELSE {Fact("COUNT", DaysToExpiry(item, now))})
    [] kind = "MARGIN" -> {Fact("PCT", MarginPct(item)), Fact("RUPEE", item.price - item.cost)}
    [] OTHER -> {}

\* Kinds in their fixed order, skus ascending within a kind.
BuildEvidencePack(shelf) ==
  LET row(kind, sku) == [kind |-> kind, sku |-> sku, list |-> shelf.items[sku].price,
        facts |-> DeriveNumericFacts(kind, shelf.items[sku], shelf.now)]
      rows(kind, skus) ==
        LET order == Sorted(skus) IN [i \in DOMAIN order |-> row(kind, order[i])]
      paired == {s \in DOMAIN shelf.items : shelf.pairs[s] # {}}
      campaign == [i \in DOMAIN shelf.priorities |->
        [kind |-> "CAMPAIGN_PRIORITY", sku |-> 0, list |-> 0,
         facts |-> {Fact("COUNT", shelf.priorities[i].weight)} \cup
           {Fact("PCT", v) : v \in shelf.priorities[i].advertised}]]
  IN rows("PRICE", DOMAIN shelf.items) \o rows("STOCK", DOMAIN shelf.items)
       \o rows("MARGIN", DOMAIN shelf.items) \o rows("OCCASION_FIT", shelf.fits)
       \o rows("PAIRING", paired) \o campaign

EntryOf(pack, kind, sku) ==
  CHOOSE i \in DOMAIN pack : pack[i].kind = kind /\ pack[i].sku = sku

----------------------------------------------------------------------------
(* The citation audit.                                                     *)

\* Slack of a paisa, a twentieth of a percent, and five downwards on a count;
\* a rupee figure may also be the sum of the cited list prices.
MatchesAny(token, facts, cited) ==
  LET near(slack) == \E f \in facts : f.unit = token.unit
                                       /\ Distance(token.value, f.value) <= slack
      prices == {e \in cited : e.kind = "PRICE"}
      sum == MapThenSumSet(LAMBDA e : e.list, prices)
  IN CASE token.unit = "RUPEE" -> near(1) \/ (prices # {} /\ Distance(token.value, sum) <= 1)
       [] token.unit = "PCT" -> \/ near(5)
                                \/ \E f \in facts : f.unit = "PCT"
                                     /\ token.value = ((f.value + 50) \div 100) * 100
       [] token.unit = "COUNT" -> \E f \in facts : f.unit = "COUNT"
                                     /\ f.value - token.value \in 0 .. 5

\* What one number of a claim is found to be.
JudgeToken(token, kind, cited) ==
  LET facts == UNION {e.facts : e \in cited}
      same == {f.value : f \in {g \in facts : g.unit = token.unit}}
      money == token.unit = "RUPEE" \/ kind \in {"PRICE", "MARGIN"}
      gross == same # {} /\ \A v \in same : token.value > 3 * v
  IN IF token.discount /\ \A e \in cited : e.kind # "CAMPAIGN_PRIORITY" THEN "strip"
       ELSE IF MatchesAny(token, facts, cited) THEN "ok"
       ELSE IF money \/ gross THEN "fatal" ELSE "strip"

\* A claim none of whose evidence exists, or of another kind than its evidence,
\* is not read any further.
JudgeClaim(claim, pack) ==
  LET cited == {pack[i] : i \in claim.ids \cap DOMAIN pack}
      dangling == ~(claim.ids \subseteq DOMAIN pack)
      kinds == {e.kind : e \in cited}
      found == {JudgeToken(claim.tokens[i], claim.kind, cited) : i \in DOMAIN claim.tokens}
  IN IF cited = {} \/ kinds # {claim.kind} THEN "strip"
       ELSE IF "fatal" \in found THEN "fatal"
       ELSE IF dangling \/ "strip" \in found THEN "strip" ELSE "ok"

\* Mutant: the quantities are not held against the stock.
ItemStands_AnyQty(item, shelf) == item.sku \in DOMAIN shelf.items

ItemStands(item, shelf) ==
  item.sku \in DOMAIN shelf.items /\ item.qty <= shelf.items[item.sku].stock

Unsellable(proposal, shelf) ==
  \/ proposal.items = <<>>
  \/ \E i \in DOMAIN proposal.items : ~ItemStands(proposal.items[i], shelf)
  \/ ~(proposal.priorities \subseteq {p.id : p \in Inner(shelf.priorities, LAMBDA p : TRUE)})

Judged(claims, pack) ==
  [i \in DOMAIN claims |-> [claim |-> claims[i], verdict |-> JudgeClaim(claims[i], pack)]]

Audited(proposal, unsellable, judged) ==
  LET kept == Picked(judged, LAMBDA j : j.verdict = "ok") IN
  [verdict |-> CASE unsellable \/ \E i \in DOMAIN judged : judged[i].verdict = "fatal" -> "FAILED"
                 [] OTHER -> IF kept = judged THEN "CLEAN" ELSE "STRIPPED",
   effective |-> [proposal EXCEPT !.claims = Field(kept, LAMBDA j : j.claim)]]

AuditAgainst(proposal, shelf, pack) ==
  Audited(proposal, Unsellable(proposal, shelf), Judged(proposal.claims, pack))

AuditCitations(proposal, shelf) == AuditAgainst(proposal, shelf, BuildEvidencePack(shelf))

----------------------------------------------------------------------------
(* The fallback bundle.                                                    *)

InStock(sku, shelf) ==
  /\ sku \in DOMAIN shelf.items
  /\ shelf.items[sku].stock >= 1
  /\ shelf.items[sku].sellBy = 0 \/ DaysToExpiry(shelf.items[sku], shelf.now) >= 0

Clamp(qty, stock) ==
  LET least == IF qty < 2 THEN qty ELSE 2 IN Larger(1, IF least < stock THEN least ELSE stock)

CanPush(lines, sku, shelf) == Len(lines) < 4 /\ InStock(sku, shelf) /\ sku \notin SkusOf(lines)

PushLine(lines, sku, qty, shelf) ==
  IF CanPush(lines, sku, shelf)
    THEN Append(lines, [sku |-> sku, qty |-> Clamp(qty, shelf.items[sku].stock)]) ELSE lines

\* Best margin percentage, then contribution, then the lower sku.
SeedSku(skus, shelf) ==
  LET item(s) == shelf.items[s]
      gain(s) == item(s).price - item(s).cost
      above(s, t) == \/ MarginPct(item(s)) > MarginPct(item(t))
                     \/ /\ MarginPct(item(s)) = MarginPct(item(t))
                        /\ gain(s) > gain(t) \/ (gain(s) = gain(t) /\ s <= t)
  IN CHOOSE s \in skus : \A t \in skus : above(s, t)

Core(request, shelf) ==
  LET asked == FoldLeft(LAMBDA lines, r : PushLine(lines, r.sku, r.qty, shelf), <<>>, request)
      sellable == {s \in DOMAIN shelf.items : InStock(s, shelf)}
  IN IF asked # <<>> \/ sellable = {} THEN asked
       ELSE PushLine(<<>>, SeedSku(sellable, shelf), 1, shelf)

\* One sku hinted at by a pairing, whether or not its base is in the basket.
Complement(lines, shelf) ==
  LET fresh(s) == {t \in shelf.pairs[s] : InStock(t, shelf) /\ t \notin SkusOf(lines)}
      hints == {s \in DOMAIN shelf.items : fresh(s) # {}}
      least(S) == CHOOSE s \in S : \A t \in S : s <= t
  IN IF hints = {} THEN lines ELSE PushLine(lines, least(fresh(least(hints))), 1, shelf)

\* The heaviest priority that is not a pair and has a target to add.
Open(p, lines, shelf) ==
  Picked(p.targets, LAMBDA t : InStock(t, shelf) /\ t \notin SkusOf(lines))

Heaviest(priorities) ==
  CHOOSE p \in priorities : \A q \in priorities :
    p.weight > q.weight \/ (p.weight = q.weight /\ p.id <= q.id)

Nudged(lines, pushed, top) ==
  [lines |-> pushed, priorities |-> IF pushed = lines THEN {} ELSE {top.id}]
NudgedBy(top, lines, shelf) ==
  Nudged(lines, PushLine(lines, Head(Open(top, lines, shelf)), 1, shelf), top)
NudgedByOneOf(apt, lines, shelf) ==
  IF apt = {} THEN [lines |-> lines, priorities |-> {}] ELSE NudgedBy(Heaviest(apt), lines, shelf)

Nudge(lines, shelf) ==
  NudgedByOneOf(Inner(shelf.priorities, LAMBDA p : p.action # "PROMOTE_PAIR" /\ Open(p, lines, shelf) # <<>>),
                lines, shelf)

\* Every line is given its price and its stock, under the product's name.
FallbackClaims(lines, shelf, pack) ==
  LET item(i) == shelf.items[lines[i].sku]
      name(i) == IF item(i).label = 0 THEN <<>> ELSE <<Token("COUNT", item(i).label, FALSE)>>
      claim(i, kind, token) == [kind |-> kind, ids |-> {EntryOf(pack, kind, lines[i].sku)},
                                tokens |-> Append(name(i), token)]
  IN FlattenSeq([i \in DOMAIN lines |->
       <<claim(i, "PRICE", Token("RUPEE", item(i).price, FALSE)),
         claim(i, "STOCK", Token("COUNT", item(i).stock, FALSE))>>])

\* Nothing at all when nothing can be sold.  The campaign's own claim carries
\* no number and cites its entry: it always stands, and is left out.
Bundle(nudged, shelf) ==
  [items |-> nudged.lines, pct |-> IF Len(nudged.lines) >= 2 THEN 5000 ELSE 0,
   claims |-> FallbackClaims(nudged.lines, shelf, BuildEvidencePack(shelf)),
   priorities |-> nudged.priorities]

BundleAround(core, shelf) ==
  IF core = <<>> THEN [items |-> <<>>, pct |-> 0, claims |-> <<>>, priorities |-> {}]
    ELSE Bundle(Nudge(Complement(core, shelf), shelf), shelf)

BuildFallbackBundle(request, shelf) == BundleAround(Core(request, shelf), shelf)

----------------------------------------------------------------------------
(* The stage, and what the gate is handed.                                 *)

\* A reply is [kind, proposal]; only a parsed one is audited.  The audit of the
\* fallback decides nothing.
FallenBack(bundle, shelf) ==
  [outcome |-> "FALLBACK", proposal |-> bundle,
   audit |-> IF bundle.items = <<>> THEN "NONE" ELSE AuditCitations(bundle, shelf).verdict]

FinishWithFallback(request, shelf) == FallenBack(BuildFallbackBundle(request, shelf), shelf)

StageResult(parsed, audit, request, shelf) ==
  IF parsed /\ audit.verdict # "FAILED"
    THEN [outcome |-> "PROPOSED", proposal |-> audit.effective, audit |-> audit.verdict]
    ELSE FinishWithFallback(request, shelf)

RunNegotiation(reply, request, shelf) ==
  StageResult(reply.kind = "parsed", AuditCitations(reply.proposal, shelf), request, shelf)

\* 240 s, in half seconds.
ProposalTTL == 480

\* The totals are synthesized from the catalogue with the gate's own rounding.
ToProposedCart(proposal, shelf) ==
  LET line(l) == (IF l.sku \in DOMAIN shelf.items THEN shelf.items[l.sku].price ELSE 0) * l.qty
      gross == SumSeq([i \in DOMAIN proposal.items |-> line(proposal.items[i])])
      discount == (gross * ToBps(proposal.pct) + 5000) \div 10000
  IN [lines |-> proposal.items, pct |-> proposal.pct, aiTotal |-> gross - discount,
      finite |-> TRUE, issued |-> shelf.now, expires |-> shelf.now + ProposalTTL,
      audited |-> TRUE]

\* A note is the sets of patterns found in it as written, and once the evasions
\* are folded away.
ScanCustomerNote(note) == note.raw \cup note.folded # {}
=============================================================================
