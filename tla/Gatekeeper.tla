----------------------------- MODULE Gatekeeper -----------------------------
(***************************************************************************)
(* The deterministic checkpoint: a cart, the merchant's rules, the ground  *)
(* truth and the buyer's history go in, a verdict with one trace entry per *)
(* rule comes out.  A rule whose dependencies did not all PASS is skipped. *)
(*                                                                         *)
(* An input is a record: cart (lines, pct, aiTotal, finite, issued,        *)
(* expires, audited), rules, items (ground truth by sku), velocity,        *)
(* suspected and now.  Instants count half seconds, so that the flooring   *)
(* of an age to whole seconds shows.                                       *)
(***************************************************************************)
EXTENDS Money

Second == 2

----------------------------------------------------------------------------
(* buildContext.                                                           *)

\* Mutant: the quantity of a repeated sku is that of its first line.
MergeLines_FirstWins(lines) ==
  LET fresh(i) == \A j \in 1 .. i - 1 : lines[j].sku # lines[i].sku
      kept == Sorted({i \in DOMAIN lines : fresh(i)})
  IN [n \in DOMAIN kept |-> [sku |-> lines[kept[n]].sku, qty |-> lines[kept[n]].qty]]

\* One line per sku, in the order of first mention.
MergeLines(lines) ==
  LET fresh(i) == \A j \in 1 .. i - 1 : lines[j].sku # lines[i].sku
      kept == Sorted({i \in DOMAIN lines : fresh(i)})
  IN [n \in DOMAIN kept |->
       [sku |-> lines[kept[n]].sku, qty |-> QtyOf(lines, lines[kept[n]].sku)]]

Weights(resolved, items) == [i \in DOMAIN resolved |-> items[resolved[i].sku].price * resolved[i].qty]

PricedLines(resolved, items, weights, allocs) ==
  [i \in DOMAIN resolved |->
     [sku |-> resolved[i].sku, qty |-> resolved[i].qty, net |-> weights[i] - allocs[i],
      cost |-> items[resolved[i].sku].cost * resolved[i].qty]]

Discounted(resolved, items, weights, discount) ==
  PricedLines(resolved, items, weights, AllocateProportionally(discount, weights))

SumUp(gross, perLine) ==
  LET net == SumSeq([i \in DOMAIN perLine |-> perLine[i].net])
      cost == SumSeq([i \in DOMAIN perLine |-> perLine[i].cost])
  IN [gross |-> gross, net |-> net, margin |-> net - cost, perLine |-> perLine]

Rebate(weights, bps) == MulDivRoundHalfUp(SumSeq(weights), bps, 10000)

Reweigh(resolved, items, bps, weights) ==
  SumUp(SumSeq(weights), Discounted(resolved, items, weights, Rebate(weights, bps)))

\* Totals over the resolved lines.
Recompute(resolved, items, bps) == Reweigh(resolved, items, bps, Weights(resolved, items))

\* A cart that fails the structural audit is kept away from arithmetic with zeros.
Zeroed(items) == [s \in DOMAIN items |-> [price |-> 0, cost |-> 0]]

\* The edges of the two escalation bands, in integers.
ValueBandLowerEdge(rules) ==
  rules.maxValue - MulDivRoundHalfUp(rules.maxValue, ToBps(rules.valueBandPct), 10000)
DiscountBandLowerBps(rules) == ToBps(rules.maxDiscountPct) - ToBps(rules.discountBandPct)

DriftThreshold(net, rules) == Larger(2, MulDivRoundHalfUp(net, rules.driftPpm, 1000000))

Known(lines, items) == Picked(lines, LAMBDA l : l.sku \in DOMAIN items)

StructureOf(cart, merged) ==
  /\ merged # <<>> /\ cart.finite /\ cart.pct \in Percent
  /\ \A i \in DOMAIN merged : merged[i].qty > 0

Context(in, merged, structure, bps, totals) ==
  [in |-> in, lines |-> merged, structure |-> structure, bps |-> bps, totals |-> totals,
   resolved |-> Known(merged, in.items) = merged,
   drifted |-> Distance(in.cart.aiTotal, totals.net) > DriftThreshold(totals.net, in.rules)]

ContextOf(in, merged, structure) ==
  IF structure
    THEN LET bps == ToBps(in.cart.pct) IN
         Context(in, merged, TRUE, bps, Recompute(Known(merged, in.items), in.items, bps))
    ELSE Context(in, merged, FALSE, 0, Recompute(Known(merged, in.items), Zeroed(in.items), 0))

ContextFor(in, merged) == ContextOf(in, merged, StructureOf(in.cart, merged))
BuildContext(in) == ContextFor(in, MergeLines(in.cart.lines))

----------------------------------------------------------------------------
(* The sixteen rules.                                                      *)

PassIf(ok) == IF ok THEN "PASS" ELSE "FAIL"
EveryKnownLine(c, ok(_, _)) ==
  \A i \in DOMAIN c.lines : c.lines[i].sku \in DOMAIN c.in.items
                              => ok(c.lines[i], c.in.items[c.lines[i].sku])

CitationGate(c) == PassIf(c.in.cart.audited)

RulesEffective(c) == PassIf(c.in.rules.effectiveFrom <= c.in.now)

ProposalFreshness(c) ==
  PassIf(/\ c.in.cart.issued - c.in.now <= c.in.rules.maxSkew * Second
         /\ (c.in.now - c.in.cart.issued) \div Second <= c.in.rules.maxAge
         /\ c.in.cart.expires >= c.in.now)

CartStructure(c) == PassIf(c.structure)

SkuResolution(c) == PassIf(c.resolved)

TotalsDrift(c) == PassIf(~c.drifted)

\* The band is [lower edge, cap): a total at the cap passes.
CartValue(c) ==
  CASE c.totals.net > c.in.rules.maxValue -> "FAIL"
    [] /\ c.in.rules.valueBandPct > 0
       /\ c.totals.net >= ValueBandLowerEdge(c.in.rules)
       /\ c.totals.net < c.in.rules.maxValue -> "BAND"
    [] OTHER -> "PASS"

DiscountCap(c) ==
  LET cap == ToBps(c.in.rules.maxDiscountPct) IN
  CASE c.bps > cap -> "FAIL"
    [] /\ c.in.rules.discountBandPct > 0
       /\ c.bps >= DiscountBandLowerBps(c.in.rules)
       /\ c.bps < cap -> "BAND"
    [] OTHER -> "PASS"

MarginFloor(c) ==
  PassIf(CrossMarginHolds(c.totals.margin, c.totals.net, ToBps(c.in.rules.marginFloorPct)))

CategoryAllowlist(c) ==
  PassIf(\/ c.in.rules.allowAll
         \/ EveryKnownLine(c, LAMBDA l, item : item.category \in c.in.rules.allowlist))

StockAvailability(c) ==
  PassIf(\/ ~c.in.rules.requireStock
         \/ EveryKnownLine(c, LAMBDA l, item :
              l.qty <= item.stock \/ l.sku \in c.in.rules.backorderSkus))

\* sellBy 0 stands for a sku that does not expire.
IsExpired(item, now) == item.sellBy # 0 /\ item.sellBy < now

ExpiryGuard(c) ==
  PassIf(\/ ~c.in.rules.blockExpired
         \/ EveryKnownLine(c, LAMBDA l, item : ~IsExpired(item, c.in.now)))

VelocityRequests(c) ==
  IF ~c.in.velocity.available THEN "UNAVAILABLE_INPUT"
    ELSE PassIf(c.in.velocity.requests + 1 <= c.in.rules.maxRequests)

VelocityValue(c) ==
  IF ~c.in.velocity.available THEN "UNAVAILABLE_INPUT"
    ELSE PassIf(c.in.velocity.approved + c.totals.net <= c.in.rules.maxDayValue)

InjectionGuard(c) == IF c.in.suspected THEN "ESCALATE_TRIGGER" ELSE "PASS"

\* With the history unavailable the velocity rules escalate already.
RepeatOffender(c) ==
  IF ~c.in.velocity.available THEN "SKIP"
    ELSE IF \/ c.in.velocity.escalations >= c.in.rules.escalationsMax
            \/ c.in.velocity.declines >= c.in.rules.declinesMax
            \/ c.in.velocity.injections >= c.in.rules.injectionsMax
      THEN "ESCALATE_TRIGGER" ELSE "PASS"

----------------------------------------------------------------------------
(* The engine.                                                             *)

RuleIds == <<"CITATION", "EFFECTIVE", "FRESHNESS", "STRUCTURE", "SKU", "DRIFT", "VALUE",
  "DISCOUNT", "MARGIN", "CATEGORY", "STOCK", "EXPIRY", "REQUESTS", "DAYVALUE",
  "INJECTION", "OFFENDER">>

Severity(id) ==
  IF id \in {"EFFECTIVE", "DRIFT", "INJECTION", "OFFENDER"}
    THEN "ESCALATE_IF_FAILED" ELSE "BLOCKER"

DependsOn(id) ==
  CASE id \in {"SKU", "DISCOUNT"} -> {"STRUCTURE"}
    [] id \in {"DRIFT", "VALUE", "CATEGORY", "STOCK", "EXPIRY", "DAYVALUE"} -> {"SKU"}
    [] id = "MARGIN" -> {"SKU", "DRIFT"}
    [] OTHER -> {}

Verdict(id, c) ==
  CASE id = "CITATION" -> CitationGate(c)
    [] id = "EFFECTIVE" -> RulesEffective(c)
    [] id = "FRESHNESS" -> ProposalFreshness(c)
    [] id = "STRUCTURE" -> CartStructure(c)
    [] id = "SKU" -> SkuResolution(c)
    [] id = "DRIFT" -> TotalsDrift(c)
    [] id = "VALUE" -> CartValue(c)
    [] id = "DISCOUNT" -> DiscountCap(c)
    [] id = "MARGIN" -> MarginFloor(c)
    [] id = "CATEGORY" -> CategoryAllowlist(c)
    [] id = "STOCK" -> StockAvailability(c)
    [] id = "EXPIRY" -> ExpiryGuard(c)
    [] id = "REQUESTS" -> VelocityRequests(c)
    [] id = "DAYVALUE" -> VelocityValue(c)
    [] id = "INJECTION" -> InjectionGuard(c)
    [] id = "OFFENDER" -> RepeatOffender(c)

\* Every rule leaves an entry, in the fixed order.
RunRules(c) ==
  LET entry(trace, id) ==
        IF \A dep \in DependsOn(id) : \E i \in DOMAIN trace :
             trace[i].id = dep /\ trace[i].status = "PASS"
          THEN [id |-> id, status |-> Verdict(id, c)]
          ELSE [id |-> id, status |-> "SKIP"]
  IN FoldLeft(LAMBDA trace, id : Append(trace, entry(trace, id)), <<>>, RuleIds)

Blocks(e) == e.status = "FAIL" /\ Severity(e.id) = "BLOCKER"
Escalates(e) ==
  \/ e.status \in {"BAND", "ESCALATE_TRIGGER", "UNAVAILABLE_INPUT"}
  \/ e.status = "FAIL" /\ Severity(e.id) = "ESCALATE_IF_FAILED"

\* DECLINE before ESCALATE before APPROVE, each with all of its own reasons: an
\* escalation cause beside a blocker stays in the trace alone.
Aggregate(trace, totals) ==
  LET blockers == Picked(trace, Blocks)
      escapers == Picked(trace, Escalates)
      result(outcome, declines, escalations) ==
        [outcome |-> outcome, declines |-> declines, escalations |-> escalations,
         trace |-> trace, totals |-> totals]
  IN CASE blockers # <<>> -> result("DECLINE", blockers, <<>>)
       [] blockers = <<>> /\ escapers # <<>> -> result("ESCALATE", <<>>, escapers)
       [] OTHER -> result("APPROVE", <<>>, <<>>)

Decide(c) == Aggregate(RunRules(c), c.totals)
EvaluateProposal(in) == Decide(BuildContext(in))

\* The reason on the approval row, from the first cause alone: the codes of the
\* two bands say BAND, those of the unavailable history VELOCITY.
EscalateReason(v) ==
  LET first == Head(v.escalations) IN
  CASE first.status = "BAND" -> "ESCALATION_BAND_SOFT_EDGE"
    [] first.status = "UNAVAILABLE_INPUT" -> "VELOCITY_SOFT_BAND"
    [] OTHER -> "HIGH_CART_VALUE"
=============================================================================
