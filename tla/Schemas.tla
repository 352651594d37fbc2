------------------------------ MODULE Schemas ------------------------------
(***************************************************************************)
(* What the shared schemas admit: the rules a merchant may store, the      *)
(* ground truth, a buyer's history, a cart, a model's proposal, and the    *)
(* result a gate may report.  The gate is total (a cart that bypassed its  *)
(* schema must still fail closed), so its inputs may be wider than these.  *)
(***************************************************************************)
EXTENDS Gatekeeper

CONSTANT MaxSafe            \* Number.MAX_SAFE_INTEGER

ASSUME SchemasAssumption == MaxSafe \in Nat

Paise == 0 .. MaxSafe
Positive(n) == n \in Nat \ {0}

\* MerchantRulesConfigSchema: the last three are its superRefine.
ValidRules(r) ==
  /\ {r.maxValue, r.maxDayValue} \subseteq Paise
  /\ {r.maxDiscountPct, r.marginFloorPct, r.valueBandPct, r.discountBandPct} \subseteq Percent
  /\ \A n \in {r.maxRequests, r.maxAge, r.driftPpm, r.escalationsMax, r.declinesMax,
               r.injectionsMax} : Positive(n)
  /\ r.maxSkew \in Nat
  /\ Cardinality(r.allowlist) <= 50 /\ Cardinality(r.backorderSkus) <= 50
  /\ r.allowAll \/ r.allowlist # {}
  /\ r.valueBandPct < 100000
  /\ r.maxValue <= r.maxDayValue

\* ProposedCartSchema, of what the gate reads.
ValidCart(c) ==
  /\ Len(c.lines) \in 1 .. 25
  /\ \A i \in DOMAIN c.lines : c.lines[i].qty \in 1 .. 999
  /\ c.pct \in Percent
  /\ c.finite

\* CatalogItemGroundTruthSchema.
ValidItem(item) ==
  {item.price, item.cost} \subseteq Paise /\ {item.stock, item.sellBy} \subseteq Nat

\* AgentVelocitySnapshotSchema: there is no third state between the two.
ValidHistory(v) ==
  v.available => {v.requests, v.approved, v.escalations, v.declines, v.injections} \subseteq Nat

\* NegotiationProposalZ: steps of half a percent, and a sku once.
ValidProposal(p) ==
  /\ Len(p.items) \in 1 .. 6 /\ Len(p.claims) \in 1 .. 12 /\ Cardinality(p.priorities) <= 6
  /\ \A i \in DOMAIN p.items : p.items[i].qty \in 1 .. 5
  /\ p.pct \in Percent /\ p.pct % 500 = 0
  /\ \A i \in DOMAIN p.claims : Cardinality(p.claims[i].ids) \in 1 .. 6
  /\ \A i, j \in DOMAIN p.items : p.items[i].sku = p.items[j].sku => i = j

----------------------------------------------------------------------------
(* GatekeeperResultSchema.                                                 *)

\* The counts of the summary: every entry is one of four.
Summary(trace) ==
  LET count(S) == Cardinality({i \in DOMAIN trace : trace[i].status \in S}) IN
  [passed |-> count({"PASS"}), failed |-> count({"FAIL"}),
   triggers |-> count({"BAND", "ESCALATE_TRIGGER", "UNAVAILABLE_INPUT"}),
   skipped |-> count({"SKIP"})]

RuleStatuses == {"PASS", "FAIL", "BAND", "ESCALATE_TRIGGER", "UNAVAILABLE_INPUT", "SKIP"}

\* RecomputedTotalsSchema: money is never negative, a margin may be.
ValidTotals(t) ==
  /\ {t.gross, t.net} \subseteq Paise /\ t.net <= t.gross
  /\ \A i \in DOMAIN t.perLine : {t.perLine[i].net, t.perLine[i].cost} \subseteq Paise

\* One entry per rule and always all of them; reasons for the outcome given and
\* for no other.
ValidResult(v) ==
  LET s == Summary(v.trace) IN
  /\ [i \in DOMAIN v.trace |-> v.trace[i].id] = RuleIds
  /\ \A i \in DOMAIN v.trace : v.trace[i].status \in RuleStatuses
  /\ s.passed + s.failed + s.triggers + s.skipped = Len(RuleIds)
  /\ ValidTotals(v.totals)
  /\ (v.declines # <<>>) = (v.outcome = "DECLINE")
  /\ (v.escalations # <<>>) = (v.outcome = "ESCALATE")
=============================================================================
