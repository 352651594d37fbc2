------------------------------- MODULE Offers -------------------------------
(***************************************************************************)
(* One run's decision, from the call to the model to the mandate: the      *)
(* transport's ladder of calls, the negotiation stage, the gate, a human's *)
(* answer to an escalation, the minted lines and what the buyer is shown.  *)
(*                                                                         *)
(* A job is an "offer" (shelf, rules, request, note, velocity) that takes  *)
(* all these steps, or a "gate" job: a cart handed to the gate directly,   *)
(* as a client that sends its own totals would.                            *)
(***************************************************************************)
EXTENDS Negotiation, Schemas

CONSTANTS Jobs, Proposals, Durations

CartLine == [sku : Nat, qty : Int]

GroundTruth(items) ==
  DOMAIN items \subseteq Nat /\ IsFiniteSet(DOMAIN items) /\ \A s \in DOMAIN items : ValidItem(items[s])

\* The amounts of so many units are safe integers.
Fits(items, units) ==
  \A s \in DOMAIN items : {units * items[s].price, units * items[s].cost} \subseteq Paise

ReadyRules(r) ==
  /\ ValidRules(r) /\ r.effectiveFrom \in Int
  /\ {r.allowAll, r.requireStock, r.blockExpired} \subseteq BOOLEAN

ReadyHistory(v) == v.available \in BOOLEAN /\ ValidHistory(v)

\* The ground truth and a proposal are what their schemas admit; a cart handed to
\* the gate may be any list of lines.
ReadyProposal(p) ==
  /\ DOMAIN p = {"items", "pct", "claims", "priorities"}
  /\ p.items \in Seq(CartLine) /\ DOMAIN p.claims = 1 .. Len(p.claims)
  /\ ValidProposal(p)

ReadyCart(c) ==
  /\ c.lines \in Seq(CartLine) /\ {c.pct, c.aiTotal, c.issued, c.expires} \subseteq Int
  /\ {c.finite, c.audited} \subseteq BOOLEAN

\* No offer has more than six lines of five units.
MostUnits == 30
UnitsOf(lines) == SumSeq([i \in DOMAIN lines |-> Larger(0, lines[i].qty)])

ReadyInput(in) ==
  /\ ReadyCart(in.cart) /\ GroundTruth(in.items) /\ Fits(in.items, UnitsOf(in.cart.lines))
  /\ ReadyRules(in.rules) /\ ReadyHistory(in.velocity)
  /\ in.suspected \in BOOLEAN /\ in.now \in Int

\* Every pairing and occasion is kept with a sku of the catalogue.
Priority == [id : Nat, action : STRING, targets : Seq(Nat), weight : Nat, advertised : SUBSET Nat]

ReadyShelf(shelf) ==
  /\ GroundTruth(shelf.items) /\ Fits(shelf.items, MostUnits) /\ shelf.now \in Nat
  /\ shelf.fits \subseteq DOMAIN shelf.items
  /\ shelf.priorities \in Seq(Priority)

ReadyJob(j) ==
  \/ /\ j.kind = "offer" /\ ReadyShelf(j.shelf) /\ j.request \in Seq(CartLine)
     /\ ReadyRules(j.rules) /\ ReadyHistory(j.velocity)
  \/ j.kind = "gate" /\ ReadyInput(j.input)

ASSUME OffersAssumption ==
  /\ Day \in Nat \ {0} /\ Durations \subseteq Nat
  /\ \A p \in Proposals : ReadyProposal(p)
  /\ \A j \in Jobs : ReadyJob(j)

VARIABLES
  job,          \* what is decided; never changes
  phase,        \* calling, gating, escalated, approved, minted, done
  attempt,      \* the call in flight: initial, retry, repair
  elapsed,      \* since the first call, in quarter seconds
  negotiated,   \* the stage's result
  verdict,      \* the gate's result
  settleable,   \* the minted lines
  mandate       \* the buyer's mandate

offerVars == <<job, phase, attempt, elapsed, negotiated, verdict, settleable, mandate>>

None == [outcome |-> "NONE"]

OffersInit ==
  /\ job \in Jobs
  /\ phase = IF job.kind = "offer" THEN "calling" ELSE "gating"
  /\ attempt = "initial" /\ elapsed = 0
  /\ negotiated = None /\ verdict = None
  /\ settleable = <<>> /\ mandate = <<>>

----------------------------------------------------------------------------
(* The transport.                                                          *)

WallBudget == 48
FirstTimeout == 42
RetryEligible == 20
RepairEligible == 26

\* A server may name its own delay, up to the cap.
Backoffs == {3, 6}

CallTimeout == LET left == Larger(1, WallBudget - elapsed)
               IN IF left < FirstTimeout THEN left ELSE FirstTimeout

Negotiated(reply) ==
  /\ negotiated' = RunNegotiation(reply, job.request, job.shelf)
  /\ phase' = "gating" /\ attempt' = "initial" /\ elapsed' = 0

Unread == [items |-> <<>>, pct |-> 0, claims |-> <<>>, priorities |-> {}]

\* An answer is final whatever it is: one that is no proposal is not asked for
\* again.  Once the headers are in, no timer bounds it.
CallAnswers ==
  /\ phase = "calling"
  /\ \/ \E p \in Proposals : Negotiated([kind |-> "parsed", proposal |-> p])
     \/ \E kind \in {"refusal", "max_tokens", "unparsed"} :
          Negotiated([kind |-> kind, proposal |-> Unread])
  /\ UNCHANGED <<job, verdict, settleable, mandate>>

MayRetry(now, delay) ==
  attempt = "initial" /\ now < RetryEligible /\ now + delay < WallBudget

\* A timeout, a lost connection or a busy server.
CallFails ==
  /\ phase = "calling"
  /\ \E took \in Durations, delay \in Backoffs :
       LET now == elapsed + took IN
       /\ took <= CallTimeout
       /\ CASE MayRetry(now, delay) ->
                 /\ attempt' = "retry" /\ elapsed' = now + delay
                 /\ UNCHANGED <<phase, negotiated>>
            [] ~MayRetry(now, delay) /\ attempt # "repair" /\ now < RepairEligible ->
                 /\ attempt' = "repair" /\ elapsed' = now
                 /\ UNCHANGED <<phase, negotiated>>
            [] OTHER -> Negotiated([kind |-> "thrown", proposal |-> Unread])
  /\ UNCHANGED <<job, verdict, settleable, mandate>>

\* An error no retry can mend; in stable mode, a fixture that is missing or no
\* longer valid.
CallRejected ==
  /\ phase = "calling"
  /\ Negotiated([kind |-> "thrown", proposal |-> Unread])
  /\ UNCHANGED <<job, verdict, settleable, mandate>>

----------------------------------------------------------------------------
(* The gate and what follows an approval.                                  *)

GateInput ==
  IF job.kind = "gate" THEN job.input
    ELSE [cart |-> ToProposedCart(negotiated.proposal, job.shelf), rules |-> job.rules,
          items |-> job.shelf.items, velocity |-> job.velocity,
          suspected |-> ScanCustomerNote(job.note), now |-> job.shelf.now]

After(outcome) ==
  IF outcome = "APPROVE" THEN "approved" ELSE IF outcome = "ESCALATE" THEN "escalated" ELSE "done"

Evaluate ==
  /\ phase = "gating"
  /\ verdict' = EvaluateProposal(GateInput)
  /\ phase' = IF job.kind = "gate" THEN "done" ELSE After(verdict'.outcome)
  /\ UNCHANGED <<job, attempt, elapsed, negotiated, settleable, mandate>>

\* The escalated cart is minted as the gate computed it.
Answered ==
  /\ phase = "escalated"
  /\ phase' \in {"approved", "done"}
  /\ UNCHANGED <<job, attempt, elapsed, negotiated, verdict, settleable, mandate>>

MintLines ==
  /\ phase = "approved"
  /\ settleable' = MintSettleable(verdict.totals.perLine, job.shelf.items, job.rules.backorderSkus)
  /\ phase' = "minted"
  /\ UNCHANGED <<job, attempt, elapsed, negotiated, verdict, mandate>>

ShowMandate ==
  /\ phase = "minted"
  /\ mandate' = <<BuildCartMandate(settleable, LinesTotal(settleable), job.shelf.items)>>
  /\ phase' = "done"
  /\ UNCHANGED <<job, attempt, elapsed, negotiated, verdict, settleable>>

OffersNext == CallAnswers \/ CallFails \/ CallRejected \/ Evaluate \/ Answered \/ MintLines \/ ShowMandate

----------------------------------------------------------------------------
(* Properties.                                                             *)

\* What the policy says of an input, from its lines as they came and with no
\* rule skipped.  A material drift hides the margin.
ListTotal(lines, items) == SumSeq([i \in DOMAIN lines |-> items[lines[i].sku].price * lines[i].qty])
CostTotal(lines, items) == SumSeq([i \in DOMAIN lines |-> items[lines[i].sku].cost * lines[i].qty])
NetTotal(cart, items) ==
  LET gross == ListTotal(cart.lines, items)
  IN gross - MulDivRoundHalfUp(gross, ToBps(cart.pct), 10000)

Disputed(in, net) == Distance(in.cart.aiTotal, net) > DriftThreshold(net, in.rules)

Untimely(in) ==
  \/ in.cart.issued - in.now > in.rules.maxSkew * Second
  \/ in.cart.expires < in.now
  \/ (in.now - in.cart.issued) \div Second > in.rules.maxAge

SoundCart(in) ==
  /\ in.cart.lines # <<>> /\ in.cart.finite /\ in.cart.pct \in Percent
  /\ \A s \in SkusOf(in.cart.lines) : QtyOf(in.cart.lines, s) > 0 /\ s \in DOMAIN in.items

\* Of a sound cart: some line of it may not be sold.
Unsold(in) ==
  \E s \in SkusOf(in.cart.lines) :
    LET item == in.items[s] IN
    \/ ~in.rules.allowAll /\ item.category \notin in.rules.allowlist
    \/ in.rules.requireStock /\ QtyOf(in.cart.lines, s) > item.stock /\ s \notin in.rules.backorderSkus
    \/ in.rules.blockExpired /\ IsExpired(item, in.now)

Refused(in, net) ==
  LET r == in.rules
      margin == net - CostTotal(in.cart.lines, in.items)
  IN \/ ~in.cart.audited \/ Untimely(in) \/ ~SoundCart(in) \/ Unsold(in)
     \/ ToBps(in.cart.pct) > ToBps(r.maxDiscountPct) \/ net > r.maxValue
     \/ ~Disputed(in, net) /\ ~CrossMarginHolds(margin, net, ToBps(r.marginFloorPct))
     \/ in.velocity.available /\ \/ in.velocity.requests >= r.maxRequests
                                 \/ in.velocity.approved + net > r.maxDayValue

Doubtful(in, net) ==
  LET r == in.rules IN
  \/ r.effectiveFrom > in.now \/ Disputed(in, net) \/ in.suspected \/ ~in.velocity.available
  \/ r.valueBandPct > 0 /\ net \in ValueBandLowerEdge(r) .. r.maxValue - 1
  \/ /\ r.discountBandPct > 0
     /\ ToBps(in.cart.pct) \in DiscountBandLowerBps(r) .. ToBps(r.maxDiscountPct) - 1
  \/ in.velocity.escalations >= r.escalationsMax
  \/ in.velocity.declines >= r.declinesMax
  \/ in.velocity.injections >= r.injectionsMax

PolicyOutcome(in) ==
  LET net == NetTotal(in.cart, in.items)
  IN IF Refused(in, net) THEN "DECLINE" ELSE IF Doubtful(in, net) THEN "ESCALATE" ELSE "APPROVE"

\* What an approval row tells the merchant of a band or of a missing history.
ReasonHolds(in, v) ==
  LET why == EscalateReason(v)
      bps == ToBps(in.cart.pct)
  IN /\ why = "ESCALATION_BAND_SOFT_EDGE" =>
          \/ v.totals.net \in ValueBandLowerEdge(in.rules) .. in.rules.maxValue - 1
          \/ bps \in DiscountBandLowerBps(in.rules) .. ToBps(in.rules.maxDiscountPct) - 1
     /\ why = "VELOCITY_SOFT_BAND" => ~in.velocity.available

\* Merging the lines, skipping rules behind failed ones and aggregating the
\* trace never change what the policy says of a cart (engine.ts, context.ts).
\* The result is one its schema admits, an escalation names a cause that holds,
\* and a cart the schema admits never fails on its structure (schemas.ts).
GateFollowsPolicy == verdict # None =>
  /\ verdict.outcome = PolicyOutcome(GateInput)
  /\ ValidResult(verdict)
  /\ verdict.outcome = "ESCALATE" => ReasonHolds(GateInput, verdict)
  /\ ValidCart(GateInput.cart) =>
       ~\E e \in Inner(verdict.trace, LAMBDA x : x.id = "STRUCTURE") : e.status = "FAIL"

\* No paisa and no unit is made or lost between the cart, the gate's lines, the
\* settleable, the holds and the mandate (money.ts, orchestrator.ts, reserve.ts,
\* mandate-builder.ts).
PaiseConserved ==
  /\ verdict # None =>
       LET t == verdict.totals IN
       /\ t.net = SumSeq(Field(t.perLine, LAMBDA l : l.net))
       /\ t.gross >= t.net
       /\ \A i \in DOMAIN t.perLine : t.perLine[i].net >= 0
  /\ phase \in {"minted", "done"} /\ settleable # <<>> =>
       /\ LinesTotal(settleable) = verdict.totals.net
       /\ \A s \in SkusOf(GateInput.cart.lines) :
            /\ QtyOf(settleable, s) = QtyOf(GateInput.cart.lines, s)
            /\ QtyOf(AggregateHoldLines(settleable), s) = QtyOf(settleable, s)
  /\ mandate # <<>> => /\ mandate[1].ok /\ ArithmeticConsistent(mandate[1])
                       /\ mandate[1].total = verdict.totals.net

\* The rupee figures the shelf can justify.
Justified(value, shelf) ==
  LET item(s) == shelf.items[s]
      figures == {item(s).cost : s \in DOMAIN shelf.items}
        \cup {item(s).price - item(s).cost : s \in DOMAIN shelf.items}
        \cup {MapThenSumSet(LAMBDA s : item(s).price, S) : S \in SUBSET DOMAIN shelf.items}
  IN \E f \in figures : Distance(value, f) <= 1

\* Whoever wrote it, an offer sells only what the shelf holds, quotes only
\* rupees the shelf justifies, and never fails the gate on its structure, its
\* skus, its totals or its stock (audit.ts, fallback.ts, cart-adapter.ts).
OfferIsGrounded ==
  negotiated # None /\ negotiated.proposal.items # <<>> =>
    LET p == negotiated.proposal IN
    /\ \A i \in DOMAIN p.items :
         /\ p.items[i].sku \in DOMAIN job.shelf.items
         /\ p.items[i].qty \in 1 .. job.shelf.items[p.items[i].sku].stock
         /\ \A j \in DOMAIN p.items : p.items[i].sku = p.items[j].sku => i = j
    /\ \A i \in DOMAIN p.claims : \A n \in DOMAIN p.claims[i].tokens :
         LET token == p.claims[i].tokens[n] IN
         token.unit = "RUPEE" => Justified(token.value, job.shelf)
    /\ ValidCart(GateInput.cart)
    /\ verdict # None =>
         \A i \in DOMAIN verdict.trace :
           verdict.trace[i].id \in {"STRUCTURE", "SKU", "DRIFT", "STOCK"}
             => verdict.trace[i].status = "PASS"

\* The fallback's own audit is clean (stage.ts:37, fallback.ts:299).
FallbackIsClean == negotiated # None /\ negotiated.outcome = "FALLBACK"
                     => negotiated.audit \in {"CLEAN", "NONE"}
=============================================================================
