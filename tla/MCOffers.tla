------------------------------ MODULE MCOffers ------------------------------
(***************************************************************************)
(* Small shelves, rules, requests, replies and hand-made carts.            *)
(***************************************************************************)
EXTENDS Offers

Today == 1000 * 400

Cake == [price |-> 1005, cost |-> 601, stock |-> 2, category |-> "cakes", sellBy |-> 0, label |-> 500]
Loaf == [price |-> 333, cost |-> 209, stock |-> 1, category |-> "breads", sellBy |-> 0, label |-> 0]
Box == [price |-> 498, cost |-> 460, stock |-> 3, category |-> "boxes", sellBy |-> Today + 20, label |-> 0]
OldCake == [price |-> 250, cost |-> 100, stock |-> 5, category |-> "cakes", sellBy |-> Today - 1001, label |-> 9]

Push(targets, weight, action, id) ==
  [id |-> id, action |-> action, targets |-> targets, weight |-> weight, advertised |-> {1000}]

Plain == [items |-> <<Cake, Loaf, Box, OldCake>>, pairs |-> <<{}, {}, {}, {}>>, fits |-> {},
          priorities |-> <<>>, now |-> Today]

Shelves == {
  Plain,
  [Plain EXCEPT !.pairs = <<{2, 4}, {}, {1, 3}, {2}>>, !.fits = {1, 3},
     !.priorities = <<Push(<<4, 3>>, 5, "CLEAR_NEAR_EXPIRY", 1), Push(<<2>>, 7, "PROMOTE_PAIR", 2),
                      Push(<<1>>, 5, "PRIORITIZE_IN_BUNDLES", 3)>>],
  [Plain EXCEPT !.items = <<[Cake EXCEPT !.stock = 0], [Loaf EXCEPT !.stock = 0], Box, OldCake>>],
  [Plain EXCEPT !.items = <<[Cake EXCEPT !.stock = 0], OldCake>>, !.pairs = <<{}, {}>>]}

BaseRules ==
  [maxValue |-> 2500, maxDiscountPct |-> 15000, marginFloorPct |-> 25000, valueBandPct |-> 15000,
   discountBandPct |-> 5000, driftPpm |-> 10000, effectiveFrom |-> Today, maxSkew |-> 60,
   maxAge |-> 300, allowAll |-> FALSE, allowlist |-> {"cakes", "breads", "boxes"},
   requireStock |-> TRUE, backorderSkus |-> {}, blockExpired |-> TRUE, maxRequests |-> 3,
   maxDayValue |-> 5000, escalationsMax |-> 2, declinesMax |-> 2, injectionsMax |-> 1]

Lenient == [BaseRules EXCEPT !.allowAll = TRUE, !.requireStock = FALSE, !.backorderSkus = {2},
                             !.marginFloorPct = 0, !.valueBandPct = 0, !.discountBandPct = 0]

RuleSets == {BaseRules, Lenient,
             [BaseRules EXCEPT !.allowlist = {"cakes"}, !.backorderSkus = {2, 3}],
             [BaseRules EXCEPT !.effectiveFrom = Today + 1],
             [BaseRules EXCEPT !.blockExpired = FALSE, !.maxValue = 2300]}

Calm == [available |-> TRUE, requests |-> 0, approved |-> 0, escalations |-> 0, declines |-> 0,
         injections |-> 0]
Histories == {Calm, [Calm EXCEPT !.available = FALSE], [Calm EXCEPT !.requests = 3],
              [Calm EXCEPT !.approved = 4000], [Calm EXCEPT !.declines = 2]}

Quiet == [raw |-> {}, folded |-> {}]
Notes == {Quiet, [raw |-> {}, folded |-> {"override"}]}

Line(sku, qty) == [sku |-> sku, qty |-> qty]

Requests == {<<>>, <<Line(1, 5)>>, <<Line(2, 1), Line(9, 1), Line(3, 2)>>,
             <<Line(4, 1), Line(1, 2), Line(2, 3), Line(1, 1)>>}

OfferJobs == [kind : {"offer"}, shelf : Shelves, rules : {BaseRules, Lenient}, request : Requests,
              note : Notes, velocity : {Calm}]
        \cup [kind : {"offer"}, shelf : {Plain}, rules : RuleSets, request : {<<>>},
              note : {Quiet}, velocity : Histories]

----------------------------------------------------------------------------
(* What a model may answer.                                                *)

Says(kind, ids, tokens) == [kind |-> kind, ids |-> ids, tokens |-> tokens]
Rupees(v) == Token("RUPEE", v, FALSE)
Count(v) == Token("COUNT", v, FALSE)

Offer(items, pct, claims) == [items |-> items, pct |-> pct, claims |-> claims, priorities |-> {}]

ClaimLists == {
  <<Says("PRICE", {1}, <<Rupees(1005)>>)>>,
  <<Says("PRICE", {1, 2}, <<Rupees(1338)>>), Says("STOCK", {5}, <<Count(2)>>)>>,
  <<Says("PRICE", {1}, <<Rupees(900)>>)>>,
  <<Says("STOCK", {7}, <<Count(8)>>), Says("STOCK", {5}, <<Count(4)>>)>>,
  <<Says("STOCK", {5}, <<Count(7)>>)>>,
  <<Says("PRICE", {1, 40}, <<Rupees(1005)>>), Says("STOCK", {40}, <<Count(9)>>)>>,
  <<Says("PRICE", {5}, <<Rupees(1)>>), Says("MARGIN", {9}, <<Token("PCT", 4000, FALSE)>>)>>,
  <<Says("MARGIN", {9}, <<Token("PCT", 4020, FALSE), Rupees(404)>>)>>,
  <<Says("PRICE", {1}, <<Token("PCT", 1000, TRUE)>>), Says("PRICE", {2}, <<Rupees(333)>>)>>}

MCProposals ==
  {Offer(<<Line(1, 2)>>, 5000, c) : c \in ClaimLists}
  \cup {Offer(items, pct, <<Says("PRICE", {2}, <<Rupees(333)>>)>>) :
          items \in {<<Line(1, 1)>>, <<Line(1, 2), Line(2, 1)>>, <<Line(1, 3)>>, <<Line(9, 1)>>,
                     <<Line(3, 3), Line(2, 1)>>, <<Line(4, 2)>>},
          pct \in {0, 500, 12500, 15000, 20000}}
  \cup {[Offer(<<Line(1, 1)>>, 0, <<Says("PRICE", {2}, <<Rupees(333)>>)>>) EXCEPT !.priorities = {3}]}

----------------------------------------------------------------------------
(* Carts handed to the gate.                                               *)

Cart(lines, pct, total) ==
  [lines |-> lines, pct |-> pct, aiTotal |-> total, finite |-> TRUE, issued |-> Today - 100,
   expires |-> Today + 380, audited |-> TRUE]

GateJob(cart, rules, velocity, suspected) ==
  [kind |-> "gate", input |-> [cart |-> cart, rules |-> rules, items |-> Plain.items,
     velocity |-> velocity, suspected |-> suspected, now |-> Today]]

GateLines == {<<>>} \cup [1 .. 1 -> [sku : {1, 2, 4, 9}, qty : {0, 1, 2}]]
             \cup [1 .. 2 -> [sku : {1, 2, 3}, qty : {1, 2}]]
             \cup {<<Line(2, 1), Line(1, 1), Line(2, 1)>>, <<Line(1, 1), Line(9, 1), Line(1, 1)>>}
FewLines == {<<>>, <<Line(2, 1), Line(1, 1), Line(2, 1)>>, <<Line(3, 2), Line(1, 2)>>}
            \cup [1 .. 1 -> [sku : {1, 2, 4, 9}, qty : {1, 2}]] \cup [1 .. 2 -> [sku : {1, 3}, qty : {1}]]

Total(lines, pct) ==
  BuildContext(GateJob(Cart(lines, pct, 0), BaseRules, Calm, FALSE).input).totals.net

CartsOf(lines, pct) == {Cart(lines, pct, Total(lines, pct) + d) : d \in {0, 3, 400}}

OddTimes == {[Cart(<<Line(1, 1)>>, 0, 1005) EXCEPT !.issued = Today + i, !.expires = Today + e] :
               i \in {-602, -601, -600, 120, 121}, e \in {-1, 0, 200}}
OddCarts == {[Cart(<<Line(1, 1)>>, 0, 1005) EXCEPT !.audited = FALSE],
             [Cart(<<Line(1, 1)>>, 0, 1005) EXCEPT !.finite = FALSE]}

GateJobs ==
  {GateJob(c, BaseRules, Calm, FALSE) :
     c \in UNION {CartsOf(l, p) : l \in GateLines, p \in {0, 10000, 14990, 15000, 15010, 150000}}
           \cup OddTimes \cup OddCarts}
  \cup {GateJob(Cart(l, 0, Total(l, 0)), r, v, s) :
          l \in FewLines, r \in RuleSets, v \in Histories, s \in BOOLEAN}

MCJobs == OfferJobs \cup GateJobs

\* The rules, the ground truth, the histories and the proposals are ones the
\* schemas admit; carts handed to the gate need not be.
ASSUME MCInputs ==
  /\ \A r \in RuleSets : ValidRules(r)
  /\ \A v \in Histories : ValidHistory(v)
  /\ \A shelf \in Shelves : \A i \in DOMAIN shelf.items : ValidItem(shelf.items[i])
  /\ \A p \in Proposals : ValidProposal(p)
=============================================================================
