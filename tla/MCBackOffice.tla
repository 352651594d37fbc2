---------------------------- MODULE MCBackOffice ----------------------------
(***************************************************************************)
(* The parts that share no state with one another: offers and the gate,    *)
(* payment reports on their way in, the demo control plane, the other      *)
(* writers and the board.  `part` says whose steps a behaviour is made of. *)
(***************************************************************************)
EXTENDS MCOffers, Delivery, Demo, Authors, Dashboard

VARIABLE part

backOfficeVars == <<offerVars, deliveryVars, demoVars, authorsVars, dashboardVars, part>>

BackOfficeInit ==
  /\ part \in {"offers", "delivery", "demo", "authors", "board"}
  /\ part # "offers" => job = CHOOSE j \in Jobs : j.kind = "gate"
  /\ part # "authors" => task = CHOOSE t \in Tasks : t.writer = "explainer"
  /\ OffersInit /\ DeliveryInit /\ DemoInit /\ AuthorsInit /\ DashboardInit

Does(p) ==
  /\ part = p /\ UNCHANGED part
  /\ p # "offers" => UNCHANGED offerVars
  /\ p # "delivery" => UNCHANGED deliveryVars
  /\ p # "demo" => UNCHANGED demoVars
  /\ p # "authors" => UNCHANGED authorsVars
  /\ p # "board" => UNCHANGED dashboardVars

BackOfficeNext ==
  \/ OffersNext /\ Does("offers")
  \/ DeliveryNext /\ Does("delivery")
  \/ DemoNext /\ Does("demo")
  \/ AuthorsNext /\ Does("authors")
  \/ DashboardNext /\ Does("board")

\* Time passes and a scenario's own steps are taken; nothing else is promised.
BackOfficeSpec ==
  /\ BackOfficeInit /\ [][BackOfficeNext]_backOfficeVars
  /\ WF_backOfficeVars(DemoTick /\ Does("demo"))
  /\ \A r \in Shows : WF_backOfficeVars(RunnerStep(r) /\ Does("demo"))

----------------------------------------------------------------------------
(* Environments of a process: a rotation of the webhook secret, the        *)
(* simulator, and three that refuse to boot.                               *)

MCSecrets == <<"june", "july">>

Env(mode, new, was) ==
  [production |-> FALSE, provider |-> mode, keyId |-> IF mode = "TEST_MODE" THEN "valid" ELSE "",
   keySecret |-> mode = "TEST_MODE", hook |-> new, old |-> was, numbers |-> TRUE]

MCEnvironments ==
  {Env("TEST_MODE", "june", NoSecret), Env("TEST_MODE", "july", "june"), Env("", NoSecret, NoSecret),
   [Env("", NoSecret, NoSecret) EXCEPT !.production = TRUE],
   Env("MOCK", "july", "june"), [Env("TEST_MODE", "june", NoSecret) EXCEPT !.keyId = "placeholder"],
   [Env("MOCK", "june", NoSecret) EXCEPT !.numbers = FALSE]}

----------------------------------------------------------------------------
(* What there is to write, and what may be answered.                       *)

Metric(key, shown, value, inside) == [key |-> key, shown |-> shown, value |-> value, inside |-> inside]

Attach(id, skus, weight) ==
  [id |-> id, type |-> "ATTACH_BUNDLE", skus |-> skus, weight |-> weight,
   metrics |-> {Metric("support", 5, 5, {"confidence"}), Metric("confidence", 15, 15, {}),
                Metric("co_count", 9, 9, {})}]
Expiring(id, skus, weight) ==
  [Attach(id, skus, weight) EXCEPT !.type = "EXPIRY_RISK",
     !.metrics = {Metric("stock_units", 12, 12, {}), Metric("days_to_expiry", 3, 3, {})}]
Slow(id, skus, weight) ==
  [Expiring(id, skus, weight) EXCEPT !.type = "UNDERSELLING",
     !.metrics = {Metric("stock_units", 12, 12, {}), Metric("velocity_ratio", 46, 464, {})}]

Opportunities ==
  {{Attach(1, {"a", "b"}, 900), Expiring(2, {"b", "c"}, 704), Slow(3, {"c"}, 704)},
   {Attach(1, {"a", "b"}, 704), Expiring(2, {"c"}, 704), Slow(3, {"d"}, 300), Slow(4, {"e"}, 706)},
   {Slow(7, {"a"}, 996), Slow(6, {"a"}, 996)}, {}}

Campaign(opps, previous) == [writer |-> "campaign", opps |-> opps, previous |-> previous]
Batch == [writer |-> "catalogue", items |-> 2, catalogue |-> {"a", "b"}]
Explained == [writer |-> "explainer", seqs |-> {1, 4}]

MCTasks == {Campaign(o, p) : o \in Opportunities, p \in BOOLEAN} \cup {Batch, Explained}

Text(shows, numbers) == [shows |-> shows, numbers |-> numbers]
Texts == {Text({"stock_units", "days_to_expiry"}, {}), Text({"stock_units", "velocity_ratio"}, {464, 71}),
          Text({"co_count", "confidence"}, {}), Text({"co_count"}, {5}),
          Text({"stock_units", "velocity_ratio"}, {54})}
Indexed == [index : {1, 2, 9}, text : Texts]

Copy(name, description) ==
  [name : {name}, description : {description}, occasions : {<<>>, <<"diwali", "gala", "diwali">>},
   pairings : {<<"b">>, <<"z", "a", "a">>}, tags : {<<>>, <<"x", "", "x", "y", "w">>}]

MCAnswers(t) ==
  CASE t.writer = "campaign" -> {<<>>} \cup {<<r>> : r \in Indexed} \cup {<<r, q>> : r, q \in Indexed}
    [] t.writer = "catalogue" -> Copy("cake", "rich") \cup Copy("", "rich") \cup Copy("cake", "")
    [] t.writer = "explainer" ->
         [grounds : SUBSET {1, 4, 6}, repeats : SUBSET [long : BOOLEAN, quoted : BOOLEAN]]

----------------------------------------------------------------------------
(* One cart goes all the way, another submits and may be closed.           *)

CONSTANTS k1, k2
MCWorth == (k1 :> 5) @@ (k2 :> 7)
MCBudget == (k1 :> 7) @@ (k2 :> 2)
=============================================================================
