----------------------------- MODULE MCServices -----------------------------
(***************************************************************************)
(* The services around settlement share no state with one another, so one  *)
(* run checks each of them on its own: `part` says whose steps a behaviour *)
(* is made of, and the others stay where they begin.                       *)
(***************************************************************************)
EXTENDS Idempotency, RulesStore, FrontDoor, EventStream

VARIABLE part

servicesVars == <<idemVars, rulesVars, doorVars, streamVars, part>>

ServicesInit ==
  /\ IdemInit /\ RulesInit /\ DoorInit /\ StreamInit
  /\ part \in {"idempotency", "rules", "door", "stream"}
  /\ part # "door" => caller = [r \in Reqs |-> CHOOSE a \in Agents : TRUE]

Only(p) ==
  /\ part = p /\ UNCHANGED part
  /\ p # "idempotency" => UNCHANGED idemVars
  /\ p # "rules" => UNCHANGED rulesVars
  /\ p # "door" => UNCHANGED doorVars
  /\ p # "stream" => UNCHANGED streamVars

ServicesNext ==
  \/ IdemNext /\ Only("idempotency")
  \/ RulesNext /\ Only("rules")
  \/ DoorNext /\ Only("door")
  \/ StreamNext /\ Only("stream")

ServicesSpec ==
  /\ ServicesInit /\ [][ServicesNext]_servicesVars
  /\ WF_servicesVars(StreamStep /\ Only("stream"))
  /\ WF_servicesVars(PageStep /\ Only("stream"))
  /\ WF_servicesVars(LearnsTerminal /\ Only("stream"))
=============================================================================
