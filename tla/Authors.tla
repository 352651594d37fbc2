------------------------------- MODULE Authors -------------------------------
(***************************************************************************)
(* The three other writers that put a language model's words in front of   *)
(* people: the campaign set with its rationales, the catalogue's copy and  *)
(* the explainer's narrative.  Each makes at most Attempts calls through a *)
(* port, classifies what the port throws, and lets a deterministic check   *)
(* decide what ships.                                                      *)
(*                                                                         *)
(* A text is what the checks can tell of it: the metric displays it spells *)
(* out, the other numbers in it, the untrusted strings it repeats and      *)
(* whether those are quoted as a buyer's claim.                            *)
(***************************************************************************)
EXTENDS Integers, Sequences, FiniteSets, SequencesExt

CONSTANTS
  Attempts,      \* rationaleAttempts, enrichmentAttempts, ATTEMPTS
  MaxEntries,    \* maxEntriesPerSet
  MaxTags,
  ClosedOccasions,
  Tasks,         \* what there is to write
  Answers(_)     \* what the model may answer to a task

OppTypes == {"EXPIRY_RISK", "UNDERSELLING", "ATTACH_BUNDLE", "TIMING"}

\* What a cycle of analytics hands over: an id is a hash of type and skus, a
\* weight is in thousandths.
OppSet(opps) ==
  /\ IsFiniteSet(opps)
  /\ \A o \in opps : o.id \in Nat /\ o.weight \in Nat /\ o.type \in OppTypes
  /\ \A o, p \in opps : o.id = p.id => o = p

IsSequence(s) == s \in Seq(ToSet(s))

\* What a port returns is of the schema; what it says is anybody's.
ASSUME AuthorsAssumption ==
  /\ Attempts \in Nat \ {0} /\ MaxEntries \in Nat /\ MaxTags \in Nat
  /\ \A t \in Tasks :
       /\ t.writer \in {"campaign", "catalogue", "explainer"}
       /\ t.writer = "campaign" => OppSet(t.opps) /\ \A a \in Answers(t) : IsSequence(a)
       /\ t.writer = "catalogue" =>
            \A a \in Answers(t) : IsSequence(a.occasions) /\ IsSequence(a.pairings) /\ IsSequence(a.tags)

VARIABLES
  task,     \* the cycle, the batch or the decline being explained
  calls,    \* calls made for the item in hand
  heard,    \* what the last of them returned or threw
  written   \* results, one per item

authorsVars == <<task, calls, heard, written>>

Nothing == [threw |-> "nothing"]
Thrown(e) == [threw |-> e]
Returned(a) == [threw |-> "no", answer |-> a]

----------------------------------------------------------------------------
(* The ports.  An answer that is not one JSON object of the schema is      *)
(* "parse"; a recording that is missing is "miss".                         *)

Errors == {"chaos", "parse", "network", "http429", "http500", "http408", "http400", "miss"}

\* The catalogue's own classifier leaves out 408 and 409, which the shared one
\* of the other two retries.
Weather(writer) ==
  {"network", "http429", "http500"} \cup (IF writer = "catalogue" THEN {} ELSE {"http408"})

Classify(writer, e) ==
  CASE e = "chaos" -> "CHAOS_FORCED"
    [] e = "parse" -> "PARSE_FAILED"
    [] e \in Weather(writer) -> "RETRYABLE_EXHAUSTED"
    [] OTHER -> "NON_RETRYABLE"

\* The ladder: a success, our own bug and the chaos toggle end it at once.
Decided ==
  \/ heard.threw = "no" \/ calls = Attempts
  \/ calls > 0 /\ Classify(task.writer, heard.threw) \in {"NON_RETRYABLE", "CHAOS_FORCED"}

----------------------------------------------------------------------------
(* The campaign set.                                                       *)

TieBreak(type) ==
  CASE type = "EXPIRY_RISK" -> 0 [] type = "UNDERSELLING" -> 1
    [] type = "ATTACH_BUNDLE" -> 2 [] type = "TIMING" -> 3

ActionOf(type) ==
  CASE type \in {"UNDERSELLING", "TIMING"} -> "PRIORITIZE_IN_BUNDLES"
    [] type = "EXPIRY_RISK" -> "CLEAR_NEAR_EXPIRY"
    [] type = "ATTACH_BUNDLE" -> "PROMOTE_PAIR"

\* Weight first, then type, then id: the order is total.
Before(a, b) ==
  \/ a.weight > b.weight
  \/ a.weight = b.weight /\ TieBreak(a.type) < TieBreak(b.type)
  \/ a.weight = b.weight /\ a.type = b.type /\ a.id < b.id

Ranked(opps) ==
  CHOOSE s \in [1 .. Cardinality(opps) -> opps] :
    \A i, j \in 1 .. Cardinality(opps) : i < j => Before(s[i], s[j])

Claimed(entries) == UNION {entries[i].skus : i \in DOMAIN entries}

\* The weight is rounded here, once, to two places: the input is in thousandths.
Draft(o) == [id |-> o.id, action |-> ActionOf(o.type), skus |-> o.skus, weight |-> (o.weight + 5) \div 10]

Suppress(acc, o, why) == [acc EXCEPT !.suppressed = Append(@, [id |-> o.id, reason |-> why])]

Place_OverlapAllowed(acc, o) ==
  IF Len(acc.entries) >= MaxEntries THEN Suppress(acc, o, "SET_FULL")
  ELSE IF o.skus \subseteq Claimed(acc.entries) THEN Suppress(acc, o, "SKU_ALREADY_CLAIMED")
  ELSE [acc EXCEPT !.entries = Append(@, Draft(o))]

Place(acc, o) ==
  IF Len(acc.entries) >= MaxEntries THEN Suppress(acc, o, "SET_FULL")
  ELSE IF o.skus \cap Claimed(acc.entries) # {} THEN Suppress(acc, o, "SKU_ALREADY_CLAIMED")
  ELSE [acc EXCEPT !.entries = Append(@, Draft(o))]

Assembly(opps) == FoldLeft(Place, [entries |-> <<>>, suppressed |-> <<>>], Ranked(opps))

OppOf(opps, id) == CHOOSE o \in opps : o.id = id

\* Rule 1 looks for a display as a substring, so "3 units" is found in
\* "13 units": a metric's `inside` names the displays that contain its own.
Spells(text, m) == m.key \in text.shows \/ m.inside \cap text.shows # {}

\* Rule 2: numbers come from displays, from raw values or from the weight.
AllowedNumbers(o) == UNION {{m.shown, m.value} : m \in o.metrics} \cup {Draft(o).weight}

NumbersIn(o, text) == text.numbers \cup {m.shown : m \in {x \in o.metrics : x.key \in text.shows}}

VerifyRationale(o, text) ==
  IF \E m \in o.metrics : ~Spells(text, m) THEN "MISSING_METRIC"
  ELSE IF NumbersIn(o, text) \subseteq AllowedNumbers(o) THEN "VERIFIED"
  ELSE "INVENTED_NUMBER"

\* A template quotes exactly the metrics of its type.
TemplateRationale(o) == [shows |-> {m.key : m \in o.metrics}, numbers |-> {}]

\* The first rationale for an index counts; a later one is reported, one for an
\* index out of range is not.
FirstFor(answer, i) ==
  LET at == {k \in DOMAIN answer : answer[k].index = i}
  IN IF at = {} THEN {} ELSE {answer[CHOOSE k \in at : \A j \in at : k <= j].text}

Repeats(answer, n) ==
  {k \in DOMAIN answer : /\ answer[k].index \in 1 .. n
                         /\ \E j \in 1 .. k - 1 : answer[j].index = answer[k].index}

Entry(d, text, provenance) ==
  [id |-> d.id, action |-> d.action, skus |-> d.skus, weight |-> d.weight,
   text |-> text, provenance |-> provenance]

Applied(opps, drafts, answer) ==
  LET text(i) == FirstFor(answer, i)
      opp(i) == OppOf(opps, drafts[i].id)
      good(i) == \E t \in text(i) : VerifyRationale(opp(i), t) = "VERIFIED"
      entry(i) == IF good(i) THEN Entry(drafts[i], CHOOSE t \in text(i) : TRUE, "VERIFIED_LLM")
                  ELSE Entry(drafts[i], TemplateRationale(opp(i)), "TEMPLATE_FALLBACK")
  IN [entries |-> [i \in DOMAIN drafts |-> entry(i)],
      fallbacks |-> Cardinality({i \in DOMAIN drafts : ~good(i)})
                    + Cardinality(Repeats(answer, Len(drafts)))]

\* resolveOutcome: a failed port keeps the previous set, unless there is none.
CampaignOutcome(t, h) ==
  LET a == Assembly(t.opps)
      publish(status, answer) ==
        LET p == Applied(t.opps, a.entries, answer)
        IN [kind |-> "PUBLISH", entries |-> p.entries, suppressed |-> a.suppressed,
            status |-> IF status # "" THEN status ELSE IF p.fallbacks = 0 THEN "FRESH" ELSE "PARTIAL_TEMPLATE"]
  IN IF h.threw = "no" THEN publish("", h.answer)
     ELSE IF t.previous THEN [kind |-> "KEEP_PREVIOUS"]
     ELSE publish("TEMPLATE_ONLY", <<>>)

----------------------------------------------------------------------------
(* The catalogue.  Words are kept in lower case, as the code folds them.   *)

\* What is closed, sold or not blank, once each, in the order of the answer.
Keep(kept, acc, x) == IF x \in kept /\ ~Contains(acc, x) THEN Append(acc, x) ELSE acc
Distinct(s, kept) == FoldLeft(LAMBDA acc, x : Keep(kept, acc, x), <<>>, s)

UpTo(s, n) == SubSeq(s, 1, IF Len(s) < n THEN Len(s) ELSE n)

NormalizeEnrichment(answer, catalogue) ==
  [name |-> answer.name,
   occasions |-> Distinct(answer.occasions, ClosedOccasions),
   pairings |-> Distinct(answer.pairings, catalogue),
   tags |-> UpTo(Distinct(answer.tags, ToSet(answer.tags) \ {""}), MaxTags)]

\* One item of the batch: a failure stays with its item.
EnrichmentOutcome(t, h) ==
  IF h.threw # "no" THEN [status |-> "UNENRICHED"]
  ELSE IF h.answer.name = "" \/ h.answer.description = "" THEN [status |-> "UNENRICHED"]
  ELSE [status |-> "ENRICHED", fields |-> NormalizeEnrichment(h.answer, t.catalogue)]

----------------------------------------------------------------------------
(* The narrative.                                                          *)

VerifyNarration(t, answer) ==
  IF answer.grounds = {} THEN "EMPTY_GROUNDING"
  ELSE IF ~(answer.grounds \subseteq t.seqs) THEN "GROUNDING_FABRICATED"
  ELSE IF \E x \in answer.repeats : x.long /\ ~x.quoted THEN "UNTRUSTED_RESTATED"
  ELSE "OK"

NarrationOutcome(t, h) ==
  IF h.threw # "no" THEN [kind |-> "NONE", reason |-> Classify("explainer", h.threw)]
  ELSE IF VerifyNarration(t, h.answer) = "OK" THEN [kind |-> "NARRATIVE", body |-> h.answer]
  ELSE [kind |-> "NONE", reason |-> VerifyNarration(t, h.answer)]

----------------------------------------------------------------------------

AuthorsInit == task \in Tasks /\ calls = 0 /\ heard = Nothing /\ written = <<>>

Items(t) == IF t.writer = "catalogue" THEN t.items ELSE 1
Busy == Len(written) < Items(task)

Call ==
  /\ Busy /\ ~Decided /\ calls' = calls + 1
  /\ \/ \E e \in Errors : heard' = Thrown(e)
     \/ \E a \in Answers(task) : heard' = Returned(a)
  /\ UNCHANGED <<task, written>>

Outcome(t, h) ==
  CASE t.writer = "campaign" -> CampaignOutcome(t, h)
    [] t.writer = "catalogue" -> EnrichmentOutcome(t, h)
    [] t.writer = "explainer" -> NarrationOutcome(t, h)

Resolve ==
  /\ Busy /\ Decided
  /\ written' = Append(written, Outcome(task, heard))
  /\ calls' = 0 /\ heard' = Nothing
  /\ UNCHANGED task

AuthorsNext == Call \/ Resolve

----------------------------------------------------------------------------

SetIsSound(t, w) ==
  LET e == w.entries
      shares(i, o) == e[i].skus \cap o.skus # {}
      opp(i) == OppOf(t.opps, e[i].id)
  IN /\ Len(e) <= MaxEntries
     /\ \A i, j \in DOMAIN e : i < j => e[i].skus \cap e[j].skus = {} /\ e[i].weight >= e[j].weight
     /\ Len(e) + Len(w.suppressed) = Cardinality(t.opps)
     /\ {e[i].id : i \in DOMAIN e} \cup {w.suppressed[i].id : i \in DOMAIN w.suppressed} = {o.id : o \in t.opps}
     /\ \A k \in DOMAIN w.suppressed :
          LET o == OppOf(t.opps, w.suppressed[k].id)
              ahead == {i \in DOMAIN e : opp(i).weight >= o.weight}
          IN \/ w.suppressed[k].reason = "SET_FULL" /\ Cardinality(ahead) = MaxEntries
             \/ w.suppressed[k].reason = "SKU_ALREADY_CLAIMED" /\ \E i \in ahead : shares(i, o)
     /\ \A i \in DOMAIN e :
          /\ VerifyRationale(opp(i), e[i].text) = "VERIFIED"
          /\ w.status = "FRESH" => e[i].provenance = "VERIFIED_LLM"
          /\ w.status = "TEMPLATE_ONLY" => e[i].provenance = "TEMPLATE_FALLBACK"

CopyIsSound(t, w) ==
  /\ w.fields.name # "" /\ Len(w.fields.tags) <= MaxTags
  /\ \A i \in DOMAIN w.fields.occasions : w.fields.occasions[i] \in ClosedOccasions
  /\ \A i \in DOMAIN w.fields.pairings : w.fields.pairings[i] \in t.catalogue
  /\ \A s \in {w.fields.tags, w.fields.occasions, w.fields.pairings} : IsInjective(s)

\* Whatever the model answers and however its calls fail, what is published is
\* sound: no sku is pushed by two entries, every opportunity is in the set or
\* suppressed for a reason that is true of the entries ranked before it, every
\* rationale (the model's or the template that replaced it) says its metrics
\* and no number of its own, the copy names real skus and known occasions, and
\* a narrative rests on recorded events and repeats no buyer's words as fact.
PublishedIsSound ==
  \A k \in DOMAIN written :
    LET w == written[k] IN
    CASE task.writer = "campaign" -> w.kind = "PUBLISH" => SetIsSound(task, w)
      [] task.writer = "catalogue" -> w.status = "ENRICHED" => CopyIsSound(task, w)
      [] task.writer = "explainer" -> w.kind = "NARRATIVE" =>
           /\ w.body.grounds # {} /\ w.body.grounds \subseteq task.seqs
           /\ \A x \in w.body.repeats : x.long => x.quoted
=============================================================================
