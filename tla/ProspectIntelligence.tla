------------------------ MODULE ProspectIntelligence ------------------------
(***************************************************************************)
(* The picture of the person on the line                                   *)
(* (conversation/prospect_intelligence): observed facts and inferences,    *)
(* kept apart, each with the turn it comes from.  The turn stands for the  *)
(* value: 0 is an absent one.                                              *)
(***************************************************************************)
EXTENDS Naturals, Sequences, FiniteSets

\* Slots that can be stated and can be inferred.
SharedSlots == {"role", "decision_authority", "next_step", "objection"}

StatedOnly == {"interest", "busy", "human_request", "timing"}

InferredOnly == {"influence", "buying_stage", "openness", "urgency"}

StatedSlots == SharedSlots \cup StatedOnly

InferredSlots == SharedSlots \cup InferredOnly \cup {"pain", "satisfaction"}

MaxPains == 3

\* The prospect's current solution may be named with or without a rating.
Solutions == [source : Nat, rated : BOOLEAN]

ObservedFacts == [said : [StatedSlots -> Nat], pains : Seq(Nat),
                  solution : Solutions]

Intelligence == [observed : ObservedFacts, inferred : [InferredSlots -> Nat]]

NothingKnown ==
    [observed |-> [said |-> [s \in StatedSlots |-> 0], pains |-> <<>>,
                   solution |-> [source |-> 0, rated |-> FALSE]],
     inferred |-> [s \in InferredSlots |-> 0]]

\* Evidence of one turn: the slots it states, whether it names a pain or a
\* solution, and the slots it lets one infer.
Evidence == [source : Nat \ {0}, stated : SUBSET StatedSlots, pain : BOOLEAN,
             solution : {"absent", "unrated", "rated"},
             inferred : SUBSET InferredSlots]

-----------------------------------------------------------------------------
(* ProspectIntelligenceUpdater. *)

Set(slots, f, source) == [s \in DOMAIN f |-> IF s \in slots THEN source ELSE f[s]]

\* The inferences an observed fact makes void.  A solution without a rating
\* does not answer how satisfied the prospect is.
Shadowed(observed) ==
    {s \in SharedSlots : observed.said[s] # 0}
        \cup (IF observed.pains # <<>> THEN {"pain"} ELSE {})
        \cup (IF observed.solution.rated THEN {"satisfaction"} ELSE {})

\* The inferences the turn's own statements make void.
Answered(e) ==
    (e.stated \cap SharedSlots)
        \cup (IF e.pain THEN {"pain"} ELSE {})
        \cup (IF e.solution # "absent" THEN {"satisfaction"} ELSE {})

LatestPains(pains) ==
    IF Len(pains) <= MaxPains THEN pains
    ELSE SubSeq(pains, Len(pains) - MaxPains + 1, Len(pains))

Observed(previous, e) ==
    [said     |-> Set(e.stated, previous.said, e.source),
     pains    |-> IF e.pain THEN LatestPains(Append(previous.pains, e.source))
                  ELSE previous.pains,
     solution |-> IF e.solution = "absent" THEN previous.solution
                  ELSE [source |-> e.source, rated |-> e.solution = "rated"]]

Update(previous, e) ==
    [observed |-> Observed(previous.observed, e),
     inferred |-> Set(Answered(e) \cup Shadowed(previous.observed),
                      Set(e.inferred, previous.inferred, e.source), 0)]

-----------------------------------------------------------------------------
(* The persisted form: one entry per known slot; what is absent reads as  *)
(* unknown.                                                               *)

Known(f) == {s \in DOMAIN f : f[s] # 0}

Written(f) == [s \in Known(f) |-> f[s]]

Read(slots, dict) == [s \in slots |-> IF s \in DOMAIN dict THEN dict[s] ELSE 0]

ProspectPayload(intel) ==
    [said |-> Written(intel.observed.said), pains |-> intel.observed.pains,
     solution |-> intel.observed.solution, inferred |-> Written(intel.inferred)]

ProspectFrom(payload) ==
    [observed |-> [said |-> Read(StatedSlots, payload.said),
                   pains |-> payload.pains, solution |-> payload.solution],
     inferred |-> Read(InferredSlots, payload.inferred)]

\* The turns a picture draws on.
StatedIn(intel) ==
    ({intel.observed.said[s] : s \in StatedSlots}
        \cup {intel.observed.pains[i] : i \in DOMAIN intel.observed.pains}
        \cup {intel.observed.solution.source}) \ {0}

-----------------------------------------------------------------------------
(***************************************************************************)
(* Progressive qualification (conversation/qualification): the campaign's  *)
(* fields, each unknown, inferred or observed.                             *)
(***************************************************************************)

States == {"unknown", "inferred", "observed"}

Completeness == {"very_early", "mostly_known", "sufficient"}

Progress == {"stable", "advancing", "complete", "corrected"}

MaxArchived == 30

\* Value 0 is no value.
FieldStates == [state : States, value : Nat]

UnknownField == [state |-> "unknown", value |-> 0]

Snapshots(config) ==
    [id : {config.id}, fields : [config.fields -> FieldStates],
     completeness : Completeness, progress : Progress,
     newly : SUBSET config.fields, corrected : SUBSET config.fields,
     replaced : SUBSET config.fields,
     archived : Seq([field : config.fields, was : FieldStates])]

NotQualified == [id |-> 0]

\* Evidence is given as a field state too: unknown where the turn says nothing
\* of the field.
Observations(config) == [config.fields -> FieldStates]

NothingObserved(config) == [f \in config.fields |-> UnknownField]

KnownFields(fields) == {f \in DOMAIN fields : fields[f].state # "unknown"}

-----------------------------------------------------------------------------

\* Another campaign's picture is not continued.
PriorFields(config, prior) ==
    IF prior.id = config.id THEN prior.fields
    ELSE NothingObserved(config)

PriorArchive(config, prior) ==
    IF prior.id = config.id THEN prior.archived ELSE <<>>

\* What was observed is replaced only by an observation.
Accepted(old, seen) ==
    {f \in KnownFields(seen) :
        seen[f].state = "observed" \/ old[f].state # "observed"}

Replaced(old, seen, accepted) ==
    {f \in accepted : old[f].value \notin {0, seen[f].value}}

CompletenessOf(config, fields) ==
    IF config.mandatory # {} /\ config.mandatory \subseteq KnownFields(fields)
    THEN "sufficient"
    ELSE IF KnownFields(fields) # {} THEN "mostly_known" ELSE "very_early"

ProgressOf(completeness, newly, corrected) ==
    IF corrected # {} THEN "corrected"
    ELSE IF completeness = "sufficient" THEN "complete"
    ELSE IF newly # {} THEN "advancing" ELSE "stable"

LastArchived(s) ==
    IF Len(s) <= MaxArchived THEN s
    ELSE SubSeq(s, Len(s) - MaxArchived + 1, Len(s))

\* The replaced fields in some order: the code's is the configuration's.
InOrder(fields) ==
    CHOOSE s \in [1..Cardinality(fields) -> fields] :
        fields = {s[i] : i \in DOMAIN s}

UpdateQualification(config, prior, seen, corrections) ==
    LET old      == PriorFields(config, prior)
        newly    == Accepted(old, seen)
        replaced == Replaced(old, seen, newly)
        order    == InOrder(replaced)
        now      == [f \in config.fields |->
                        IF f \in newly THEN seen[f] ELSE old[f]]
        complete == CompletenessOf(config, now)
    IN [id |-> config.id, fields |-> now, completeness |-> complete,
        progress  |-> ProgressOf(complete, newly, newly \cap corrections),
        newly     |-> newly,
        corrected |-> newly \cap corrections,
        replaced  |-> replaced,
        archived  |-> LastArchived(PriorArchive(config, prior)
                          \o [i \in DOMAIN order |->
                                 [field |-> order[i], was |-> old[order[i]]]])]

-----------------------------------------------------------------------------
(* Who is on the line and what each person has heard                       *)
(* (conversation/participant).  A provider proposes typed evidence, the    *)
(* continuity policy decides who speaks, and the re-explanation policy     *)
(* chooses how a concept is put to that person.                            *)
(*                                                                         *)
(* A reference is its number in the call: the factory of the policy counts *)
(* up.  Reference 0 is nobody.                                             *)

EvidenceKinds == {"none", "self_identification", "not_part_of_prior",
                  "handoff", "correction", "inferred"}

ContinuityStates == {"same_confirmed", "new_confirmed", "likely_new",
                     "uncertain", "unknown"}

Roles == {"unknown", "owner"}

References == [id : Nat, role : Roles]

NoOne == [id |-> 0, role |-> "unknown"]

-----------------------------------------------------------------------------
(* The continuity policy. *)

\* The factory's next reference, and its counter afterwards.
Fresh(minted, role) == [id |-> minted + 1, role |-> role]

Decided(state, who, minted) ==
    [state |-> state, who |-> who, minted |-> minted, refused |-> FALSE]

\* A new person takes over: the decision refuses a reference that is the
\* active person's own, with an exception.
TakeOver(active, role, minted) ==
    LET new == Fresh(minted, role)
    IN [Decided("new_confirmed", new, minted + 1)
           EXCEPT !.refused = active.id = new.id]

Refined(active, role) ==
    IF role = "unknown" THEN active ELSE [active EXCEPT !.role = role]

\* Without anybody active every kind of evidence takes a new reference; what
\* the processor does with it depends on the state.
FirstState == [none |-> "unknown", self_identification |-> "same_confirmed",
               correction |-> "uncertain", inferred |-> "likely_new"]

Decide(active, kind, role, minted) ==
    IF kind \in {"not_part_of_prior", "handoff"}
    THEN TakeOver(active, role, minted)
    ELSE IF active = NoOne
    THEN Decided(FirstState[kind],
                 Fresh(minted, IF kind = "none" THEN "unknown" ELSE role),
                 minted + 1)
    ELSE CASE kind = "self_identification" ->
                Decided("same_confirmed", Refined(active, role), minted)
           [] kind = "inferred" -> Decided("likely_new", active, minted)
           [] OTHER -> Decided("same_confirmed", active, minted)

-----------------------------------------------------------------------------
(* What has been explained to whom.  A coverage entry is a delivered      *)
(* explanation; asked questions, objections and evidence ids have no      *)
(* writer and are left out.                                               *)

DepthRank == [none |-> 0, mentioned |-> 1, brief |-> 2, explained |-> 3,
              detailed |-> 4]

Depths == DOMAIN DepthRank

CoverageEntries(Concepts) ==
    [who : Nat, concept : Concepts, depth : Depths \ {"none"}, source : Nat]

HeardBy(coverage, who) == {e.concept : e \in {c \in coverage : c.who = who}}

DepthFor(coverage, who, concept) ==
    LET heard == {e.depth : e \in {c \in coverage :
                                       c.who = who /\ c.concept = concept}}
    IN CHOOSE d \in heard \cup {"none"} :
           \A h \in heard : DepthRank[h] <= DepthRank[d]

Intents == {"none", "recap", "simplify", "deepen", "direct_question",
            "catalog"}

\* ReExplanationPolicy: the catalog intent never reaches it.
ReExplanation(state, who, concept, coverage, intent) ==
    LET prior     == DepthFor(coverage, who, concept)
        elsewhere == \E e \in coverage : e.concept = concept /\ e.who # who
        isNew     == state \in {"new_confirmed", "likely_new"}
        unsought  == IF prior = "none" /\ ~elsewhere THEN "no_prior_coverage"
                     ELSE IF isNew /\ prior = "none" THEN "full_re_explain"
                     ELSE "suppress"
    IN CASE intent = "simplify" -> "simplify"
         [] intent = "deepen" -> "deepen"
         [] intent = "recap" ->
                IF isNew THEN "full_re_explain" ELSE "concise_recap"
         [] intent = "direct_question" /\ isNew -> "full_re_explain"
         [] intent = "direct_question" /\ ~isNew /\ prior # "none" ->
                "concise_recap"
         [] OTHER -> unsought

\* The depth a strategy delivers; a suppressed explanation delivers none.
DeliveredDepth ==
    [no_prior_coverage |-> "explained", full_re_explain |-> "explained",
     concise_recap |-> "brief", deepen |-> "detailed", simplify |-> "brief",
     suppress |-> "none"]

\* The intent classifier: whatever goes wrong, no intent.
ClassifiedIntent(answer) == IF answer \in Intents THEN answer ELSE "none"
=============================================================================
