------------------------------ MODULE CallMemory ------------------------------
(***************************************************************************)
(* What one call remembers: who speaks, what each person said and heard,   *)
(* the business picture, the qualification and the supervisor's advice,    *)
(* over the turns of ProductionTurnProcessor, the commits of the durable   *)
(* runtime, failed commits and process restarts.                           *)
(*                                                                         *)
(* The decision about the reply (brain, strategy, plan, wording) is        *)
(* modelled in ConversationTurn and Reply.                                 *)
(***************************************************************************)
EXTENDS ProspectIntelligence, BusinessConversation

CONSTANTS
    Utterances,   \* what a turn may bring: a set of Turns
    Analyses,     \* what the supervisor may infer from a turn
    Concepts,     \* what can be explained, with NoConcept among them
    NoConcept,
    Languages,    \* language profiles: a main and a preferred language
    Unheard,      \* no language observed yet
    Campaign,     \* the qualification configuration
    MaxCoverage,  \* entries a coverage may hold (128 in the code)
    MaxTurns,     \* bound: turns of the call
    MaxFailures,  \* bound: commits that fail
    MaxRestarts   \* bound: process restarts

\* The language payload has no field for the preferred language.
LanguagePayload(language) == [language EXCEPT !.preferred = "none"]

ASSUME ConceptAssumption == NoConcept \in Concepts

ASSUME BoundAssumption ==
    {MaxCoverage, MaxTurns, MaxFailures, MaxRestarts} \subseteq Nat

\* Where no language was observed, none is preferred.
ASSUME LanguageAssumption ==
    /\ Unheard \in Languages
    /\ LanguagePayload(Unheard) = Unheard
    /\ \A l \in Languages : LanguagePayload(l) \in Languages

ASSUME CampaignAssumption == IsFiniteSet(Campaign.fields) /\ Campaign.id # 0

ASSUME AnalysisAssumption == Analyses \subseteq SUBSET InferredSlots

---------------------------------------------------------------------------
(* The supervisor's advice for later turns (conversation/supervisor): an    *)
(* analysis of a completed turn arrives when it is done, the buffer keeps   *)
(* the newest and hands it out once.  An insight is known by the turn it    *)
(* analyses; 0 is none.                                                     *)

Insights(Slots) == [turn : Nat, infers : SUBSET Slots, hints : BOOLEAN]

NoInsight == [turn |-> 0, infers |-> {}, hints |-> FALSE]

\* An insight infers something about the person or hints at a strategy.
WellFormed(insight) == insight.infers # {} \/ insight.hints

Buffers(Slots) == [latest : Insights(Slots), consumed : Nat]

EmptyBuffer == [latest |-> NoInsight, consumed |-> 0]

RecordOutcome(buffer, insight, sameCall) ==
    IF ~sameCall THEN "invalid_rejected"
    ELSE IF buffer.latest = NoInsight \/ insight.turn > buffer.latest.turn
    THEN "accepted"
    ELSE IF insight.turn < buffer.latest.turn THEN "stale_rejected"
    ELSE "duplicate_ignored"

\* Mutant: an older analysis that arrives late replaces a newer one.
RecordLatest(buffer, insight, sameCall) ==
    IF sameCall THEN [latest |-> insight, consumed |-> 0] ELSE buffer

RecordInsight(buffer, insight, sameCall) ==
    IF RecordOutcome(buffer, insight, sameCall) = "accepted"
    THEN [latest |-> insight, consumed |-> 0] ELSE buffer

\* Only a strictly later turn uses an insight, and only once.
ApplicableFor(buffer, turn) ==
    IF buffer.latest.turn < turn /\ buffer.latest.turn # buffer.consumed
    THEN buffer.latest ELSE NoInsight

ConsumeFor(buffer, turn) ==
    LET insight == ApplicableFor(buffer, turn)
    IN IF insight = NoInsight THEN buffer
       ELSE [buffer EXCEPT !.consumed = insight.turn]

Matches(insight, turn) == WellFormed(insight) /\ insight.turn = turn

---------------------------------------------------------------------------
(* The call.                                                                *)

\* What the providers make of one utterance.  A turn with a priority outcome
\* (do not call, not interested) reaches no listening provider; an utterance
\* that is not addressed to the agent is not understood.
Turns ==
    [priority : BOOLEAN, understood : BOOLEAN, language : Languages,
     speaker : EvidenceKinds \cup {"unavailable"}, role : Roles,
     stated : SUBSET StatedSlots, pain : BOOLEAN,
     solution : {"absent", "unrated", "rated"},
     inferred : SUBSET InferredSlots,
     facts : SUBSET FactKinds, problems : SUBSET ProblemKinds,
     unknown : SUBSET UnknownAreas, corrections : SUBSET FactKinds,
     qualified : Observations(Campaign), amended : SUBSET Campaign.fields,
     intent : Intents \cup {"unreadable"}, concept : Concepts]

\* What an utterance says and lets one infer of the person: an observation is
\* one or the other.
EvidenceIn(u, turn) ==
    [source |-> turn, stated |-> u.stated, pain |-> u.pain,
     solution |-> u.solution, inferred |-> u.inferred]

ASSUME UtteranceAssumption ==
    /\ Utterances \subseteq Turns
    /\ \A u \in Utterances : EvidenceIn(u, 1) \in Evidence
                                 /\ u.stated \cap u.inferred = {}

VARIABLES
    live,       \* the processor's memory
    saved,      \* the payloads of the last committed snapshot
    seq,        \* committed turns
    open,       \* the turn that is processed and not yet committed
    analyses,   \* turns the supervisor is analysing
    failures,
    restarts,
    used,       \* history: the turns whose insights were used, in order
    discarded   \* history: a reference was minted and not installed

vars == <<live, saved, seq, open, analyses, failures, restarts, used,
          discarded>>

bounds == <<failures, restarts>>

People == [who : References, heard : SUBSET Concepts, language : Languages]

Pictures == [id : Nat, intel : Intelligence]

Memories ==
    [active : References, archived : Seq(People), pictures : Seq(Pictures),
     intel : Intelligence, language : Languages,
     coverage : SUBSET CoverageEntries(Concepts), minted : Nat,
     decision : ContinuityStates, business : Businesses,
     qual : Snapshots(Campaign) \cup {NotQualified},
     buffer : Buffers(InferredSlots), normalTurn : Nat]

NewCall ==
    [active |-> NoOne, archived |-> <<>>, pictures |-> <<>>,
     intel |-> NothingKnown, language |-> Unheard, coverage |-> {},
     minted |-> 0, decision |-> "unknown", business |-> NoBusiness,
     qual |-> NotQualified, buffer |-> EmptyBuffer, normalTurn |-> 0]

NoTurn == [turn |-> 0, coverage |-> {}]

NothingTold == [who |-> 0, concept |-> NoConcept, strategy |-> "none"]

-----------------------------------------------------------------------------
(* One turn, in the order of process_turn. *)

\* The advice on earlier turns is used first.
Advised(m, turn) ==
    LET insight == ApplicableFor(m.buffer, turn)
    IN [m EXCEPT
          !.buffer = ConsumeFor(m.buffer, turn),
          !.intel  = IF insight.infers = {} THEN @
                     ELSE Update(@, [source |-> insight.turn, stated |-> {},
                                     pain |-> FALSE, solution |-> "absent",
                                     inferred |-> insight.infers])]

Heard(m, u) == IF u.understood /\ u.language # Unheard
               THEN [m EXCEPT !.language = u.language] ELSE m

\* Taking over: the retiring person is archived with what he heard and the
\* picture of him; the new one starts without a picture and a language.

Retired(m) ==
    [who |-> m.active, heard |-> HeardBy(m.coverage, m.active.id),
     language |-> [m.language EXCEPT !.preferred = "none"]]

TakenOverWith(m, who, intel) ==
    LET leaves == m.active # NoOne
    IN [m EXCEPT
          !.active   = who,
          !.archived = IF leaves THEN Append(@, Retired(m)) ELSE @,
          !.pictures = IF leaves
                       THEN Append(@, [id |-> m.active.id, intel |-> m.intel])
                       ELSE @,
          !.intel    = intel,
          !.language = Unheard]

\* Mutant: the picture of the previous person stays.
TakenOverWithPicture(m, who) == TakenOverWith(m, who, m.intel)

TakenOver(m, who) == TakenOverWith(m, who, NothingKnown)

SpeakerDecision(m, u) == Decide(m.active, u.speaker, u.role, m.minted)

ApplyDecision(m, d) ==
    LET decided == [m EXCEPT !.decision = d.state, !.minted = d.minted]
    IN CASE d.state = "new_confirmed" -> TakenOver(decided, d.who)
         [] d.state = "same_confirmed" -> [decided EXCEPT !.active = d.who]
         [] OTHER -> decided

Speaking(m, u) == IF u.speaker = "unavailable" THEN m
                  ELSE ApplyDecision(m, SpeakerDecision(m, u))

\* The policy's decision object refuses a reference that is already active.
Refused(m, u) == u.speaker # "unavailable" /\ SpeakerDecision(m, u).refused

Learned(m, u, turn) ==
    LET Of(kinds) == [i \in 1..Cardinality(kinds) |->
                         [kind |-> InOrder(kinds)[i], source |-> turn]]
        says == u.stated # {} \/ u.pain \/ u.solution # "absent"
                    \/ u.inferred # {}
        news == u.facts \cup u.problems \cup u.unknown \cup u.corrections
    IN [m EXCEPT
          !.business = IF news = {} THEN @
                       ELSE UpdateBusiness(@, Of(u.facts), Of(u.problems),
                                           u.unknown, u.corrections),
          !.intel    = IF ~says \/ ~u.understood THEN @
                       ELSE Update(@, EvidenceIn(u, turn))]

Qualified(m, u) ==
    [m EXCEPT !.qual = IF u.qualified = NothingObserved(Campaign) THEN @
                       ELSE UpdateQualification(Campaign, @, u.qualified,
                                                u.amended)]

\* How the turn's concept is put to the person who speaks.
Explanation(m, u) ==
    LET intent == ClassifiedIntent(u.intent)
    IN IF m.active = NoOne \/ intent = "catalog" \/ u.concept = NoConcept
       THEN NothingTold
       ELSE [who |-> m.active.id, concept |-> u.concept,
             strategy |-> ReExplanation(m.decision, m.active.id, u.concept,
                                        m.coverage, intent)]

\* The explanation is recorded whatever the plan and the outcome say.
Delivered(m, t, turn) ==
    IF t = NothingTold \/ DeliveredDepth[t.strategy] = "none" THEN {}
    ELSE {[who |-> t.who, concept |-> t.concept,
           depth |-> DeliveredDepth[t.strategy], source |-> turn]}

Listened(m, u, turn) ==
    IF u.priority THEN m
    ELSE Qualified(Learned(Speaking(Heard(Advised(m, turn), u), u), u, turn), u)

\* Strategy and supervisor input exist for a turn without a priority outcome.
Completed(m, u, turn) ==
    IF u.priority THEN m ELSE [m EXCEPT !.normalTurn = turn]

-----------------------------------------------------------------------------

Init ==
    /\ live = NewCall
    /\ saved = [k \in {} |-> {}]
    /\ seq = 0
    /\ open = NoTurn
    /\ analyses = {}
    /\ failures = 0
    /\ restarts = 0
    /\ used = <<>>
    /\ discarded = FALSE

UsesInsight(u, turn) ==
    used' = IF u.priority \/ ApplicableFor(live.buffer, turn) = NoInsight
            THEN used
            ELSE Append(used, ApplicableFor(live.buffer, turn).turn)

MintsInVain(m, u) ==
    /\ ~u.priority
    /\ u.speaker # "unavailable"
    /\ LET d == SpeakerDecision(m, u)
       IN d.minted # m.minted
              /\ d.state \notin {"new_confirmed", "same_confirmed"}

\* process_turn returns; the runtime exports the snapshot and begins to
\* commit.
Turn(u) ==
    LET turn == seq + 1
        m == Listened(live, u, turn)
        t == Explanation(m, u)
        coverage == m.coverage \cup Delivered(m, t, turn)
    IN /\ open = NoTurn
       /\ turn <= MaxTurns
       /\ u.priority \/ ~Refused(live, u)
       /\ Cardinality(coverage) <= MaxCoverage
       /\ live' = Completed([m EXCEPT !.coverage = coverage], u, turn)
       /\ open' = [turn |-> turn, coverage |-> live.coverage]
       /\ UsesInsight(u, turn)
       /\ discarded' = (discarded \/ MintsInVain(live, u))
       /\ UNCHANGED <<saved, seq, analyses, bounds>>

\* process_turn raises on a refused reference: the advice and the language
\* are in, the rest of the turn is not, and nothing puts anything back.
TurnRefused(u) ==
    LET turn == seq + 1
    IN /\ open = NoTurn
       /\ turn <= MaxTurns
       /\ ~u.priority
       /\ Refused(live, u)
       /\ live' = [Heard(Advised(live, turn), u)
                      EXCEPT !.minted = SpeakerDecision(live, u).minted]
       /\ UsesInsight(u, turn)
       /\ UNCHANGED <<saved, seq, open, analyses, bounds,  discarded>>

\* It raises on a full coverage with the whole turn in memory.
TurnOverflows(u) ==
    LET turn == seq + 1
        m == Listened(live, u, turn)
        t == Explanation(m, u)
    IN /\ open = NoTurn
       /\ turn <= MaxTurns
       /\ u.priority \/ ~Refused(live, u)
       /\ Cardinality(m.coverage \cup Delivered(m, t, turn)) > MaxCoverage
       /\ live' = Completed(m, u, turn)
       /\ UsesInsight(u, turn)
       /\ discarded' = (discarded \/ MintsInVain(live, u))
       /\ UNCHANGED <<saved, seq, open, analyses, bounds>>

-----------------------------------------------------------------------------
(* The snapshot: one payload per part that has something to say. *)

PayloadKeys(m) ==
    {"business", "prospect"}
        \cup (IF m.language # Unheard THEN {"language"} ELSE {})
        \cup (IF m.qual # NotQualified THEN {"qualification"} ELSE {})
        \cup (IF m.active # NoOne \/ m.archived # <<>>
              THEN {"participants"} ELSE {})
        \cup (IF m.pictures # <<>> THEN {"archive"} ELSE {})
        \cup (IF m.coverage # {} THEN {"coverage"} ELSE {})

\* Mutant: only the picture of the last person who left is written.
ArchivePayloadOfLast(pictures) ==
    <<[id |-> pictures[Len(pictures)].id,
       intel |-> ProspectPayload(pictures[Len(pictures)].intel)]>>

ArchivePayload(pictures) ==
    [i \in DOMAIN pictures |->
        [id |-> pictures[i].id, intel |-> ProspectPayload(pictures[i].intel)]]

Payload(m, k) ==
    CASE k = "business" -> m.business
      [] k = "prospect" -> ProspectPayload(m.intel)
      [] k = "language" -> LanguagePayload(m.language)
      [] k = "qualification" -> m.qual
      [] k = "participants" -> [active |-> m.active, archived |-> m.archived]
      [] k = "archive" -> ArchivePayload(m.pictures)
      [] k = "coverage" -> m.coverage

Export(m) == [k \in PayloadKeys(m) |-> Payload(m, k)]

\* Mutant: the factory does not count the person on the line.
LastReferenceShort(archived, active) == Len(archived)

\* The factory goes on after the people it finds.
LastReference(archived, active) ==
    Len(archived) + (IF active = NoOne THEN 0 ELSE 1)

\* A new processor takes what is there.
Recalled(snap) ==
    LET Has(k) == k \in DOMAIN snap
        active == IF Has("participants") THEN snap["participants"].active
                  ELSE NoOne
        archived == IF Has("participants") THEN snap["participants"].archived
                    ELSE <<>>
    IN [NewCall EXCEPT
          !.business = IF Has("business") THEN snap["business"] ELSE @,
          !.intel    = IF Has("prospect") THEN ProspectFrom(snap["prospect"])
                       ELSE @,
          !.language = IF Has("language") THEN snap["language"] ELSE @,
          !.qual     = IF Has("qualification") THEN snap["qualification"]
                       ELSE @,
          !.active   = active,
          !.archived = archived,
          !.pictures = IF ~Has("archive") THEN <<>>
                       ELSE [i \in DOMAIN snap["archive"] |->
                               [id |-> snap["archive"][i].id,
                                intel |->
                                    ProspectFrom(snap["archive"][i].intel)]],
          !.coverage = IF Has("coverage") THEN snap["coverage"] ELSE @,
          !.minted   = LastReference(archived, active)]

Commit ==
    /\ open # NoTurn
    /\ saved' = Export(live)
    /\ seq' = open.turn
    /\ open' = NoTurn
    /\ UNCHANGED <<live, analyses, bounds,  used, discarded>>

\* Mutant: a failed commit leaves the coverage of its turn.
AfterFailureKept(m, o) == m

\* A commit that fails puts the coverage back, and nothing else.
AfterFailure(m, o) == [m EXCEPT !.coverage = o.coverage]

CommitFails ==
    /\ open # NoTurn
    /\ failures < MaxFailures
    /\ live' = AfterFailure(live, open)
    /\ open' = NoTurn
    /\ failures' = failures + 1
    /\ UNCHANGED <<saved, seq, analyses, restarts,  used, discarded>>

\* The process dies, with or without a turn open; the next one restores the
\* call.
Restart ==
    /\ restarts < MaxRestarts
    /\ live' = Recalled(saved)
    /\ open' = NoTurn
    /\ analyses' = {}
    /\ restarts' = restarts + 1
    /\ UNCHANGED <<saved, seq, failures,  used, discarded>>

-----------------------------------------------------------------------------
(* The supervisor, outside the turns. *)

\* The input is built for the latest normal turn, before the next begins.
BeginAnalysis ==
    /\ open = NoTurn
    /\ live.normalTurn # 0
    /\ live.normalTurn \notin analyses
    /\ analyses' = analyses \cup {live.normalTurn}
    /\ UNCHANGED <<live, saved, seq, open, bounds,  used, discarded>>

\* An answer arrives at any time after, out of order, more than once or never.
RecordAnalysis(turn, slots) ==
    LET insight == [turn |-> turn, infers |-> slots, hints |-> TRUE]
    IN /\ turn \in analyses
       /\ Matches(insight, turn)
       /\ live' = [live EXCEPT !.buffer = RecordInsight(@, insight, TRUE)]
       /\ UNCHANGED <<saved, seq, open, analyses, bounds,  used,
                      discarded>>

Next ==
    \/ \E u \in Utterances : Turn(u) \/ TurnRefused(u) \/ TurnOverflows(u)
    \/ Commit
    \/ CommitFails
    \/ Restart
    \/ BeginAnalysis
    \/ \E turn \in 1..MaxTurns, slots \in Analyses : RecordAnalysis(turn, slots)

Spec == Init /\ [][Next]_vars

-----------------------------------------------------------------------------
(* Properties. *)

\* The pictures of the people of the call, in the order they spoke.
Portraits == Append([i \in DOMAIN live.pictures |-> live.pictures[i].intel],
                    live.intel)

\* In the order in which people took over, the statements of a later one are no
\* older than those of an earlier one.
WordsInOrder ==
    \A i, j \in DOMAIN Portraits :
        i < j => \A a \in StatedIn(Portraits[i]), b \in StatedIn(Portraits[j]) :
                     a <= b

\* No inference stands beside a stated fact that answers it.
StatedOverInferred ==
    \A i \in DOMAIN Portraits :
        \A s \in Shadowed(Portraits[i].observed) : Portraits[i].inferred[s] = 0

\* One value of each business fact stands, no older than one that was archived.
LatestFactStands ==
    LET facts == live.business.facts
        archive == live.business.archivedFacts
    IN /\ \A i, j \in DOMAIN facts : facts[i].kind = facts[j].kind => i = j
       /\ \A i \in DOMAIN facts, j \in DOMAIN archive :
              facts[i].kind = archive[j].kind =>
                  archive[j].source <= facts[i].source

\* What the call believes are the words of those it ascribes them to, across
\* handoffs, late advice, failed commits and restarts: nobody is credited with
\* what an earlier speaker said, no guess of a turn or of the supervisor stands
\* over what was said, and the last statement about the business stands
\* (production_turn_processor.py:642-656, prospect_intelligence/engine.py,
\* business_conversation/engine.py).
OwnWords == WordsInOrder /\ StatedOverInferred /\ LatestFactStands

\* A restart right now would give back all that the call knows, except the
\* preferred language, the last decision on who speaks and the advice, and what
\* it gives back is a memory that the next turn can work with.
RestartForgetsNothing ==
    LET back == Recalled(Export(live))
        Same(m) == [m EXCEPT !.minted = 0, !.decision = "unknown",
                             !.buffer = EmptyBuffer, !.normalTurn = 0,
                             !.language = LanguagePayload(@)]
    IN back \in Memories /\ Same(back) = Same(live)

\* Two people of a call never share a reference, no handoff fails because its
\* new reference is taken, and what is filed as heard by somebody who left is
\* what the coverage says that reference heard, also after later explanations
\* to others - unless a reference was minted for somebody who was then not
\* installed.
NoOneTwice ==
    LET Refs == Append([i \in DOMAIN live.archived |-> live.archived[i].who.id],
                       live.active.id)
    IN ~discarded =>
           /\ \A i, j \in DOMAIN Refs :
                  Refs[i] = Refs[j] /\ Refs[i] # 0 => i = j
           /\ \A u \in Utterances : ~Refused(live, u)
           /\ \A i \in DOMAIN live.archived :
                  live.archived[i].heard =
                      HeardBy(live.coverage, live.archived[i].who.id)

\* A turn explains one concept once: a turn whose commit failed and that is
\* tried again does not count both explanations.
OneExplanationPerTurn ==
    \A e1, e2 \in live.coverage : e1.source = e2.source => e1 = e2

\* Advice is used in the order of the turns it is about and at most once,
\* however late and however often the answers arrive.
InsightsInOrder ==
    \A i, j \in DOMAIN used : i < j => used[i] < used[j]

=============================================================================
