------------------------------- MODULE Insight -------------------------------
(* What ProductionTurnProcessor makes of the business it hears of: every turn *)
(* on the normal path files the evidence, diagnoses, steers, projects the     *)
(* mental model and consults the playbooks, in this order.  A turn that       *)
(* trusted facts decide files nothing and drops the advice of the one before. *)
EXTENDS Steering

-----------------------------------------------------------------------------
(* SalesPlaybookIntelligenceEngine.evaluate: the one opportunity the          *)
(* structured playbooks advise, what to ask about it and how far the talk is. *)
(* Services are numbers, in the order of their ids.                           *)

MaxFuture == 3

DiscoveryTopics ==
    {"current_website", "google_presence", "online_orders", "customer_journey",
     "current_workflow", "business_impact", "current_software",
     "provider_satisfaction", "business_goal", "objection_reason"}

NoFit == [service |-> None, matched |-> {}, readiness |-> "no_fit",
          step |-> "graceful_end", primary |-> None, secondary |-> None,
          objection |-> None, future |-> <<>>, existing |-> FALSE]

Matched(playbook, context) == playbook.solves \cap context.situations

IsCandidate(playbook, input) ==
    /\ playbook.service \in input.eligible
    /\ playbook.industries = {} \/ input.context.industry \in playbook.industries
    /\ Matched(playbook, input.context) # {}

Score(playbook, context) ==
    Cardinality(Matched(playbook, context)) * 100
    + Cardinality(playbook.qualifying \cap context.qualifying) * 10
    + Cardinality(playbook.buying \cap context.buying) * 5

\* The best score first, then the playbook's priority, then the id.
Order(p, context) == <<-Score(p, context), p.priority, p.service>>

RankedPlaybooks(input) ==
    LET found == SetToSeq({p \in input.playbooks : IsCandidate(p, input)})
    IN  Sorted(found, [i \in DOMAIN found |-> Order(found[i], input.context)])

\* dict.fromkeys(s): every item where it first stands.
Distinct(s) == Only(s, {i \in DOMAIN s : \A j \in 1..(i - 1) : s[j] # s[i]})

\* What is not known yet.
Missing(topics, known) ==
    Only(topics, {i \in DOMAIN topics : topics[i] \notin known})

\* The topics to ask about: whether they are happy with their provider, known
\* or not, when they have one, and what is not known yet.
Topics(playbook, input) ==
    Distinct((IF input.prospect.objection = "already_have_provider"
              THEN <<"provider_satisfaction">> ELSE <<>>)
             \o Missing(playbook.topics, input.context.known))

PrimaryQuestion(playbook, input) ==
    IF input.prospect.busy \/ Topics(playbook, input) = <<>> THEN None
    ELSE Topics(playbook, input)[1]

SecondaryQuestion(playbook, input) ==
    IF \/ input.prospect.busy \/ ~input.context.ambiguous
       \/ Len(Topics(playbook, input)) < 2
    THEN None ELSE Topics(playbook, input)[2]

Objection(input) ==
    IF input.prospect.objection \in {None, "none"} THEN None
    ELSE input.prospect.objection

\* The way an objection is answered: the playbook's, else by its kind.
ObjectionAnswer(playbook, objection) ==
    IF objection = None THEN None
    ELSE IF objection \in playbook.answers THEN "configured"
    ELSE IF objection = "already_have_provider" THEN "satisfaction"
    ELSE IF objection \in {"no_time", "bad_timing"} THEN "timing"
    ELSE IF objection = "price" THEN "budget" ELSE "concern"

\* Mutant: who signals buying is asked to commit, whatever is left to say.
ReadinessEager(playbook, input) ==
    IF playbook.buying \cap input.context.buying # {}
    THEN <<"ready_for_micro_commitment", "micro_commitment">>
    ELSE <<"discovery_required", "understand">>

PitchReadiness(playbook, input) ==
    IF input.prospect.busy THEN <<"discovery_required", "clarify">>
    ELSE IF Objection(input) # None THEN <<"education", "clarify">>
    ELSE IF PrimaryQuestion(playbook, input) # None
    THEN <<"discovery_required", "understand">>
    ELSE IF /\ input.problem.impact
            /\ \/ playbook.buying \cap input.context.buying # {}
               \/ input.interest \in {"strong", "buying_signal"}
    THEN <<"ready_for_micro_commitment", "micro_commitment">>
    ELSE IF input.problem.impact THEN <<"value_discussion", "relate">>
    ELSE IF input.problem.meaningful THEN <<"education", "educate">>
    ELSE <<"discovery_complete", "recommend">>

\* A service that may be offered later: not one they have, heard of or are
\* advised now.
IsOpen(service, playbook, input) ==
    /\ service \in input.eligible
    /\ service \notin input.discussed
    /\ service \notin input.context.existing
    /\ service # playbook.service

\* What may come later: the other candidates, then the playbook's own list.
Future(playbook, input, candidates) ==
    LET others == [i \in 1..(Len(candidates) - 1) |-> candidates[i + 1].service]
        possible == Distinct(others \o playbook.future)
        open == Only(possible, {i \in DOMAIN possible :
                                   IsOpen(possible[i], playbook, input)})
    IN  IF Len(open) <= MaxFuture THEN open ELSE SubSeq(open, 1, MaxFuture)

Evaluate(input) ==
    LET candidates == RankedPlaybooks(input)
        best == candidates[1]
        readiness == PitchReadiness(best, input)
    IN  IF input.context.noFit \/ input.prospect.interested = FALSE
           \/ candidates = <<>>
        THEN NoFit
        ELSE [service |-> best.service, matched |-> Matched(best, input.context),
              readiness |-> readiness[1], step |-> readiness[2],
              primary |-> PrimaryQuestion(best, input),
              secondary |-> SecondaryQuestion(best, input),
              objection |-> ObjectionAnswer(best, Objection(input)),
              future |-> Future(best, input, candidates),
              existing |-> best.service \in input.context.existing]

-----------------------------------------------------------------------------
(* The turns of a call.                                                       *)

CONSTANTS
    Values,      \* what may be observed of a kind
    Evidence,    \* what a turn may say of the business
    Attitudes,   \* how the prospect may take a turn, and what is known of them
    Playbooks,   \* the structured playbooks
    Eligible,    \* the services they may advise
    Known(_),    \* the playbook context a business is described by
    MaxTurns     \* bound on the turns of a call

VARIABLES
    turn,       \* turns so far
    business,   \* BusinessConversationSnapshot
    steering,   \* the steering of the last turn, None if it had none
    model,      \* BusinessMentalModelSnapshot
    guidance,   \* the playbook guidance of the last turn, None if it had none
    attitude,   \* how the prospect took the last turn, None if facts decided it
    shown,      \* the services the context of the last turn showed as offered
    offered,    \* services offered so far
    asked       \* priorities asked about since steering was last lost, in order

\* What BusinessConversationEvidence and ServicePlaybook check of themselves.
EvidenceAssumption ==
    Evidence \subseteq
        [facts : Seq([kind : FactKinds, value : Values]),
         problems : Seq([kind : ProblemKinds, value : Values]),
         unknown : SUBSET UnknownAreas,
         corrections : SUBSET (FactKinds \cup ProblemKinds)]

PlaybooksAssumption ==
    /\ IsFiniteSet(Playbooks)
    /\ \A p \in Playbooks :
          p.topics \in Seq(DiscoveryTopics) /\ p.future \in Seq(Nat)

\* A prospect is qualified by finitely many fields.
AttitudesAssumption ==
    \A a \in Attitudes : IsFiniteSet(DOMAIN a.qualification)

\* None is not a snapshot of the steering.
NoneAssumption == None \notin Steerings

ASSUME EvidenceAssumption
ASSUME PlaybooksAssumption
ASSUME AttitudesAssumption
ASSUME NoneAssumption

vars == <<turn, business, steering, model, guidance, attitude, shown, offered,
          asked>>

Init ==
    /\ turn = 0
    /\ business = NoBusiness
    /\ steering = None
    /\ model = NoModel
    /\ guidance = None
    /\ attitude = None
    /\ shown = {}
    /\ offered = {}
    /\ asked = <<>>

\* An evidence speaks of the turn it was given in.
Dated(findings, n) ==
    [i \in DOMAIN findings |-> [kind |-> findings[i].kind,
                                value |-> findings[i].value, source |-> n]]

\* What the turn says is the latest.
Filed(evidence) ==
    UpdateBusiness(business, Dated(evidence.facts, turn + 1),
                   Dated(evidence.problems, turn + 1), evidence.unknown,
                   evidence.corrections)

\* The prospect's own problem is another thing than the problems of the
\* business; what was offered is what the context of the turn shows.
PlaybookInput(heard, mood) ==
    [context |-> Known(heard), playbooks |-> Playbooks, eligible |-> Eligible,
     prospect |-> mood.prospect, interest |-> mood.interest,
     problem |-> mood.problem, discussed |-> offered]

\* A turn on the normal path.  Its context is built, then the Brain's offer of
\* a service - None, if it offers none - is executed, then the advice is given:
\* what this turn offered is not among what its context shows.
NormalTurn(evidence, mood, offer) ==
    LET heard == Filed(evidence)
        steered == Steer(heard, mood.mode, steering)
    IN  /\ turn < MaxTurns
        /\ turn' = turn + 1
        /\ business' = heard
        /\ steering' = steered
        /\ model' = Project(heard, mood.role, mood.qualification, model)
        /\ offered' = offered \cup ({offer} \ {None})
        /\ guidance' = Evaluate(PlaybookInput(heard, mood))
        /\ attitude' = mood
        /\ shown' = offered
        /\ asked' = IF steered.decision = "ask_one"
                    THEN Append(asked, steered.priority) ELSE asked

\* A turn decided by a trusted fact: an opt-out, a callback, a hang-up...
DecidedTurn ==
    /\ turn < MaxTurns
    /\ turn' = turn + 1
    /\ steering' = None
    /\ guidance' = None
    /\ attitude' = None
    /\ shown' = offered
    /\ asked' = <<>>
    /\ UNCHANGED <<business, model, offered>>

Next ==
    \/ \E e \in Evidence, a \in Attitudes, o \in Eligible \cup {None} :
          NormalTurn(e, a, o)
    \/ DecidedTurn

Spec == Init /\ [][Next]_vars

---------------------------------------------------------------------------
(* What must hold.                                                          *)

\* While nothing the prospect said was ever taken back, no priority is asked
\* about twice, although the focus of the diagnosis moves and steering marks a
\* priority as explored only when the next turn has it still
\* (conversation_steering/engine.py:1, 35-43).
AskedOnce ==
    (business.archivedFacts = <<>> /\ business.archivedProblems = <<>>)
        => IsInjective(asked)

\* The mental model says of the business what the conversation says of it now,
\* said in the same turn, and what it ever said is there or in the archive,
\* unless that is full; no two of its nodes share a key and nothing hangs on a
\* node that is gone (business_memory/engine.py:90-119).
ModelIsCurrent ==
    LET said(name, findings) ==
            {<<<<name, f.kind>>, f.value>> : f \in Range(findings)}
        now == {<<n.key, n.value>> : n \in model.nodes}
        keys == {n.key : n \in model.nodes}
        past == {<<n.key, n.value>> : n \in Range(model.archived)}
    IN  /\ Cardinality(keys) = Cardinality(model.nodes)
        /\ model.nodes # {} => model.edges = keys \ {Root.key}
        /\ Len(model.archived) <= Limit /\ Len(model.pastEdges) <= Limit
        /\ said("fact", business.facts) \cup said("problem", business.problems)
               = {n \in now : n[1][1] \in {"fact", "problem"}}
        /\ Len(model.archived) < Limit =>
               said("fact", business.archivedFacts)
               \cup said("problem", business.archivedProblems)
                   \subseteq past \cup now

\* The advice fits what was heard: its service solves a situation the business
\* is in; a commitment is only asked of who said what the problem costs, has
\* no question or objection left and is not in a hurry; and what comes later
\* was neither bought nor offered in an earlier turn.  A service offered in the
\* very turn may be among it (sales_playbook/engine.py:126-161, 203-221).
AdviceFits ==
    guidance # None =>
        LET context == Known(business)
        IN  /\ Range(guidance.future) \cap
                   (shown \cup context.existing \cup {guidance.service}) = {}
            /\ guidance.service # None =>
                   \E p \in Playbooks : /\ p.service = guidance.service
                                        /\ p.solves \cap context.situations # {}
            /\ guidance.readiness = "ready_for_micro_commitment" =>
                   /\ attitude.problem.impact /\ ~attitude.prospect.busy
                   /\ attitude.prospect.objection \in {None, "none"}
                   /\ guidance.primary = None
            /\ guidance.primary # None =>
                   guidance.primary \notin context.known
                       \/ guidance.primary = "provider_satisfaction"
=============================================================================
