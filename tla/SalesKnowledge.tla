--------------------------- MODULE SalesKnowledge ---------------------------
(* SalesKnowledgeIntelligenceEngine.design: how much of the approved evidence *)
(* to teach in a turn, in which order and how deep, to this prospect.         *)
EXTENDS Python, Integers, Sequences, SequencesExt, FiniteSets

Technical == {"software", "integration"}
Keen == {"strong", "buying_signal"}
Distrust == {"building", "unknown"}
Specialist == {"technical_manager", "operations_manager"}
Junior == {"receptionist", "gatekeeper", "staff", "assistant"}

\* What the prospect said of their role, else what was guessed.
Role(prospect) ==
    IF prospect.explicit # None THEN prospect.explicit
    ELSE IF prospect.likely # None THEN prospect.likely ELSE "unknown"

Depth(input) ==
    CASE input.guidance.depth = "short" -> "simple"
      [] input.guidance.depth # "short" ->
           IF input.facts \cap Technical # {} /\ input.guidance.depth = "detailed"
           THEN "detailed"
           ELSE IF input.formal THEN "normal"
           ELSE IF Role(input.prospect) \in Specialist THEN "detailed"
           ELSE IF Role(input.prospect) \in Junior THEN "simple"
           ELSE IF input.guidance.depth = "detailed" THEN "detailed"
           ELSE "normal"

\* A comparison is never intended: who asks for a solution is answered.
Intent(input) ==
    IF input.problem.requested THEN "answer_question"
    ELSE IF input.playbook # None /\ (input.playbook # None =>
                                        input.playbook.step = "educate")
    THEN "educate"
    ELSE IF input.problem.category = "unknown" /\ ~input.problem.meaningful
    THEN "build_awareness"
    ELSE IF input.guidance.interest \in Keen THEN "illustrate_benefit"
    ELSE IF input.guidance.interest = "none" THEN "build_awareness"
    ELSE "educate"

GroupRank == [benefit |-> 0, feature |-> 1, faq |-> 2, process |-> 3,
              case_study |-> 4, implementation |-> 5, limitation |-> 6,
              commercial_policy |-> 7, compliance |-> 8]

QualityRank == [direct |-> 0, supported |-> 1, limited |-> 2]

GroupsOfTopic ==
    [website |-> {"feature", "benefit", "faq", "process"},
     crm |-> {"feature", "benefit", "implementation"},
     operations |-> {"process", "implementation", "case_study"},
     marketing |-> {"benefit", "case_study", "feature"},
     sales |-> {"benefit", "case_study", "feature"},
     reporting |-> {"feature", "process", "implementation"}]

TopicFocus(topic) ==
    IF topic = None \/ (topic # None => topic \notin DOMAIN GroupsOfTopic)
    THEN DOMAIN GroupRank ELSE GroupsOfTopic[topic]

\* On the topic first, then by group and quality (and then by a hash).
RankedForTopic(input) ==
    LET penalty(e) == GroupRank[e.group] +
                      (IF e.group \in TopicFocus(input.topic) THEN 0 ELSE 10)
    IN  Sorted(input.evidence, [i \in DOMAIN input.evidence |->
                   <<penalty(input.evidence[i]),
                     QualityRank[input.evidence[i].quality]>>])

\* Commercial terms wait for trust, cases for interest, and both terms and
\* implementation for the discovery to be over.
IsPremature(e, input) ==
    \/ e.group = "commercial_policy" /\ input.guidance.trust \in Distrust
    \/ e.group = "case_study" /\ input.guidance.interest \in {"none", "unknown"}
    \/ /\ input.playbook # None
       /\ input.playbook # None =>
              input.playbook.readiness = "discovery_required"
       /\ e.group \in {"implementation", "commercial_policy"}

IsWrongDepth(e, input) ==
    /\ input.guidance.depth = "short"
    /\ e.group \in {"implementation", "compliance", "case_study"}

Disclosure(input) ==
    IF input.guidance.depth = "short" THEN "minimal"
    ELSE IF input.guidance.interest \in Keen THEN "full"
    ELSE IF input.guidance.interest \in {"none", "unknown", "weak"}
    THEN "minimal" ELSE "moderate"

MostTaught(level) ==
    CASE level = "minimal" -> 1 [] level = "moderate" -> 2 [] level = "full" -> 4

\* None is no reason.
ASSUME SuppressionAssumption ==
    None \notin {"already_discussed", "off_topic", "premature", "wrong_depth",
                 "overload"}

\* Why an item is not taught, None if it is, given how many already are.
Suppression(e, input, taken) ==
    IF e.id \in input.told THEN "already_discussed"
    ELSE IF e.group \notin TopicFocus(input.topic) THEN "off_topic"
    ELSE IF IsPremature(e, input) THEN "premature"
    ELSE IF IsWrongDepth(e, input) THEN "wrong_depth"
    ELSE IF taken >= MostTaught(Disclosure(input)) THEN "overload"
    ELSE None

\* What is ranked, split by the places that are taught; taught[n] are those
\* of the first n.
SplitBy(ranked, input, taught) ==
    LET all == Len(ranked)
    IN  [selected |-> Only(ranked, taught[all]),
         suppressed |->
            Only([i \in 1..all |->
                    [item |-> ranked[i],
                     reason |-> Suppression(ranked[i], input,
                                            Cardinality(taught[i - 1]))]],
                 (1..all) \ taught[all])]

\* Mutant: what was told before is told again.
SplitRepeats(input) ==
    LET ranked == RankedForTopic(input)
        anew == [input EXCEPT !.told = {}]
        taught[n \in 0..Len(ranked)] ==
            IF n = 0 THEN {}
            ELSE IF Suppression(ranked[n], anew, Cardinality(taught[n - 1])) = None
            THEN taught[n - 1] \cup {n} ELSE taught[n - 1]
    IN  SplitBy(ranked, anew, taught)

Split(input) ==
    LET ranked == RankedForTopic(input)
        taught[n \in 0..Len(ranked)] ==
            IF n = 0 THEN {}
            ELSE IF Suppression(ranked[n], input, Cardinality(taught[n - 1])) = None
            THEN taught[n - 1] \cup {n} ELSE taught[n - 1]
    IN  SplitBy(ranked, input, taught)

\* What may be offered for later.
Deferred(suppressed) ==
    SelectSeq(suppressed, LAMBDA x : x.reason \in {"overload", "premature"})

FollowUp(input, suppressed) ==
    IF Deferred(suppressed) = <<>> THEN "none"
    ELSE IF input.guidance.interest \in Keen THEN "offer_next_topic"
    ELSE IF input.guidance.trust \in Distrust THEN "ask_permission"
    ELSE "curiosity_hook"

\* The groups most of it is of: which of them is hinted at is left to chance.
DeferredHints(suppressed) ==
    LET deferred == Deferred(suppressed)
        count(g) == Cardinality({i \in DOMAIN deferred : deferred[i].item.group = g})
        groups == {x.item.group : x \in Range(deferred)}
    IN  {g \in groups : \A h \in groups : count(h) <= count(g)}

ValueOfProblem ==
    [lead_flow |-> "revenue", follow_up |-> "operational_efficiency",
     customer_questions |-> "customer_experience",
     workflow |-> "operational_efficiency", website |-> "visibility",
     visibility |-> "visibility", branding |-> "trust_building",
     other |-> "none", unknown |-> "none"]

ValueOfGoal ==
    [increase_sales |-> "revenue", reduce_time |-> "time_savings",
     reduce_cost |-> "cost_savings", grow_business |-> "growth",
     scale_operations |-> "operational_efficiency",
     improve_customer_experience |-> "customer_experience",
     generate_leads |-> "revenue", visibility |-> "visibility",
     efficiency |-> "operational_efficiency"]

\* The value of one of the goals, whichever comes first, else of the problem.
BusinessValues(input) ==
    IF input.goals = {} THEN {ValueOfProblem[input.problem.category]}
    ELSE {IF g \in DOMAIN ValueOfGoal THEN ValueOfGoal[g]
          ELSE ValueOfProblem[input.problem.category] : g \in input.goals}

Analogy(input, depth) ==
    IF depth = "detailed" THEN "none"
    ELSE IF "industry" \in input.facts /\ depth = "simple"
    THEN "industry_example"
    ELSE IF input.problem.process THEN "workflow_parallel"
    ELSE IF depth = "simple" THEN "everyday_comparison" ELSE "none"

Complexity(input, depth) ==
    IF depth = "simple" THEN "simple"
    ELSE IF input.facts \cap Technical # {} /\ depth = "detailed"
    THEN "technical" ELSE "moderate"

Confidence(selected) ==
    LET qualities == {x.quality : x \in Range(selected)}
    IN  IF qualities = {} \/ "limited" \in qualities THEN "minimal"
        ELSE IF qualities = {"direct"} THEN "high" ELSE "medium"

Objective(input, intent) ==
    IF input.guidance.objection \notin {"none", "unknown"}
    THEN "handle_objection"
    ELSE IF intent = "answer_question" THEN "clarify"
    ELSE IF input.guidance.trust \in Distrust THEN "build_trust"
    ELSE IF intent = "illustrate_benefit" THEN "close_gracefully"
    ELSE IF intent = "educate" THEN "educate" ELSE "discover"

Load(input, depth) ==
    IF depth = "simple" THEN "low"
    ELSE IF Role(input.prospect) \in Specialist THEN "high"
    ELSE IF depth = "detailed" /\ input.facts \cap Technical # {} THEN "high"
    ELSE "normal"

Momentum(input) ==
    IF input.pending # None /\ input.pending # input.topic THEN "pivot"
    ELSE IF \/ input.guidance.momentum \in {"declining", "recovering"}
            \/ input.guidance.objection \notin {"none", "unknown"}
    THEN "stay_on_topic" ELSE "continue"

\* Everything approved was told before.
Saturated(input) ==
    /\ input.told # {}
    /\ \A e \in Range(input.evidence) : e.id \in input.told

Design(input) ==
    LET depth == Depth(input)
        intent == Intent(input)
        split == Split(input)
        level == Disclosure(input)
    IN  [selected |-> split.selected, suppressed |-> split.suppressed,
         depth |-> depth, intent |-> intent, analogy |-> Analogy(input, depth),
         values |-> BusinessValues(input),
         complexity |-> Complexity(input, depth),
         confidence |-> Confidence(split.selected),
         level |-> level, most |-> MostTaught(level),
         followUp |-> FollowUp(input, split.suppressed),
         hints |-> DeferredHints(split.suppressed),
         objective |-> Objective(input, intent), load |-> Load(input, depth),
         momentum |-> Momentum(input), saturated |-> Saturated(input)]

-----------------------------------------------------------------------------
(* GroundedResponseComposer.compose: how the evidence selected for a turn is  *)
(* told, item by item.                                                        *)

Tone(teaching, input) ==
    CASE teaching.objective = "handle_objection" -> "reassuring"
      [] teaching.objective = "build_trust" -> "conversational"
      [] teaching.objective = "clarify" -> "direct"
      [] teaching.objective = "close_gracefully" -> "consultative"
      [] OTHER -> IF input.guidance.trust \in Distrust THEN "conversational"
                  ELSE IF teaching.intent = "educate" THEN "educational"
                  ELSE IF input.formal THEN "consultative" ELSE "conversational"

Alignment(teaching, input) ==
    IF teaching.load = "low" THEN "simplify"
    ELSE IF input.formal THEN "elevate"
    ELSE IF \/ input.facts \cap Technical # {} /\ teaching.load = "high"
            \/ input.casual THEN "mirror"
    ELSE "neutral"

Guardrail(teaching, input) ==
    [concepts |-> [low |-> 1, normal |-> 2, high |-> 3][teaching.load],
     noJargon |-> teaching.depth = "simple",
     noListing |-> teaching.depth # "detailed",
     benefit |-> teaching.intent \in {"educate", "illustrate_benefit",
                                      "build_awareness"},
     naturalness |-> IF teaching.saturated THEN "minimal"
                     ELSE IF input.guidance.trust \in Distrust
                     THEN "cautious" ELSE "natural"]

Framing(teaching) ==
    IF teaching.intent = "answer_question" THEN "question_answer"
    ELSE IF teaching.analogy \in {"industry_example", "everyday_comparison"}
    THEN "example"
    ELSE IF teaching.analogy = "workflow_parallel" THEN "story"
    ELSE "direct_statement"

Transition(i, total) ==
    IF i = 1 THEN "none"
    ELSE IF i = 2 THEN "building_on"
    ELSE IF i = total THEN "related_point" ELSE "natural_bridge"

Integration(teaching, i) ==
    CASE teaching.objective = "close_gracefully" -> "leading"
      [] teaching.objective = "handle_objection" -> "closing_hook"
      [] OTHER -> IF i = 1 THEN "embedded"
                  ELSE IF teaching.intent = "build_awareness" THEN "closing_hook"
                  ELSE IF teaching.momentum = "pivot" THEN "leading" ELSE "none"

Compose(teaching, input) ==
    [items |-> [i \in DOMAIN teaching.selected |->
                  [evidence |-> teaching.selected[i],
                   framing |-> Framing(teaching),
                   transition |-> Transition(i, Len(teaching.selected)),
                   integration |-> Integration(teaching, i)]],
     tone |-> Tone(teaching, input), alignment |-> Alignment(teaching, input),
     guardrail |-> Guardrail(teaching, input)]
=============================================================================
