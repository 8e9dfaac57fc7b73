--------------------------- MODULE SalesStrategy ----------------------------
(* ConversationStrategyEngine.recommend: the advisory direction of one turn.  *)
(* What is known of the prospect is a record of observed values, with the     *)
(* inferred ones beside them; None is a value nobody gave.                    *)
EXTENDS Python, Integers, Sequences, SequencesExt

MaxGaps == 3

GapOrder == <<"role", "current_workflow", "pain_point", "current_solution",
              "satisfaction", "decision_authority", "urgency",
              "next_step_preference">>

FirstGaps(gaps) == SubSeq(gaps, 1, IF Len(gaps) < MaxGaps THEN Len(gaps)
                                   ELSE MaxGaps)

\* What was said wins over what was inferred.
Preferring(said, inferred, otherwise) ==
    IF said # None THEN said ELSE IF inferred # None THEN inferred
    ELSE otherwise

Role(about) == Preferring(about.role, about.inferred.role, "unknown")
Authority(about) ==
    Preferring(about.authority, about.inferred.authority, "unknown")
Objection(about) ==
    Preferring(about.objection, about.inferred.objection, "none")

\* A current solution is None, or the satisfaction with it.
HasSolution(in) == in.about.solution # None \/ "solution" \in in.told
SatisfactionKnown(in) ==
    \/ "satisfaction" \in in.satisfied
    \/ in.about.solution \notin {None, "unknown"}

Known(value) == value \notin {None, "unknown"}

Satisfied(in) ==
    in.satisfied \cup
    {gap \in {GapOrder[i] : i \in DOMAIN GapOrder} :
        CASE gap = "role" -> Known(in.about.role)
          [] gap = "pain_point" -> in.about.pain \/ "pain" \in in.told
          [] gap = "current_solution" -> HasSolution(in)
          [] gap = "satisfaction" -> Known(in.about.solution)
          [] gap = "decision_authority" -> Known(in.about.authority)
          [] gap = "urgency" -> in.about.timing # None
          [] gap = "next_step_preference" ->
                Known(in.about.nextStep) \/ in.step # None
          [] OTHER -> FALSE}

RemainingGaps(in) ==
    FirstGaps(Only(GapOrder, {i \in DOMAIN GapOrder :
                                 GapOrder[i] \notin Satisfied(in)}))

SatisfactionFirst(gaps) ==
    FirstGaps(<<"satisfaction">> \o
              Only(gaps, {i \in DOMAIN gaps : gaps[i] # "satisfaction"}))

\* The step a prospect prefers, as the commitment it amounts to.
PreferredCommitment(about) ==
    LET step == Preferring(about.nextStep, about.inferred.nextStep, "unknown")
    IN  IF about.human = TRUE THEN "human_follow_up"
        ELSE CASE step \in {"send_information", "callback", "demo",
                            "human_follow_up"} -> step
               [] step = "email" -> "share_contact"
               [] OTHER -> None

Commitment(in) ==
    IF in.step # None THEN in.step ELSE PreferredCommitment(in.about)

Advice(stage, mode, type, gaps) ==
    [stage |-> stage, mode |-> mode, type |-> type, gaps |-> gaps,
     micro |-> None, resume |-> FALSE]

Normally(stage, type, in) == Advice(stage, "normal", type, RemainingGaps(in))

\* Interested, and nothing left to learn: the next step may be asked for.
AskForNextStep ==
    [Advice("next_step", "normal", "ask_micro_commitment", <<>>) EXCEPT
        !.micro = "answer_one_question"]

DiscoveryAdvice(in, interested) ==
    LET role == Role(in.about)
    IN  IF in.about.pain \/ "pain" \in in.told
        THEN Normally("value_exploration", "explain_value", in)
        ELSE IF interested
        THEN IF RemainingGaps(in) = <<>> THEN AskForNextStep
             ELSE Normally("value_exploration", "explain_value", in)
        ELSE IF \/ role \in {"owner", "decision_maker"}
                \/ Authority(in.about) \in {"high", "final"}
                \/ /\ role \in {"manager", "assistant_manager"}
                   /\ in.hint = "discover_business_impact"
        THEN Normally("discovery", "discover_business_impact", in)
        ELSE IF role = "unknown"
        THEN Normally("qualification", "qualify_need", in)
        ELSE Normally("discovery", "discover_need", in)

\* Mutant: a stage without a direction of its own starts over.
StageAdviceRestarts(in, interested) ==
    IF in.stage \in {"opening", "discovery"} THEN DiscoveryAdvice(in, interested)
    ELSE Normally("discovery", "discover_need", in)

\* The direction the stage gives when nothing the prospect did asks for
\* another one.
StageAdvice(in, interested) ==
    CASE in.stage = "opening" ->
            IF in.greeting
            THEN [Normally("opening", "open_conversation", in) EXCEPT
                    !.micro = "permission_to_continue"]
            ELSE Normally("discovery", "discover_need", in)
      [] in.stage = "discovery" -> DiscoveryAdvice(in, interested)
      [] in.stage = "value_exploration" ->
            IF interested /\ RemainingGaps(in) = <<>> THEN AskForNextStep
            ELSE Normally("value_exploration", "explain_value", in)
      [] OTHER -> Normally(in.stage, "qualify_need", in)

\* Objections before questions, questions before an unclear meaning, then the
\* lack of time, then the step asked for, and only then the stage.
Recommended(in) ==
    LET gaps == RemainingGaps(in)
        objection == Objection(in.about)
        undecided == HasSolution(in) /\ ~SatisfactionKnown(in)
        busy == "busy" \in in.told \/ in.about.busy = TRUE
        interested == "interested" \in in.told \/ in.about.interested = TRUE
        stay(mode, type) == Advice(in.stage, mode, type, gaps)
        compare(mode) == Advice(in.stage, mode, "understand_current_solution",
                                SatisfactionFirst(gaps))
    IN  IF objection = "already_have_provider" /\ undecided
        THEN compare("objection")
        ELSE IF in.category = "objection" \/ objection \notin {"none", "unknown"}
        THEN stay("objection", "handle_objection")
        ELSE IF in.category = "question"
        THEN [stay("question_detour", "handle_question") EXCEPT
                !.micro = "answer_one_question", !.resume = in.pending]
        ELSE IF in.category = "clarification"
        THEN stay("clarification", "clarify")
        ELSE IF busy
        THEN [stay("busy", "ask_micro_commitment") EXCEPT !.micro = "callback"]
        ELSE IF Commitment(in) # None
        THEN [Normally("next_step", "propose_next_step", in) EXCEPT
                !.micro = Commitment(in)]
        ELSE IF undecided THEN compare("normal")
        ELSE IF Role(in.about) \in {"receptionist", "gatekeeper"}
        THEN stay("role_routing", "route_to_decision_maker")
        ELSE StageAdvice(in, interested)

-----------------------------------------------------------------------------
(* HumanSalesCognitionEngine.evaluate: how the conversation stands and the    *)
(* one question worth asking next.  Guidance only ever shapes words.          *)

NextSteps == {"demo", "human_follow_up", "callback"}

\* The interest of a person: a step asked for, else research, else what was
\* said, which grows with the guidance of the turn before.
Interest(in) ==
    LET about == in.about
    IN  IF about.nextStep \in NextSteps THEN "buying_signal"
        ELSE IF \/ "research_only" \in in.signals
                \/ about.nextStep = "send_information"
        THEN "research_mode"
        ELSE IF about.interested = FALSE THEN "none"
        ELSE IF about.interested = TRUE
        THEN IF in.prior # None /\ in.prior.interest \in {"moderate", "strong"}
             THEN "strong" ELSE "moderate"
        ELSE IF in.meaningful THEN "weak" ELSE "unknown"

Shaken(in) == in.signals \cap {"confused", "correction"} # {}

Trust(in) ==
    IF Shaken(in) \/ "skeptical" \in in.signals THEN "fragile"
    ELSE IF \/ in.returning
            \/ /\ in.prior # None /\ in.prior.trust = "building"
               /\ in.about.interested = TRUE
    THEN "established"
    ELSE IF in.meaningful \/ in.about.interested # None THEN "building"
    ELSE "unknown"

Momentum(in) ==
    LET interest == Interest(in)
    IN  IF Shaken(in) THEN "recovering"
        ELSE IF "explicit_no_need" \in in.signals \/ interest = "none"
        THEN "declining"
        ELSE IF interest \in {"strong", "buying_signal"} THEN "improving"
        ELSE IF in.prior # None \/ in.meaningful THEN "stable" ELSE "unknown"

Readiness(in) ==
    IF in.fit.status = "supported_fit"
    THEN IF Interest(in) = "buying_signal" THEN "ready_for_next_step"
         ELSE "ready_for_fit"
    ELSE IF ~in.meaningful THEN "need_problem"
    ELSE IF in.process = None THEN "need_workflow"
    ELSE IF in.impact = None THEN "need_impact" ELSE "need_decision_context"

\* What could be asked, the most valuable first, None where it is known.
QuestionCandidates(in) ==
    LET unless(known, field) == IF known THEN None ELSE field
    IN  <<unless(in.about.solution # "unknown", "provider_satisfaction"),
          in.gap,
          unless(in.meaningful, "underlying_problem"),
          unless(in.process # None, "current_process"),
          unless(in.impact # None, "impact"),
          unless(in.outcome # None, "desired_outcome")>>

\* The first that was not asked in the last few questions.
QuestionFocus(in) ==
    LET order == QuestionCandidates(in)
        open == {i \in DOMAIN order : order[i] \notin {None} \cup Range(in.recent)}
    IN  IF open = {} THEN None ELSE order[Min(open)]

Pressure(in) ==
    IF Shaken(in) THEN "needs_clarification"
    ELSE IF "fatigued" \in in.signals \/ in.about.busy = TRUE
    THEN "needs_slowing"
    ELSE IF Interest(in) \in {"strong", "buying_signal"}
    THEN "ready_to_continue" ELSE "comfortable"

\* Objections the guidance has no understanding of.
UnderstoodAsNothing == {None, "none", "unknown", "not_decision_maker",
                        "implementation", "integration"}

BuyingGuidance(in) ==
    LET interest == Interest(in)
        supported == in.fit.status = "supported_fit"
    IN  IF "explicit_no_need" \in in.signals \/ interest = "none"
        THEN "graceful_close"
        ELSE IF in.about.objection \notin UnderstoodAsNothing
        THEN "handle_objection"
        ELSE IF ~supported THEN "continue_discovery"
        ELSE IF interest = "buying_signal" THEN "suggest_micro_commitment"
        ELSE "explain_fit"

Relationship(in) ==
    IF in.returning THEN "returning_discussion"
    ELSE IF in.prior # None /\ in.meaningful THEN "known_context"
    ELSE IF in.prior # None \/ in.meaningful THEN "developing"
    ELSE "first_contact"

Posture(in) ==
    IF "confused" \in in.signals THEN "confused"
    ELSE IF "skeptical" \in in.signals THEN "skeptical"
    ELSE IF "frustrated" \in in.signals THEN "frustrated"
    ELSE IF in.about.busy = TRUE THEN "busy"
    ELSE IF "curious" \in in.signals THEN "curious"
    ELSE IF in.about.interested = TRUE THEN "interested" ELSE "neutral"

\* A confused, tired or busy person gets a short answer whatever was decided.
Depth(in) ==
    IF in.signals \cap {"confused", "fatigued"} # {} \/ in.about.busy = TRUE
    THEN "short"
    ELSE IF "detailed_explanation_requested" \in in.signals THEN "detailed"
    ELSE IF in.signals \cap {"curious", "research_only"} # {} THEN "moderate"
    ELSE in.depth

Guided(in) ==
    [interest |-> Interest(in), trust |-> Trust(in), momentum |-> Momentum(in),
     readiness |-> Readiness(in), focus |-> QuestionFocus(in),
     pressure |-> Pressure(in), buying |-> BuyingGuidance(in),
     relationship |-> Relationship(in), posture |-> Posture(in),
     depth |-> Depth(in)]

\* Guidance that contradicts its own premises is refused.
ValidGuidance(guidance, in) ==
    /\ guidance.focus \notin Range(in.recent)
    /\ guidance.buying = "explain_fit" => in.fit.status = "supported_fit"
    /\ guidance.buying = "suggest_micro_commitment" =>
          guidance.interest = "buying_signal"
=============================================================================
