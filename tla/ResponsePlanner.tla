--------------------------- MODULE ResponsePlanner ---------------------------
(* ResponsePlanner.plan: one communication goal, length and question strategy *)
(* for a turn that is already decided.  The escalation and consultative       *)
(* decisions and the sales guidance are advisory and may be absent.           *)
EXTENDS Python, Integers, Sequences

Acknowledgements == <<"got_it", "makes_sense", "okay", "right", "understood">>

LengthOrder == [short |-> 1, moderate |-> 2, detailed |-> 3]

\* The kinds of acknowledgement rotate; an unknown predecessor starts over.
NextAcknowledgement(previous) ==
    LET known == {i \in 1..5 : Acknowledgements[i] = previous}
    IN  IF known = {} THEN Acknowledgements[1]
        ELSE Acknowledgements[1 + ((CHOOSE i \in known : TRUE) % 5)]

\* How a person who heard the matter before is addressed bounds the length:
\* depth on demand, brevity for a recap, at least a moderate length for a
\* person who is new to it.
FittedLength(length, strategy) ==
    CASE strategy = "deepen" -> "detailed"
      [] strategy \in {"concise_recap", "simplify"} -> "short"
      [] strategy = "full_re_explain" ->
            IF LengthOrder[length] < LengthOrder["moderate"] THEN "moderate"
            ELSE length
      [] OTHER -> length

\* Recovery actions of the fallback engine that keep their own meaning.
RecoveryActions ==
    {"ask_identity", "introduce_reason", "answer_question", "ask_email",
     "confirm_contact", "clarify_contact", "schedule_callback",
     "offer_service", "greet"}

OrdinaryLength(need) ==
    CASE need = "simple" -> "short" [] need = "complex" -> "detailed"
      [] OTHER -> "moderate"

ExplanatoryLength(need) == IF need = "complex" THEN "detailed" ELSE "moderate"

\* A plan without acknowledgement, question or pending point.
Plain(in, goal, length) ==
    [goal |-> goal, length |-> FittedLength(length, in.strategy),
     ack |-> None, question |-> None, clarify |-> FALSE,
     handling |-> None, resume |-> FALSE, pending |-> FALSE,
     action |-> in.action]

\* A plan that may come back to the unfinished point.
Resuming(plan, in, resumes, otherwise) ==
    [plan EXCEPT !.handling = IF resumes /\ in.pending
                              THEN "integrate_if_useful" ELSE otherwise,
                 !.resume = resumes /\ in.pending, !.pending = in.pending]

Holding(plan, in) ==
    [plan EXCEPT !.handling = "hold_prior_context", !.pending = in.pending]

Dropping(plan) == [plan EXCEPT !.handling = "drop_stale_point"]

Asking(plan, question, clarify) ==
    [plan EXCEPT !.question = question, !.clarify = clarify]

Acknowledging(plan, in) == [plan EXCEPT !.ack = NextAcknowledgement(in.ack)]

\* Whom was it said to?
AddresseePlan(in) ==
    IF in.addressee = "uncertain"
    THEN Asking(Holding(Plain(in, "clarify_addressee", "short"), in),
                "confirm_addressee", TRUE)
    ELSE [Holding(Plain(in, "continue_prior_context", "short"), in) EXCEPT
            !.resume = in.pending]

Offers == {"offer_human_follow_up", "offer_callback",
           "offer_information_follow_up"}

EscalationPlan(in) ==
    LET d == in.escalation
        resuming(plan) == Resuming(plan, in, d.resume, "hold_prior_context")
    IN  CASE d.mode = "answer_with_evidence" ->
                resuming(Plain(in, "answer_approved_evidence", "moderate"))
          [] d.mode = "ask_clarifying_question" ->
                Asking(resuming(Plain(in, "clarify_meaning",
                        IF d.capability \in {"email", "message"}
                        THEN "moderate" ELSE "short")),
                       "clarify_current_input", TRUE)
          [] d.mode = "safe_redirect" ->
                Dropping(Plain(in, "redirect_safely", "short"))
          [] d.mode = "polite_wrap_up" ->
                Dropping(Plain(in, "polite_wrap_up", "short"))
          [] OTHER ->
                resuming(Plain(in,
                    IF d.mode = "acknowledge_unknown"
                    THEN "acknowledge_uncertainty"
                    ELSE "offer_supported_next_step",
                    IF d.resume \/ d.mode \in Offers THEN "moderate"
                    ELSE "short"))

\* Results the words must not go beyond.
SafetyPlan(in) ==
    CASE in.result = "fallback" ->
            IF in.action \in RecoveryActions
            THEN Holding(Plain(in, "communicate_result", "short"), in)
            ELSE Asking(Holding(Plain(in, "safe_recovery", "short"), in),
                        "clarify_current_input", TRUE)
      [] in.result = "redirect" ->
            Dropping(Plain(in, "redirect_safely", "short"))
      [] in.result = "escalate" ->
            Acknowledging(Holding(Plain(in, "acknowledge_escalation", "short"),
                                  in), in)

ConsultativeGoal(c) ==
    CASE c.move = "explain_relevant_fit" -> "explain_relevant_fit"
      [] c.move = "low_pressure_callback" -> "low_pressure_continuation"
      [] c.move = "simplify_explanation" -> "language_recovery"
      [] c.move = "graceful_close" -> "polite_wrap_up"
      [] c.move = "answer_direct_question" ->
            IF c.transparent THEN "truthful_commercial_answer"
            ELSE "answer_current_question"
      [] OTHER -> "consultative_discovery"

\* The guidance may withhold the question the decision would ask.
ConsultativePlan(in) ==
    LET c == in.consultative
        g == in.guidance
        asks == c.policy # None /\ (g = None \/ g.focus # None)
        plan == Resuming(
                    Plain(in, ConsultativeGoal(c),
                          IF g # None THEN g.depth ELSE c.depth),
                    in, c.resume, "drop_stale_point")
    IN  Asking(IF c.acknowledges THEN Acknowledging(plan, in) ELSE plan,
               IF asks THEN "clarify_current_input" ELSE None, asks)

CategoryPlan(in) ==
    LET resumes(plan) == IF in.interrupted THEN Resuming(plan, in, TRUE, None)
                         ELSE [plan EXCEPT !.pending = in.pending]
        explained == ExplanatoryLength(in.need)
        ordinary == OrdinaryLength(in.need)
    IN  CASE in.category = "question" ->
                Asking(resumes(Plain(in, "answer_current_question", explained)),
                       "answer_then_follow_up", FALSE)
          [] in.category = "objection" ->
                Asking(Acknowledging(Dropping(
                            Plain(in, "explore_objection", explained)), in),
                       "explore_with_one_question", FALSE)
          [] in.category = "correction" ->
                Acknowledging(Dropping(
                    Plain(in, "incorporate_correction", "moderate")), in)
          [] in.category = "topic_shift" ->
                Dropping(Plain(in, "follow_new_direction", ordinary))
          [] in.category = "clarification" ->
                Asking(Dropping(Plain(in, "clarify_meaning", ordinary)),
                       "clarify_current_input", TRUE)
          [] OTHER -> resumes(Plain(in, "communicate_result", ordinary))

\* In this order: the addressee, what was escalated, what the result forbids,
\* the consultative decision, and only then the category of the utterance.
Plan(in) ==
    IF in.addressee # "agent" THEN AddresseePlan(in)
    ELSE IF in.escalation # None /\ in.escalation.mode # "proceed_normally"
    THEN EscalationPlan(in)
    ELSE IF in.result \in {"fallback", "redirect", "escalate"}
    THEN SafetyPlan(in)
    ELSE IF in.consultative # None THEN ConsultativePlan(in)
    ELSE CategoryPlan(in)
=============================================================================
