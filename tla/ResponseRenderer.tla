-------------------------- MODULE ResponseRenderer --------------------------
(* From a plan to words.  A text is a sequence of sentences and a sentence    *)
(* the set of things it says; some of those are questions.  The wording       *)
(* itself is left out, the number of sentences and what they ask are not:     *)
(* the renderer's acceptance boundary and its fallback turn on them.          *)
EXTENDS Python, Integers, Sequences, FiniteSets

Says(clause) == <<{clause}>>

Questions ==
    {"was_that_for_me", "clarify_missed", "contact_right", "clarify_meaning",
     "what_next", "main_issue", "how_to_continue", "which_contact",
     "clarify_detail", "who_is_speaking", "discovery_question",
     "small_next_step", "clarify_that", "clarify_need"}

\* Everything the renderer says of itself; only a statement of the evidence is
\* not among it.
Offering == {"may_request_human", "may_request_callback",
             "may_request_information"}

Wording ==
    Questions \cup Offering \cup
    {"greeting", "reason_for_call", "missing_fact", "return_to_point",
     "cannot_authorize", "only_a_request", "cannot_transfer", "unavailable",
     "contact_needed", "cannot_disclose", "cannot_help", "understood",
     "leave_it", "no_guarantee", "business_call", "simpler", "keep_it_brief",
     "will_not_force", "useful_context", "connects_to_point",
     "understand_first", "use_correction", "focus_on_that", "acknowledged",
     "contact_confirmed", "needs_confirmation", "cannot_confirm",
     "missed_that", "coming_back", "take_your_time", "optout_recorded",
     "not_continuing", "framing", "identity"}

AsksIn(sentence) == sentence \cap Questions # {}

\* Sentences a plan of each length has room for.
LengthGuidance == [short |-> 1, moderate |-> 3, detailed |-> 5]

SentenceLimit(r) ==
    LET guided == LengthGuidance[r.plan.length]
    IN  IF r.budget < guided THEN r.budget ELSE guided

\* The words of a recovery action; the last resort is a question.
TypedAction(action) ==
    CASE action = "greet" -> Says("greeting")
      [] action = "ask_identity" -> Says("who_is_speaking")
      [] action = "introduce_reason" -> Says("reason_for_call")
      [] OTHER -> Says("how_to_continue")

MissingFact == Says("missing_fact")

WithResume(text, r) ==
    IF r.plan.resume /\ r.plan.pending THEN text \o Says("return_to_point")
    ELSE text

\* What an escalated reply admits before it offers anything.
Admission(d) ==
    CASE d.reason = "commercial_authority_required" -> Says("cannot_authorize")
      [] d.reason = "human_requested" ->
            IF d.mode = "offer_human_follow_up" THEN Says("only_a_request")
            ELSE Says("cannot_transfer")
      [] d.reason = "capability_unavailable" -> Says("unavailable")
      [] d.reason = "none" -> <<>>
      [] OTHER -> MissingFact

Offer(mode) ==
    CASE mode = "offer_human_follow_up" -> Says("may_request_human")
      [] mode = "offer_callback" -> Says("may_request_callback")
      [] mode = "offer_information_follow_up" -> Says("may_request_information")
      [] OTHER -> <<>>

EscalationText(r) ==
    LET d == r.escalation
        cited == {e \in r.evidence : e.id \in d.cites}
    IN  CASE d.mode = "answer_with_evidence" ->
                IF cited = {} THEN MissingFact
                ELSE WithResume(Says((CHOOSE e \in cited : TRUE).statement), r)
          [] d.mode = "ask_clarifying_question" ->
                IF d.capability \in {"email", "message"}
                THEN Says("contact_needed") \o Says("which_contact")
                ELSE Says("clarify_detail")
          [] d.mode = "safe_redirect" ->
                IF d.reason = "policy_restricted" THEN Says("cannot_disclose")
                ELSE Says("cannot_help")
          [] d.mode = "polite_wrap_up" -> Says("understood") \o Says("leave_it")
          [] OTHER -> WithResume(Admission(d) \o Offer(d.mode), r)

\* A service is described only by evidence whose disclosure is allowed.
GroundedServiceFit(answer) ==
    IF answer = None \/ ~answer.allowed \/ answer.statement = None
    THEN MissingFact
    ELSE IF answer.caseStudy
         THEN Says(answer.statement) \o Says("no_guarantee")
         ELSE Says(answer.statement)

\* The words of a consultative decision; empty when it leaves them to others.
ConsultativeText(r) ==
    LET c == r.consultative
    IN  IF c.transparent THEN Says("business_call")
        ELSE CASE c.move = "simplify_explanation" -> Says("simpler")
               [] c.move = "explain_relevant_fit" -> GroundedServiceFit(r.answer)
               [] c.move = "answer_direct_question" ->
                    IF r.answer = None THEN MissingFact ELSE GroundedServiceFit(r.answer)
               [] c.move = "low_pressure_callback" -> Says("keep_it_brief")
               [] c.move = "graceful_close" -> Says("will_not_force")
               [] c.move = "ask_micro_commitment" -> Says("small_next_step")
               [] OTHER ->
                    IF c.policy = None THEN <<>>
                    ELSE IF r.plan.question # None THEN Says("discovery_question")
                    ELSE IF r.guided THEN Says("useful_context")
                    ELSE <<>>

\* Sentences beyond the limit are dropped, the closing question is kept; a
\* single sentence joins what there is to say with the question.
FitToBudget(text, r) ==
    LET limit == SentenceLimit(r)
        n == Len(text)
        exploring == r.plan.goal = "explore_objection"
    IN  IF n <= limit THEN text
        ELSE IF limit = 1
        THEN IF r.plan.question = None THEN <<text[1]>>
             ELSE <<text[IF exploring THEN n - 1 ELSE 1] \cup text[n]>>
        ELSE IF ~AsksIn(text[n]) THEN SubSeq(text, 1, limit)
        ELSE IF exploring THEN SubSeq(text, n - limit + 1, n)
        ELSE Append(SubSeq(text, 1, limit - 1), text[n])

\* Facts approved for this turn, each a sentence.
Facts(r) == [i \in DOMAIN r.facts |-> {r.facts[i]}]
FactsOr(r, otherwise) == IF r.facts = <<>> THEN otherwise ELSE Facts(r)

PlannedText(r) ==
    LET p == r.plan
        goal == CASE p.goal = "answer_current_question" ->
                        FactsOr(r, MissingFact) \o
                        (IF p.resume /\ p.pending
                            /\ p.handling = "integrate_if_useful"
                         THEN Says("connects_to_point") ELSE <<>>)
                  [] p.goal = "explore_objection" ->
                        Append(Facts(r), {"understand_first"})
                  [] p.goal = "incorporate_correction" ->
                        FactsOr(r, Says("use_correction"))
                  [] p.goal = "follow_new_direction" ->
                        FactsOr(r, Says("focus_on_that"))
                  [] p.goal = "clarify_meaning" -> Says("clarify_meaning")
                  [] OTHER -> FactsOr(r, TypedAction(p.action))
        question == CASE p.question = "answer_then_follow_up" ->
                            Says("what_next")
                      [] p.question = "explore_with_one_question" ->
                            Says("main_issue")
                      [] OTHER -> <<>>
    IN  FitToBudget((IF p.ack = None THEN <<>> ELSE Says("acknowledged"))
                        \o goal \o question, r)

ContactText(r) ==
    IF r.contact = "unconfirmed" THEN Says("contact_right")
    ELSE Says("contact_confirmed")

\* What the result lets the reply say.
ResultText(r) ==
    CASE r.result = "escalate" -> Says("needs_confirmation")
      [] r.result = "redirect" -> Says("cannot_confirm")
      [] r.result = "fallback" ->
            IF TypedAction(r.plan.action) # Says("how_to_continue")
            THEN TypedAction(r.plan.action)
            ELSE Says("missed_that") \o Says("clarify_missed")

AddresseeText(r) ==
    IF r.addressee = "uncertain" THEN Says("was_that_for_me")
    ELSE IF r.plan.resume /\ r.plan.pending THEN Says("coming_back")
    ELSE Says("take_your_time")

Compose(r) ==
    IF r.addressee # "agent" THEN AddresseeText(r)
    ELSE IF r.escalation # None /\ r.escalation.mode # "proceed_normally"
    THEN EscalationText(r)
    ELSE IF r.result \in {"escalate", "redirect", "fallback"} THEN ResultText(r)
    ELSE IF r.disclose THEN Says("identity")
    ELSE IF r.consultative # None /\ ConsultativeText(r) # <<>>
    THEN ConsultativeText(r)
    ELSE IF r.contact # "none" THEN ContactText(r)
    ELSE PlannedText(r)

\* One sentence for a text that was not accepted.
FallbackText(r) ==
    IF r.addressee = "uncertain" THEN Says("was_that_for_me")
    ELSE IF r.result = "escalate" THEN Says("needs_confirmation")
    ELSE IF r.plan.clarify THEN Says("clarify_that")
    ELSE IF r.result = "redirect" THEN Says("cannot_confirm")
    ELSE Says("clarify_need")

\* Plain text within the limit; with an escalation, without a promise made.
Acceptable(text, promises, r) ==
    /\ text # <<>>
    /\ Len(text) <= SentenceLimit(r)
    /\ r.escalation = None \/ ~promises

Rendered(r) ==
    IF Acceptable(Compose(r), FALSE, r) THEN Compose(r) ELSE FallbackText(r)

\* The framing of a re-explanation is put in front of whatever was rendered.
Framings == {"concise_recap", "simplify", "deepen", "full_re_explain"}

Framed(text, strategy) ==
    IF strategy \in Framings THEN [text EXCEPT ![1] = @ \cup {"framing"}]
    ELSE text

-----------------------------------------------------------------------------
(* GuardedConversationRealizer: a provider may word the reply of an executed  *)
(* turn; its candidate is accepted or the deterministic renderer speaks.      *)
(* A candidate is its text and what a strict reader finds in it: marks of     *)
(* what must not be said, and its terms - the assertions of a capability and  *)
(* the numbers.                                                               *)

MaxQuestions == 1
MaxFillers == 1

\* Only an executed turn that was addressed to the agent is worded freely.
MayRealize(r) == r.result = "executed" /\ r.addressee = "agent"

QuestionMarks(text) == Cardinality({i \in DOMAIN text : AsksIn(text[i])})

\* Nothing internal, no list, no commercial promise, no pressure, no babble.
Clean(candidate) ==
    /\ candidate.text # <<>>
    /\ candidate.marks \cap {"leak", "list", "promise", "pressure"} = {}
    /\ candidate.fillers <= MaxFillers

\* Not more questions than one, and none the plan does not ask.
QuestionsFit(candidate, r) ==
    LET asked == QuestionMarks(candidate.text)
    IN  asked <= MaxQuestions /\ (asked = 0 \/ r.plan.question # None)

\* The evidence the wording may draw on.
ApprovedEvidence(r) == IF r.answer # None THEN r.answer.approved
                       ELSE {e.statement : e \in r.evidence}

\* What an approved text accounts for: the assertions it makes, since it is cut
\* out of the wording before they are looked for, and every number that its
\* characters contain, wherever the wording puts it.
AccountedFor(r) == UNION {r.covers[s] : s \in ApprovedEvidence(r)}

\* An offer only in an explanation of fit; an explanation of fit only with its
\* evidence; no capability or number the evidence does not account for.
Grounded(candidate, r) ==
    LET explaining == r.plan.goal = "explain_relevant_fit"
    IN  /\ "other_service" \notin candidate.marks
        /\ "offer" \in candidate.marks => explaining
        /\ candidate.terms \subseteq AccountedFor(r)
        /\ explaining =>
              \E i \in DOMAIN candidate.text :
                  candidate.text[i] \cap ApprovedEvidence(r) # {}

\* Who is to be told who speaks is told, and who asks whether he is being sold
\* something.
Disclosing(candidate, r) ==
    /\ r.disclose => \E i \in DOMAIN candidate.text :
                        "identity" \in candidate.text[i]
    /\ r.consultative # None =>
          (r.consultative.transparent =>
              /\ "conceals" \notin candidate.marks
              /\ "commercial" \in candidate.marks)

Valid(candidate, r) ==
    /\ Clean(candidate)
    /\ QuestionsFit(candidate, r)
    /\ Grounded(candidate, r)
    /\ r.roman => "roman_urdu" \in candidate.marks
    /\ Disclosing(candidate, r)

\* One call, no retry; a provider that fails offers no candidate.
Accepted(candidate, r) ==
    /\ MayRealize(r) /\ candidate # None
    /\ Valid(candidate, r)
    /\ Acceptable(candidate.text, "follow_up_promise" \in candidate.marks, r)

Realized(candidate, r) ==
    IF Accepted(candidate, r) THEN candidate.text ELSE Rendered(r)
=============================================================================
