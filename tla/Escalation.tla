------------------------------ MODULE Escalation ------------------------------
(* GracefulEscalationPolicy: what the reply does about a turn the agent must  *)
(* not, or cannot, answer.  It selects words and never grants authority.      *)
EXTENDS Python, Integers, FiniteSets

Capabilities == {"human_handoff", "callback", "email", "message",
                 "technical_review"}

\* An answer cites at most eight items of evidence.
MaxCited == 8

\* Evidence that is global, of this campaign, or of the service asked about.
ScopeMatches(item, campaign, service) ==
    \/ item.scope = "global"
    \/ item.scope = "campaign" /\ item.of = campaign
    \/ item.scope = "service" /\ service # None /\ item.of = service

Matches(evidence, request, campaign) ==
    {item \in evidence :
        /\ request.key # None
        /\ item.key = request.key
        /\ request.type \in {None, item.type}
        /\ ScopeMatches(item, campaign, request.service)}

\* Mutant: the first item found is believed.
NeverConflicting(items) == FALSE

\* Two different statements of one fact contradict each other.
Conflicting(items) == Cardinality({item.statement : item \in items}) > 1

Cited(items) ==
    {item.id : item \in {i \in items :
        Cardinality({j \in items : j.id < i.id}) < MaxCited}}

Decision(reason, mode, capability, available, pending) ==
    [reason |-> reason, mode |-> mode, cites |-> {}, capability |-> capability,
     available |-> available, resume |-> pending]

\* Mutant: the e-mail is offered before its address is confirmed.
HumanRequestUnconfirmed(facts) ==
    IF "email" \in facts.capabilities
    THEN Decision("human_requested", "offer_information_follow_up", "email",
                  TRUE, facts.pending)
    ELSE Decision("human_requested", "acknowledge_unknown", "human_handoff",
                  FALSE, facts.pending)

\* Whoever asks for a human is offered what there is: a hand-off, else a
\* callback, else an e-mail to a confirmed address, else nothing.
HumanRequest(facts) ==
    LET answer(mode, capability, available) ==
            Decision("human_requested", mode, capability, available,
                     facts.pending)
    IN  IF "human_handoff" \in facts.capabilities
        THEN answer("offer_human_follow_up", "human_handoff", TRUE)
        ELSE IF "callback" \in facts.capabilities
        THEN answer("offer_callback", "callback", TRUE)
        ELSE IF "email" \in facts.capabilities /\ facts.contact = "confirmed"
        THEN answer("offer_information_follow_up", "email", TRUE)
        ELSE answer("acknowledge_unknown", "human_handoff", FALSE)

CommercialAuthority(facts) ==
    LET available == "human_handoff" \in facts.capabilities
    IN  Decision("commercial_authority_required",
                 IF available THEN "offer_human_follow_up"
                 ELSE "acknowledge_unknown",
                 "human_handoff", available, facts.pending)

\* A follow-up by e-mail or message needs a confirmed contact first.
FollowUp(facts, wanted) ==
    LET answer(reason, mode, available) ==
            Decision(reason, mode, wanted, available, facts.pending)
    IN  IF wanted \notin facts.capabilities
        THEN answer("capability_unavailable", "acknowledge_unknown", FALSE)
        ELSE IF wanted \in {"email", "message"} /\ facts.contact # "confirmed"
        THEN answer("capability_unavailable", "ask_clarifying_question", TRUE)
        ELSE answer("none",
                    CASE wanted = "human_handoff" -> "offer_human_follow_up"
                      [] wanted = "callback" -> "offer_callback"
                      [] OTHER -> "offer_information_follow_up",
                    TRUE)

Technical == {"technical_detail", "product_capability"}

Unanswered(facts, kind) ==
    LET reason == CASE kind = "technical_detail" -> "unknown_technical_detail"
                    [] kind = "product_capability" ->
                            "unknown_product_capability"
                    [] OTHER -> "missing_approved_evidence"
    IN  IF kind \in Technical /\ "technical_review" \in facts.capabilities
        THEN Decision(reason, "offer_information_follow_up",
                      "technical_review", TRUE, facts.pending)
        ELSE Decision(reason, "acknowledge_unknown", None, FALSE,
                      facts.pending)

\* What the approved evidence has to say about the fact asked for.
FactAnswer(facts, request) ==
    LET found == Matches(facts.evidence, request, facts.campaign)
        answer(reason, mode) ==
            Decision(reason, mode, None, FALSE, facts.pending)
    IN  IF Conflicting(found)
        THEN answer("evidence_conflict", "acknowledge_unknown")
        ELSE IF request.restricted
        THEN answer("policy_restricted", "safe_redirect")
        ELSE IF found # {}
        THEN [answer("none", "answer_with_evidence") EXCEPT
                !.cites = Cited(found)]
        ELSE Unanswered(facts, request.kind)

\* In this order: what the policies refused, the wish to end, the wish for a
\* human, an unclear request, a follow-up, and only then the fact asked for.
\* The two wishes are those ever observed of the person who speaks.
Evaluate(facts, request, scope, tier) ==
    LET answer(reason, mode) ==
            Decision(reason, mode, None, FALSE, facts.pending)
    IN  IF scope = "out_of_scope" THEN answer("out_of_scope", "safe_redirect")
        ELSE IF scope = "unknown_scope"
        THEN answer("ambiguous_request", "ask_clarifying_question")
        ELSE IF tier = "human_approval_required" THEN CommercialAuthority(facts)
        ELSE IF tier = "denied"
        THEN answer("policy_restricted", "safe_redirect")
        ELSE IF "end" \in facts.wishes THEN answer("none", "polite_wrap_up")
        ELSE IF "human" \in facts.wishes THEN HumanRequest(facts)
        ELSE IF request.kind = "ambiguous"
        THEN answer("ambiguous_request", "ask_clarifying_question")
        ELSE IF request.followUp # None THEN FollowUp(facts, request.followUp)
        ELSE IF request.kind = "none" THEN answer("none", "proceed_normally")
        ELSE FactAnswer(facts, request)

\* What the constructor of a decision insists on.
WellFormedDecision(d) ==
    /\ (d.cites # {}) = (d.mode = "answer_with_evidence")
    /\ d.mode = "offer_human_follow_up" =>
          d.capability = "human_handoff" /\ d.available
    /\ d.mode = "offer_callback" => d.capability = "callback" /\ d.available
    /\ d.mode = "offer_information_follow_up" =>
          /\ d.capability \in {"email", "message", "technical_review"}
          /\ d.available

\* A decision that cannot be built admits not to know.
Escalated(facts, request, scope, tier) ==
    LET d == Evaluate(facts, request, scope, tier)
    IN  IF WellFormedDecision(d) THEN d
        ELSE Decision("missing_approved_evidence", "acknowledge_unknown",
                      None, FALSE, facts.pending)
=============================================================================
