----------------------------- MODULE Consultative -----------------------------
(* Diagnose before prescribing: the problem the prospect described, the one   *)
(* authorized service that fits it, and the consultative move of a turn.      *)
(* The texts of a problem are None or something said.                         *)
EXTENDS Python, Integers, Sequences, FiniteSets, FiniteSetsExt

---------------------------------------------------------------------------
(* The problem.                                                             *)

ProblemTexts == {"description", "requested", "process", "friction", "impact",
                 "outcome", "channel"}

NoProblem == [category |-> "unknown", explicit |-> FALSE,
              texts |-> [t \in ProblemTexts |-> None]]

Meaningful(problem) ==
    \E t \in {"description", "friction"} : problem.texts[t] # None

\* A correction replaces the whole hypothesis; an inference never replaces
\* what was said; everything else fills in what it knows.
UpdatedProblem(problem, evidence) ==
    IF evidence.correction
    THEN [category |-> evidence.category, explicit |-> evidence.explicit,
          texts |-> evidence.texts]
    ELSE IF problem.explicit /\ ~evidence.explicit THEN problem
    ELSE [category |-> IF evidence.category = "unknown" THEN problem.category
                       ELSE evidence.category,
          explicit |-> evidence.explicit,
          texts |-> [t \in ProblemTexts |->
                        IF evidence.texts[t] # None THEN evidence.texts[t]
                        ELSE problem.texts[t]]]

---------------------------------------------------------------------------
(* The fit of a service.                                                    *)

\* Fields a relevance rule may require, by the text that answers them.
FieldText == [current_process |-> "process", friction |-> "friction",
              impact |-> "impact", desired_outcome |-> "outcome",
              source_or_channel |-> "channel"]

KnownField(problem, field) ==
    \/ field = "underlying_problem" /\ Meaningful(problem)
    \/ /\ field \in DOMAIN FieldText
       /\ problem.texts[FieldText[field]] # None

HighestValueGap(problem) ==
    LET order == <<"current_process", "friction", "impact", "desired_outcome">>
        open == {i \in DOMAIN order : ~KnownField(problem, order[i])}
    IN  IF open = {} THEN "underlying_problem" ELSE order[Min(open)]

\* Of several missing fields the first by name is asked for.
FieldsByName == <<"already_offered", "approved_evidence", "current_process",
                  "desired_outcome", "friction", "impact",
                  "source_or_channel", "underlying_problem">>

FirstField(fields) ==
    FieldsByName[Min({i \in DOMAIN FieldsByName : FieldsByName[i] \in fields})]

\* Rules with services of their own, all authorized for the campaign.
LoadableRules(rules, authorized) ==
    /\ \A a, b \in rules : a.service = b.service => a = b
    /\ \A rule \in rules : rule.service \in authorized /\ rule.categories # {}

InScope(item, service, campaign) ==
    \/ item.scope = "global"
    \/ item.scope = "campaign" /\ item.of = campaign
    \/ item.scope = "service" /\ item.of = service

\* The evidence for a rule; none at all when two items contradict each other
\* on one fact.
MaxFitEvidence == 8

MatchingEvidence(evidence, rule, campaign) ==
    LET found == {item \in evidence : /\ item.key \in rule.facts
                                      /\ InScope(item, rule.service, campaign)}
    IN  IF \E a, b \in found : a.key = b.key /\ a.statement # b.statement
        THEN {}
        ELSE {i \in found :
                Cardinality({j \in found : j.id < i.id}) < MaxFitEvidence}

Fit(status, service, missing, cites) ==
    [status |-> status, service |-> service, missing |-> missing,
     cites |-> cites]

Insufficient(field) == Fit("insufficient_context", None, {field}, {})

\* What the business may offer here: an eligible and authorized service, not
\* offered before, whose single rule is answered in full and evidenced.
ServiceFit(problem, business) ==
    LET relevant == {rule \in business.rules :
                        /\ rule.service \in business.authorized
                                            \cap business.eligible
                        /\ problem.category \in rule.categories}
        fresh == {rule \in relevant : rule.service \notin business.offered}
        one == CHOOSE rule \in fresh : TRUE
        missing == {f \in one.required : ~KnownField(problem, f)}
        cited == MatchingEvidence(business.evidence, one, business.campaign)
    IN  IF ~Meaningful(problem) THEN Insufficient("underlying_problem")
        ELSE IF fresh = {}
        THEN IF relevant # {} THEN Insufficient("already_offered")
             ELSE Fit("no_authorized_fit", None, {}, {})
        ELSE IF Cardinality(fresh) > 1
        THEN Insufficient(HighestValueGap(problem))
        ELSE IF missing # {} THEN Fit("possible_fit", one.service, missing, {})
        ELSE IF cited = {}
        THEN Fit("possible_fit", one.service, {"approved_evidence"}, {})
        ELSE Fit("supported_fit", one.service, {}, {i.id : i \in cited})

RuleOf(service, rules) == CHOOSE r \in rules : r.service = service

\* The item of the lowest id.
Foremost(items) == CHOOSE i \in items : \A j \in items : i.id <= j.id

\* What may be said of the service; only with the evidence of the fit.
ServiceAnswer(fit, business) ==
    LET rule == RuleOf(fit.service, business.rules)
        cited == MatchingEvidence(business.evidence, rule, business.campaign)
    IN  IF fit.status # "supported_fit" \/ {i.id : i \in cited} # fit.cites
        THEN None
        ELSE [allowed |-> TRUE, statement |-> Foremost(cited).statement,
              approved |-> {i.statement : i \in cited},
              caseStudy |-> Foremost(cited).type = "case_study"]

---------------------------------------------------------------------------
(* The move.                                                                *)

\* Only some moves carry the fit they were decided with.
Move(move, depth) ==
    [move |-> move, gap |-> None, depth |-> depth, policy |-> None,
     acknowledges |-> FALSE, transparent |-> FALSE, resume |-> FALSE,
     fit |-> None]

\* A move that asks for one thing.
AskFor(move, gap, in) ==
    [Move(move, "short") EXCEPT
        !.gap = gap, !.acknowledges = Meaningful(in.problem), !.fit = in.fit,
        !.policy = IF "two_way_ambiguity" \in in.signals THEN "short_contrast"
                   ELSE "one_primary"]

Explaining(in) ==
    [Move("explain_relevant_fit",
          IF "explanation_requested" \in in.signals THEN "detailed"
          ELSE "moderate") EXCEPT !.acknowledges = TRUE, !.fit = in.fit]

Answering(in) ==
    [Move("answer_direct_question",
          IF "explanation_requested" \in in.signals THEN "detailed"
          ELSE "short") EXCEPT !.resume = in.pending, !.fit = in.fit]

\* Discovery asks, in this order, for the problem, the process, the impact.
Discover(in) ==
    LET texts == in.problem.texts
        problem(move) == AskFor(move, "underlying_problem", in)
    IN  IF ~Meaningful(in.problem)
        THEN IF texts["requested"] = None /\ in.stage = "opening"
             THEN problem("open_conversation") ELSE problem("discover_problem")
        ELSE IF texts["process"] = None
        THEN AskFor("understand_current_process", "current_process", in)
        ELSE IF texts["impact"] = None
        THEN AskFor("understand_impact", "impact", in)
        ELSE IF in.fit.status = "no_authorized_fit"
        THEN Move("graceful_close", "short")
        ELSE AskFor("clarify",
                    IF in.fit.missing = {} THEN "desired_outcome"
                    ELSE FirstField(in.fit.missing), in)

\* The obstacles to selling anything come before any fit.
Consulted(in) ==
    LET about == in.about
        supported == in.fit.status = "supported_fit"
    IN  IF in.addressee # "agent"
        THEN AskFor("clarify", "underlying_problem", in)
        ELSE IF "commercial_purpose_question" \in in.signals
        THEN [Move("answer_direct_question", "short") EXCEPT
                !.transparent = TRUE]
        ELSE IF "misunderstanding" \in in.signals
        THEN [Move("simplify_explanation", "short") EXCEPT !.resume = in.pending]
        ELSE IF in.category = "question" THEN Answering(in)
        ELSE IF about.busy = TRUE /\ about.interested = TRUE
        THEN Move("low_pressure_callback", "short")
        ELSE IF "explicit_no_problem" \in in.signals
        THEN Move("graceful_close", "short")
        ELSE IF about.role \in {"receptionist", "gatekeeper"}
        THEN AskFor("route_to_decision_maker", "role_routing", in)
        ELSE IF about.solution = "unknown"
        THEN AskFor("understand_existing_solution", "provider_satisfaction", in)
        ELSE IF /\ about.objection \notin {None, "none", "unknown"}
                /\ in.problem.texts["friction"] = None
        THEN AskFor("handle_objection", "objection_reason", in)
        ELSE IF in.category = "correction" /\ ~Meaningful(in.problem)
        THEN AskFor("clarify", "underlying_problem", in)
        ELSE IF "service_information_request" \in in.signals /\ ~supported
        THEN AskFor("discover_problem", "underlying_problem", in)
        ELSE IF ~supported THEN Discover(in)
        ELSE IF "buying_signal" \in in.signals
                /\ "service_information_request" \notin in.signals
        THEN [Move("ask_micro_commitment", "short") EXCEPT !.fit = in.fit]
        ELSE Explaining(in)
=============================================================================
