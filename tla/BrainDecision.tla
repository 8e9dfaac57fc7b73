--------------------------- MODULE BrainDecision ----------------------------
(* LeanContextBuilder.build: the bounded view of the call that the Brain and  *)
(* the policies of one turn are given.  It is built anew for every turn.      *)
EXTENDS Python, Integers, Sequences, SequencesExt, FiniteSets, FiniteSetsExt

\* The structural limits of the view.
MaxEvidence == 8
MaxServices == 12

\* The first limit members in their stable order.
FirstOf(ids, limit) ==
    IF Cardinality(ids) <= limit THEN ids
    ELSE {id \in ids : Cardinality({other \in ids : other < id}) < limit}

EligibleServices(call) == FirstOf(call.eligible, MaxServices)
OfferedServices(call) == FirstOf(call.offered, MaxServices)

\* Global evidence, this campaign's, and that of a service the call is about.
Applies(item, call) ==
    \/ item.scope = "global"
    \/ item.scope = "campaign" /\ item.of = call.campaign
    \/ /\ item.scope = "service"
       /\ item.of \in EligibleServices(call) \cup OfferedServices(call)

Applicable(items, call) == {item \in items : Applies(item, call)}

\* One id for two items, or two statements of one fact in one scope: no view
\* is built and the turn fails.
ContradictsItself(items, call) ==
    \E a, b \in Applicable(items, call) :
        \/ a.id = b.id /\ a # b
        \/ /\ a.scope = b.scope /\ a.of = b.of /\ a.key = b.key
           /\ a.statement # b.statement

\* The evidence of the view: what is beyond the limit is not seen.
ContextEvidence(items, call) ==
    LET found == Applicable(items, call)
    IN  {i \in found : i.id \in FirstOf({j.id : j \in found}, MaxEvidence)}

\* A contact captured in the call is a candidate until it is confirmed.
ContactStatus(call) ==
    IF call.contact = None THEN "none"
    ELSE IF call.confirmed THEN "confirmed" ELSE "candidate"

-----------------------------------------------------------------------------
(* The three policies the Brain's proposal has to pass: conversation scope,  *)
(* commercial authority and conversation budget.  A policy is the record its *)
(* YAML is parsed to.                                                            *)

---------------------------------------------------------------------------
(* Scope: which topics and actions the conversation is about.               *)

\* A policy with nothing allowed, with a topic both allowed and restricted,
\* or with an escalation topic outside the allowed ones is not loaded.
LoadableScope(p) ==
    /\ p.topics # {} \/ p.actions # {}
    /\ p.topics \cap p.restricted = {}
    /\ p.escalation \subseteq p.topics

\* Unknown before restricted before allowed: a denial beats a permission.
ScopeOf(action, topic, p) ==
    IF topic = "unknown" THEN "unknown_scope"
    ELSE IF \/ topic \in p.restricted
            \/ action # None /\ action \notin p.actions
            \/ topic \notin p.topics
         THEN "out_of_scope"
         ELSE "in_scope"

---------------------------------------------------------------------------
(* Authority: who may decide.                                               *)

\* From the least to the most restrictive tier.
Restrictiveness == [auto_execute |-> 0, policy_bounded |-> 1,
                    human_approval_required |-> 2, denied |-> 3]

Tiers == DOMAIN Restrictiveness

\* Mutant: the rule of the action decides alone.
FirstTier(a, b) == a

MoreRestrictive(a, b) ==
    IF Restrictiveness[a] >= Restrictiveness[b] THEN a ELSE b

\* The default of a policy is never autonomous, and every tier it names exists.
LoadableAuthority(p) ==
    /\ p.default \in Tiers \ {"auto_execute"}
    /\ \A a \in DOMAIN p.actions : p.actions[a] \in Tiers
    /\ \A k \in DOMAIN p.commercial : p.commercial[k] \in Tiers
    /\ p.discount # None => {p.discount.within, p.discount.over} \subseteq Tiers
    /\ p.disclosure # None => p.disclosure.tier \in Tiers

\* Every rule that is missing, and every discount without a percentage, falls
\* back on the default tier.
CommercialTier(request, p) ==
    CASE request.kind = "discount" ->
            IF p.discount = None \/ request.percent = None THEN p.default
            ELSE IF request.percent <= p.discount.max THEN p.discount.within
            ELSE p.discount.over
      [] request.kind = "pricing_disclosure" ->
            IF p.disclosure = None \/ ~p.disclosure.allowed THEN p.default
            ELSE p.disclosure.tier
      [] OTHER ->
            IF request.kind \in DOMAIN p.commercial
            THEN p.commercial[request.kind] ELSE p.default

AuthorityOf(action, request, p) ==
    LET tier == IF action \in DOMAIN p.actions THEN p.actions[action]
                ELSE p.default
    IN  IF request = None THEN tier
        ELSE MoreRestrictive(tier, CommercialTier(request, p))

---------------------------------------------------------------------------
(* Budget: how much conversation is left.                                   *)

\* Four positive limits, or the policy is not loaded.
LoadableBudget(p) ==
    {p.turns, p.seconds, p.calls, p.sentences} \subseteq Nat \ {0}

\* What was said wins over what is left.
EarlyExit(signals) ==
    IF "dnc" \in signals THEN "dnc"
    ELSE IF "not_interested" \in signals THEN "not_interested"
    ELSE IF "callback_scheduled" \in signals THEN "callback"
    ELSE IF "contact_confirmed" \in signals THEN "contact_obtained"
    ELSE None

\* An unknown amount counts as none.
RunOut(remaining) == remaining = None \/ remaining <= 0

BudgetOf(signals, state, p) ==
    IF EarlyExit(signals) # None THEN "early_exit"
    ELSE IF \/ p = None \/ state = None
            \/ \E d \in {"calls", "turns", "seconds"} : RunOut(state[d])
         THEN "wind_down"
    ELSE IF state.sentences # None /\ state.sentences < p.sentences
         THEN "constrain_response"
         ELSE "proceed"

-----------------------------------------------------------------------------
(* BrainOrchestrator.process_turn and execute_slice_three as functions of    *)
(* one turn: trusted priority, then budget, then one call of the reasoning   *)
(* provider, then scope, then authority, and only then the engine.           *)

\* What the provider answered: it failed, it answered something that is not a
\* proposal, it proposed no action, or it proposed one.
Answers == {"fails", "malformed", "no_action", "valid"}

\* A discount is a finite number that is not negative.
WellFormed(proposal) ==
    /\ proposal.answer \in {"no_action", "valid"}
    /\ proposal.request # None =>
          (proposal.request.percent = None \/ proposal.request.percent >= 0)

Stopped(outcome) ==
    [outcome |-> outcome, action |-> None, scope |-> None, tier |-> None,
     bounded |-> FALSE, reasoned |-> FALSE]

\* A tier bounded by policy passes the bound of its kind of request on.
Bounded(request, policy) ==
    /\ request # None
    /\ \/ request.kind = "discount" /\ policy.discount # None
       \/ request.kind = "pricing_disclosure"

Classified(proposal, scopePolicy, authority) ==
    LET scope == ScopeOf(proposal.action, proposal.topic, scopePolicy)
        tier == AuthorityOf(proposal.action, proposal.request, authority)
        result == [Stopped("fallback") EXCEPT !.reasoned = TRUE]
    IN  IF ~WellFormed(proposal) \/ proposal.action = None THEN result
        ELSE IF scope # "in_scope"
             THEN [result EXCEPT !.scope = scope,
                                 !.outcome = IF scope = "out_of_scope"
                                             THEN "redirect" ELSE "fallback"]
        ELSE [result EXCEPT
                !.scope = scope, !.tier = tier,
                !.outcome = CASE tier = "human_approval_required" -> "escalate"
                              [] tier = "denied" -> "redirect"
                              [] OTHER -> "authority_approved",
                !.action = IF tier \in {"auto_execute", "policy_bounded"}
                           THEN proposal.action ELSE None,
                !.bounded = /\ tier = "policy_bounded"
                            /\ Bounded(proposal.request, authority)]

\* One turn through the gates.  A priority that resolves to an action is
\* executed at once; nothing is reasoned about without budget.
Decided(priority, budget, proposal, policies) ==
    IF priority # None THEN Stopped("pipeline_stopped")
    ELSE IF BudgetOf({}, budget, policies.budget) \in {"early_exit", "wind_down"}
    THEN Stopped("pipeline_stopped")
    ELSE Classified(proposal, policies.scope, policies.authority)

\* Slice three reaches the engine with an approved action whose bounds need
\* nothing the engine cannot enforce; the engine answers executed or fallback.
Executable(decision) ==
    /\ decision.outcome = "authority_approved"
    /\ decision.action # None
    /\ ~decision.bounded

\* The kind of result the reply is planned for.
ResultKind(decision, executed) ==
    IF decision.outcome # "authority_approved" THEN decision.outcome
    ELSE IF Executable(decision) /\ executed THEN "executed" ELSE "fallback"
=============================================================================
