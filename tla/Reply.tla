-------------------------------- MODULE Reply --------------------------------
(* The reply of the ProductionTurnProcessor to each turn of a call: what it   *)
(* learns, what the Brain decides, what the escalation and consultative       *)
(* policies add, and the words the reply ends up with.  One turn is the steps *)
(* Hear, Decide, Consult and Speak of process_turn, in that order.            *)
EXTENDS BrainDecision, SalesStrategy, Consultative, Escalation,
        ResponsePlanner, ResponseRenderer

CONSTANTS
    Policies,      \* scope, authority and budget policy of the campaign
    Business,      \* rules, authorized services, evidence and capabilities
    Heard,         \* what a caller may say in a turn
    Proposals,     \* what the reasoning provider may propose
    Recoveries,    \* actions the fallback engine may take for a refused one
    Signals,       \* typed signals of a turn for the consultative engine
    Moods,         \* typed signals of a turn for the sales cognition
    Candidates,    \* what a realization provider may word, None if nothing
    MaxTurns       \* bound on the turns of a call

VARIABLES
    phase,   \* which step of process_turn is next
    call,    \* what the processor keeps between turns
    turn,    \* the turn in progress, None between turns
    reply,   \* the reply of the last turn, None before the first and in a turn
    asked    \* the discovery questions spoken, the latest last

replyVars == <<phase, call, turn, reply, asked>>

Statements == {item.statement : item \in Business.evidence}

\* What the loaders let through.
ASSUME PoliciesAssumption ==
    /\ LoadableScope(Policies.scope)
    /\ LoadableAuthority(Policies.authority)
    /\ LoadableBudget(Policies.budget)

\* Evidence is a tuple of items; no statement is one of the renderer's own
\* sentences.  A statement accounts for the terms the strict reader finds in it,
\* and for every number that its characters happen to contain.
ASSUME BusinessAssumption ==
    /\ IsFiniteSet(Business.evidence)
    /\ \A item \in Business.evidence : item.id \in Nat
    /\ Statements \cap Wording = {}
    /\ \A s \in Statements : Business.found[s] \subseteq Business.covers[s]
    /\ LoadableRules(Business.rules, Business.authorized)
    /\ None \notin Business.authorized

\* The recoveries the configuration of the fallback engine names.
ASSUME RecoveriesAssumption ==
    Recoveries \subseteq
        {"ask_identity", "introduce_reason", "answer_question", "ask_email",
         "confirm_contact", "schedule_callback", "end_call", "mark_dnc"}

\* The strict reader finds the terms of a statement wherever it stands.
ASSUME CandidatesAssumption ==
    \A c \in Candidates : c # None =>
        /\ c.text \in Seq(Range(c.text))
        /\ \A i \in DOMAIN c.text : \A s \in c.text[i] \cap Statements :
              Business.found[s] \subseteq c.terms

MaxRecentConcepts == 4

Nobody == [role |-> None, authority |-> None, objection |-> None,
           solution |-> None, pain |-> FALSE, timing |-> None,
           nextStep |-> None, busy |-> None, interested |-> None,
           human |-> None,
           inferred |-> [role |-> None, authority |-> None,
                         objection |-> None, nextStep |-> None]]

NewCall ==
    [id |-> 1, campaign |-> Business.campaign, stage |-> "opening",
     about |-> Nobody, problem |-> NoProblem, recent |-> <<>>, prior |-> None,
     turns |-> 0, calls |-> 0, eligible |-> Business.eligible, offered |-> {},
     contact |-> None, confirmed |-> FALSE, greeting |-> TRUE, over |-> FALSE]

\* The context a call starts with comes from the caller of the processor: with
\* a contact that is confirmed already, or without any.
ReplyInit ==
    /\ phase = "hear"
    /\ call \in {NewCall,
                 [NewCall EXCEPT !.contact = "email", !.confirmed = TRUE]}
    /\ turn = None /\ reply = None /\ asked = <<>>

---------------------------------------------------------------------------
(* What the processor passes on.                                            *)

\* The call with what the context of the turn shows of it.
Seen(c, view) ==
    [c EXCEPT !.offered = view.offered, !.eligible = view.eligible,
              !.contact = view.contact, !.confirmed = view.confirmed]

\* The budget of a turn is read before it starts.  The seconds never run.
BudgetState(c) ==
    LET left(limit, used) == IF limit > used THEN limit - used ELSE 0
    IN  [turns |-> left(Policies.budget.turns, c.turns),
         seconds |-> Policies.budget.seconds,
         calls |-> left(Policies.budget.calls, c.calls),
         sentences |-> Policies.budget.sentences]

StrategyInput(c, t) ==
    [stage |-> c.stage, greeting |-> c.greeting, category |-> t.category,
     pending |-> t.pending, about |-> c.about, hint |-> t.hint, told |-> {},
     satisfied |-> {}, step |-> None]

\* Without a service or a fact to look up, a question is a request for a fact
\* nothing can match.
EscalationRequest(t) ==
    [kind |-> CASE t.category = "clarification" -> "ambiguous"
                [] t.category = "question" -> "fact"
                [] OTHER -> "none",
     key |-> t.key, type |-> None, service |-> t.service, followUp |-> None,
     restricted |-> FALSE]

EscalationFacts(c, t) ==
    [pending |-> t.pending, capabilities |-> Business.capabilities,
     contact |-> ContactStatus(c), campaign |-> c.campaign,
     evidence |-> ContextEvidence(Business.evidence, c),
     wishes |-> {w \in {"end", "human"} :
                    IF w = "end" THEN c.about.nextStep = "end_conversation"
                    ELSE c.about.human = TRUE}]

Shop(c) ==
    [rules |-> Business.rules, authorized |-> Business.authorized,
     eligible |-> EligibleServices(c), offered |-> OfferedServices(c),
     evidence |-> ContextEvidence(Business.evidence, c),
     campaign |-> c.campaign]

\* The need a category has, shaped by how the person heard it before.
ExplanationNeed(t) ==
    CASE t.strategy \in {"simplify", "concise_recap"} -> "simple"
      [] t.strategy = "deepen" -> "complex"
      [] t.strategy = "full_re_explain" -> "standard"
      [] OTHER -> IF t.category \in {"question", "objection"} THEN "standard"
                  ELSE "simple"

PlanInput(now) ==
    LET t == now.heard
    IN  [addressee |-> t.addressee, category |-> t.category,
         interrupted |-> t.interrupted, pending |-> t.pending,
         result |-> now.result, action |-> now.action,
         need |-> ExplanationNeed(t), strategy |-> t.strategy, ack |-> None,
         escalation |-> now.escalation, consultative |-> now.consultative,
         guidance |-> now.guidance]

\* A priority outcome has a fact of its own, every other turn the state of
\* the contact; evidence only for an answer that cites it.
RenderInput(c, now, plan) ==
    LET priority == now.heard.priority
    IN  [plan |-> plan, addressee |-> now.heard.addressee,
         escalation |-> now.escalation, result |-> now.result,
         consultative |-> now.consultative, answer |-> now.answer,
         guided |-> now.guidance # None,
         contact |-> IF priority # None \/ c.contact = None THEN "none"
                     ELSE IF c.confirmed THEN "confirmed" ELSE "unconfirmed",
         facts |-> CASE priority = "dnc" -> <<"optout_recorded">>
                     [] priority = "not_interested" -> <<"not_continuing">>
                     [] OTHER -> <<>>,
         evidence |-> IF now.escalation = None THEN {}
                      ELSE {i \in ContextEvidence(Business.evidence,
                                                  Seen(c, now.view)) :
                                i.id \in now.escalation.cites},
         covers |-> Business.covers, disclose |-> FALSE,
         budget |-> Policies.budget.sentences, roman |-> FALSE]

---------------------------------------------------------------------------
(* The steps of a turn.                                                     *)

\* A trusted priority teaches nothing.  What a supervisor found comes first,
\* before there is a context of the turn.
Briefed(c, t) ==
    IF t.priority # None THEN c
    ELSE [c EXCEPT !.about = Merged(@, t.insight)]

\* A new person starts with nothing known.  What was understood of an utterance
\* is taken only when it was addressed to the agent; what the providers note of
\* the prospect and of the problem always.
Learned(c, t) ==
    LET person == IF t.newPerson THEN Nobody ELSE Briefed(c, t).about
        heard == IF t.addressee = "agent" THEN Merged(person, t.said)
                 ELSE person
    IN  IF t.priority # None THEN c
        ELSE [c EXCEPT
                !.about = Merged(heard, t.noted),
                !.problem = IF t.problem = None THEN @
                            ELSE UpdatedProblem(@, t.problem)]

\* Evidence that contradicts itself: no context is built, and the turn fails
\* with what a supervisor found and nothing else.
Refuse(t) ==
    /\ phase = "hear" /\ ~call.over
    /\ ContradictsItself(Business.evidence, call)
    /\ call' = Briefed(call, t)
    /\ reply' = IF reply = None THEN None ELSE [reply EXCEPT !.text = <<>>]
    /\ UNCHANGED <<phase, turn, asked>>

\* A turn that nothing has been decided about but the sales advice.
Begun(t, advice) ==
    [heard |-> t, advice |-> advice, result |-> None, action |-> None,
     scope |-> None, tier |-> None, view |-> None, proposal |-> None,
     escalation |-> None, consultative |-> None, answer |-> None,
     guidance |-> None]

Hear(t) ==
    /\ phase = "hear" /\ ~call.over
    /\ call.turns < MaxTurns
    /\ ~ContradictsItself(Business.evidence, call)
    /\ call' = Learned(call, t)
    /\ turn' = Begun(t, IF t.priority # None THEN None
                        ELSE Recommended(StrategyInput(call', t)))
    /\ phase' = "decide" /\ reply' = None
    /\ UNCHANGED asked

\* Actions that are resolved together with what was said of the contact: the
\* engine takes the one that the resolution calls for.
ContactActions == {"ask_email", "confirm_contact", "clarify_contact"}

\* The actions an executed proposal may turn into.
Takes(action) ==
    IF action \in ContactActions
    THEN {action, "confirm_contact", "clarify_contact"} ELSE {action}

\* What the engine makes of an action it is given: the action, a recovery, or
\* nothing at all.
Outcomes(decision, priority, proposal, executes) ==
    IF executes THEN Takes(proposal.action)
    ELSE IF priority = "dnc" THEN {"mark_dnc"}
    ELSE IF priority # None \/ Executable(decision) THEN Recoveries \cup {None}
    ELSE {None}

\* The actions that end a call always, and those that end it from some states.
Ending == {"end_call", "mark_dnc"}
MayEnd == Ending \cup {"confirm_contact", "schedule_callback"}

\* What the engine leaves in the context of the call, a recovery included: a
\* contact is first a candidate and is confirmed by the action that ends the
\* call with it, an offer is remembered.
AfterAction(c, proposal, executes, action, keeps) ==
    LET confirms == executes /\ action = "confirm_contact"
        offers == executes /\ action = "offer_service"
    IN  [c EXCEPT
            !.contact = IF keeps \/ confirms THEN "email" ELSE @,
            !.confirmed = @ \/ (confirms /\ c.over),
            !.offered = IF offers
                        THEN @ \cup ({proposal.offers} \cap Business.authorized)
                        ELSE @]

\* The context of the turn is built before the Brain is asked.
View(c) == [offered |-> c.offered, eligible |-> c.eligible,
            contact |-> c.contact, confirmed |-> c.confirmed]

\* The stage advised is taken whatever comes of the turn.  A contact that was
\* understood but whose confirmation was refused stays a candidate.
Decide(proposal, executes, action, keeps, ends) ==
    LET priority == turn.heard.priority
        decision == Decided(priority, BudgetState(call), proposal, Policies)
        result == ResultKind(decision, executes)
        c == [call EXCEPT
                !.stage = IF turn.advice = None THEN @ ELSE turn.advice.stage,
                !.turns = @ + 1,
                !.calls = @ + (IF decision.reasoned THEN 1 ELSE 0),
                !.greeting = @ /\ action \in {None, "greet"},
                !.over = ends]
    IN  /\ phase = "decide"
        /\ executes => Executable(decision)
        /\ action \in Outcomes(decision, priority, proposal, executes)
        /\ keeps => /\ Executable(decision) /\ ~executes
                    /\ proposal.action \in ContactActions
        /\ action \in Ending => ends
        /\ ends => /\ action \in MayEnd
                   /\ action = "confirm_contact" => call.contact # None
        /\ call' = AfterAction(c, proposal, executes, action, keeps)
        /\ turn' = [turn EXCEPT
                !.result = result, !.scope = decision.scope,
                !.tier = decision.tier, !.view = View(call),
                !.proposal = IF priority # None THEN None ELSE proposal,
                !.action = action]
        /\ phase' = "consult"
        /\ UNCHANGED <<reply, asked>>

ConsultInput(c, t, fit, signals) ==
    [addressee |-> t.addressee, category |-> t.category, pending |-> t.pending,
     about |-> c.about, problem |-> c.problem, fit |-> fit, stage |-> c.stage,
     signals |-> signals]

\* The fit the decision carries; without one, nothing is known.
FitOf(decision) ==
    IF decision.fit # None THEN decision.fit
    ELSE Fit("insufficient_context", None, {}, {})

CognitionInput(c, t, decision, mood) ==
    [about |-> c.about, meaningful |-> Meaningful(c.problem),
     process |-> c.problem.texts["process"],
     impact |-> c.problem.texts["impact"],
     outcome |-> c.problem.texts["outcome"], fit |-> FitOf(decision),
     gap |-> decision.gap, depth |-> decision.depth, recent |-> c.recent,
     prior |-> c.prior, returning |-> c.turns > 1,
     signals |-> mood \cup
        (CASE t.category = "clarification" -> {"confused"}
           [] t.category = "objection" -> {"skeptical"}
           [] t.category = "correction" -> {"correction"}
           [] OTHER -> {})]

\* The escalation policy, the consultative engine and the sales cognition see
\* the context of the turn; a priority turn is none of their business.
Consult(signals, mood) ==
    LET t == turn.heard
        c == Seen(call, turn.view)
        fit == ServiceFit(c.problem, Shop(c))
        decision == Consulted(ConsultInput(c, t, fit, signals))
    IN  /\ phase = "consult"
        /\ t.priority # None => signals = {} /\ mood = {}
        /\ turn' = IF t.priority # None THEN turn
                   ELSE [turn EXCEPT
                    !.escalation = Escalated(EscalationFacts(c, t),
                                             EscalationRequest(t),
                                             turn.scope, turn.tier),
                    !.consultative = decision,
                    !.answer = ServiceAnswer(fit, Shop(c)),
                    !.guidance = Guided(CognitionInput(c, t, decision,
                                                       mood))]
        /\ phase' = "speak"
        /\ UNCHANGED <<call, reply, asked>>

\* Mutant: only the last concept is kept.
OnlyLastConcept(recent, guidance, plan) ==
    IF guidance = None \/ plan.question = None THEN recent
    ELSE IF guidance.focus = None THEN recent ELSE <<guidance.focus>>

\* A concept counts as asked when the plan asks anything at all.
Concepts(recent, guidance, plan) ==
    LET longer == Append(recent, guidance.focus)
        n == Len(longer)
    IN  IF guidance = None \/ plan.question = None THEN recent
        ELSE IF guidance.focus = None THEN recent
        ELSE SubSeq(longer, IF n > MaxRecentConcepts THEN 2 ELSE 1, n)

\* The one question of a turn was put.
Asks(now, words) ==
    /\ \E i \in DOMAIN words : "discovery_question" \in words[i]
    /\ now.guidance # None /\ now.guidance.focus # None
    /\ now.consultative.policy = "one_primary"

\* The plan, its words, and what is kept of them.  A terminal turn's question
\* is taken out of the plan after the words are rendered.
Respond(candidate) ==
    LET plan == Plan(PlanInput(turn))
        input == RenderInput(call, turn, plan)
        words == Framed(Realized(candidate, input), turn.heard.strategy)
    IN  /\ phase = "speak"
        /\ candidate # None => MayRealize(input)
        /\ call' = [call EXCEPT
                        !.recent = Concepts(@, turn.guidance, plan),
                        !.prior = turn.guidance]
        /\ asked' = IF Asks(turn, words)
                    THEN Append(asked, [concept |-> turn.guidance.focus,
                                        turn |-> call.turns])
                    ELSE asked
        /\ reply' = [text |-> words, worded |-> Accepted(candidate, input),
                     goal |-> plan.goal,
                     question |-> IF call.over THEN None ELSE plan.question,
                     result |-> turn.result, proposal |-> turn.proposal,
                     addressee |-> turn.heard.addressee,
                     service |-> turn.heard.service, view |-> turn.view,
                     over |-> call.over]
        /\ turn' = None
        /\ phase' = "hear"

ReplyNext ==
    \/ \E t \in Heard : Refuse(t)
    \/ \E t \in Heard : Hear(t)
    \/ \E p \in Proposals, executes, keeps, ends \in BOOLEAN,
          action \in UNION {Takes(q.action) : q \in Proposals}
                     \cup Recoveries \cup {None, "mark_dnc"} :
          Decide(p, executes, action, keeps, ends)
    \/ \E s \in Signals, m \in Moods : Consult(s, m)
    \/ \E c \in Candidates : Respond(c)

ReplySpec == ReplyInit /\ [][ReplyNext]_replyVars

---------------------------------------------------------------------------
(* What must hold.                                                          *)

\* Whatever the path - an escalated answer or an explanation of fit - a
\* statement in the agent's own reply is one of the approved ones that the
\* context of that turn showed, applies to the service the caller asked about
\* or to the one that fits, and no item in sight that applies to it too says
\* otherwise of the same fact.  In a provider's wording only the terms are
\* sure: what a statement asserts or counts is in the text of such an item,
\* though a number may stand there for something else
\* (escalation/policy.py, service_relevance.py, realizer.py,
\* realization/validator.py:106-116).
EvidenceOnly ==
    reply # None =>
        LET c == Seen(call, reply.view)
            fit == ServiceFit(c.problem, Shop(c))
            seen == ContextEvidence(Business.evidence, c)
            holds(item, service) ==
                /\ ScopeMatches(item, c.campaign, service)
                /\ \A other \in seen :
                      /\ other.key = item.key
                      /\ ScopeMatches(other, c.campaign, service)
                      => other.statement = item.statement
            approved(item) == \E service \in {reply.service, fit.service} :
                                 holds(item, service)
        IN  \A i \in DOMAIN reply.text :
                \A s \in reply.text[i] \cap Statements :
                    IF reply.worded
                    THEN \A term \in Business.found[s] :
                            \E item \in seen :
                                /\ term \in Business.covers[item.statement]
                                /\ approved(item)
                    ELSE \E item \in seen : item.statement = s /\ approved(item)

\* What a proposal needs to be executed: its topic and action in scope, both
\* its own tier and its request's one that lets the agent act without asking,
\* and no bound that nobody enforces.
Permitted(p) ==
    LET free == {"auto_execute", "policy_bounded"}
        authority == Policies.authority
        own == AuthorityOf(p.action, None, authority)
    IN  /\ p.topic \in Policies.scope.topics \ Policies.scope.restricted
        /\ p.action \in Policies.scope.actions
        /\ own \in free
        /\ p.request # None =>
              LET requested == CommercialTier(p.request, authority)
              IN  /\ requested \in free
                  /\ "policy_bounded" \in {own, requested} =>
                        /\ p.request.kind # "pricing_disclosure"
                        /\ p.request.kind = "discount" =>
                              authority.discount = None

\* Nothing is executed that is not permitted; no turn says more than the
\* campaign's sentences and no call reasons more often than it may, whoever
\* worded what (orchestrator.py:520-687, renderer.py, realizer.py).
NothingBeyondAuthority ==
    /\ call.calls <= Policies.budget.calls
    /\ reply # None =>
          /\ Len(reply.text) <= Policies.budget.sentences
          /\ reply.result = "executed" => Permitted(reply.proposal)

\* The agent's own words offer a follow-up only when the campaign has the
\* capability, and one in writing only to a contact that was confirmed before
\* the turn (escalation/policy.py).  Nothing reads a provider's words for an
\* offer.
OfferIsBacked ==
    (reply # None /\ ~reply.worded) =>
        LET says(clause) == \E i \in DOMAIN reply.text : clause \in reply.text[i]
            has(c) == c \in Business.capabilities
        IN  /\ says("may_request_human") => has("human_handoff")
            /\ says("may_request_callback") => has("callback")
            /\ says("may_request_information") =>
                  \/ has("technical_review")
                  \/ has("email") /\ reply.view.confirmed

\* A discovery question is not put again within the next few turns, whatever
\* was learned or left open in between, and the guidance that chose it is never
\* one its own validator would fail the turn for
\* (sales_cognition/engine.py:158-174, sales_cognition/validator.py,
\* production_turn_processor.py:1087-1095).
NoQuestionTwice ==
    /\ \A i, j \in DOMAIN asked :
          i < j /\ asked[j].turn - asked[i].turn <= MaxRecentConcepts
              => asked[i].concept # asked[j].concept
    /\ (turn # None /\ phase = "speak") =>
          (turn.guidance # None =>
              ValidGuidance(turn.guidance,
                            [recent |-> call.recent,
                             fit |-> FitOf(turn.consultative)]))

StageRank == [opening |-> 0, discovery |-> 1, qualification |-> 2,
              value_exploration |-> 2, next_step |-> 3]

\* The conversation never falls back to an earlier stage of the sale: not by a
\* detour, not by an objection, not by forgetting (strategy/engine.py:38-252).
StageNeverBack ==
    [][StageRank[call'.stage] >= StageRank[call.stage]]_replyVars
=============================================================================
