------------------------- MODULE BusinessConversation -------------------------
(***************************************************************************)
(* What the call has learned about the prospect's business                 *)
(* (conversation/business_conversation), shared by everyone who speaks in  *)
(* it: facts and problems, one current observation per kind, the replaced  *)
(* ones archived, and the root causes they suggest.                        *)
(***************************************************************************)
EXTENDS Naturals, Sequences

FactKinds == {"industry", "business_type", "branches", "employees",
              "current_workflow", "manual_step", "software", "integration",
              "reporting", "communication", "website", "crm"}

ProblemKinds == {"operational", "technical", "marketing", "sales", "financial",
                 "customer_experience", "time", "quality", "errors",
                 "follow_ups"}

UnknownAreas == {"order_volume", "current_software", "reporting_process",
                 "decision_maker", "inventory", "billing", "crm",
                 "integrations"}

RootCauses == {"manual_dependency", "process_gap", "no_central_system",
               "reporting_gap"}

MaxKept == 24

Findings(Kinds) == [kind : Kinds, source : Nat]

Businesses == [facts : Seq(Findings(FactKinds)),
               problems : Seq(Findings(ProblemKinds)),
               unknown : SUBSET UnknownAreas, causes : SUBSET RootCauses,
               archivedFacts : Seq(Findings(FactKinds)),
               archivedProblems : Seq(Findings(ProblemKinds))]

NoBusiness == [facts |-> <<>>, problems |-> <<>>, unknown |-> {},
               causes |-> {}, archivedFacts |-> <<>>, archivedProblems |-> <<>>]

-----------------------------------------------------------------------------

Latest(s) == IF Len(s) <= MaxKept THEN s
             ELSE SubSeq(s, Len(s) - MaxKept + 1, Len(s))

Kinds(s) == {s[i].kind : i \in DOMAIN s}

\* The observations of some kinds, in their order.
OfKinds(s, kinds) ==
    LET kept[i \in 0..Len(s)] ==
            IF i = 0 THEN <<>>
            ELSE IF s[i].kind \in kinds THEN Append(kept[i - 1], s[i])
            ELSE kept[i - 1]
    IN  kept[Len(s)]

\* The last observation of each kind, in the order the kinds came up.
LastPerKind(s) ==
    LET latest[i \in 0..Len(s)] ==
            IF i = 0 THEN <<>>
            ELSE IF s[i].kind \notin Kinds(latest[i - 1])
            THEN Append(latest[i - 1], s[i])
            ELSE [k \in DOMAIN latest[i - 1] |->
                    IF latest[i - 1][k].kind = s[i].kind THEN s[i]
                    ELSE latest[i - 1][k]]
    IN  latest[Len(s)]

Affected(incoming, corrections) == Kinds(incoming) \cup corrections

Reconcile(current, incoming, corrections) ==
    Latest(OfKinds(current, Kinds(current) \ Affected(incoming, corrections))
               \o LastPerKind(incoming))

Archive(archived, current, incoming, corrections) ==
    Latest(archived \o OfKinds(current, Affected(incoming, corrections)))

KnownAreas(facts) ==
    {area \in UnknownAreas :
        \E k \in Kinds(facts) : <<k, area>> \in
            {<<"crm", "crm">>, <<"software", "current_software">>,
             <<"reporting", "reporting_process">>,
             <<"integration", "integrations">>}}

Hypotheses(facts, problems) ==
    LET known == Kinds(facts)
        trouble == Kinds(problems)
    IN {cause \in RootCauses :
           CASE cause = "manual_dependency" ->
                    known \cap {"manual_step", "current_workflow"} # {}
             [] cause = "process_gap" ->
                    trouble \cap {"errors", "follow_ups"} # {}
             [] cause = "no_central_system" ->
                    {"branches", "current_workflow"} \subseteq known
             [] cause = "reporting_gap" ->
                    "reporting" \notin known /\ "operational" \in trouble}

\* Goals, constraints, focus and the pending topic accumulate in the same way
\* and are left out.
UpdateBusiness(prior, facts, problems, unknown, corrections) ==
    LET nowFacts    == Reconcile(prior.facts, facts, corrections)
        nowProblems == Reconcile(prior.problems, problems, corrections)
    IN [facts    |-> nowFacts,
        problems |-> nowProblems,
        unknown  |-> (prior.unknown \cup unknown) \ KnownAreas(nowFacts),
        causes   |-> Hypotheses(nowFacts, nowProblems),
        archivedFacts |->
            Archive(prior.archivedFacts, prior.facts, facts, corrections),
        archivedProblems |->
            Archive(prior.archivedProblems, prior.problems, problems,
                    corrections)]
=============================================================================
