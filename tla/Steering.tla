------------------------------ MODULE Steering ------------------------------
(* BusinessDiagnosticEngine.diagnose: what the facts and problems of a        *)
(* business say of it, and what to understand next; it sees kinds alone.      *)
(* Then the steering and the mental model that are made of the diagnosis.     *)
EXTENDS BusinessConversation, Python, Integers, FiniteSets, SequencesExt

CONSTANTS Limit   \* GraphLimits.max_archived_items

LimitAssumption == Limit \in Nat \ {0}

ASSUME LimitAssumption

\* The facts that show a capability, in the order they are looked for.
ShowsArea == <<"website", "crm", "reporting", "current_workflow", "manual_step">>

AreaShown == [website |-> "online_presence", crm |-> "crm",
              reporting |-> "reporting", current_workflow |-> "workflow",
              manual_step |-> "workflow"]

FindingAreas(facts) ==
    LET shown == Only(ShowsArea, {i \in DOMAIN ShowsArea :
                                     ShowsArea[i] \in Kinds(facts)})
    IN  [i \in DOMAIN shown |-> AreaShown[shown[i]]]

AreaUnknown == [crm |-> "crm", reporting_process |-> "reporting",
                order_volume |-> "lead_tracking"]

GapAreas(unknown) == {AreaUnknown[u] : u \in unknown \cap DOMAIN AreaUnknown}

DiagnosedCauses(facts, problems) ==
    {cause \in {"manual_dependency", "process_gap", "centralization_gap"} :
        CASE cause = "manual_dependency" -> "manual_step" \in Kinds(facts)
          [] cause = "process_gap" ->
                 Kinds(problems) \cap {"errors", "follow_ups"} # {}
          [] OTHER -> {"branches", "current_workflow"} \subseteq Kinds(facts)}

\* What to understand next: the first that applies.
Focus(facts, problems) ==
    IF "follow_ups" \in Kinds(problems) THEN "lead_management"
    ELSE IF \/ Kinds(facts) \cap {"manual_step", "current_workflow"} # {}
            \/ "errors" \in Kinds(problems) THEN "workflow"
    ELSE IF "website" \in Kinds(facts) THEN "website_performance"
    ELSE IF "reporting" \in Kinds(facts) THEN "reporting"
    ELSE "business_context"

Maturity(facts) ==
    LET digital == Cardinality(Kinds(facts) \cap {"website", "crm", "reporting"})
    IN  IF digital = 0 THEN "unknown"
        ELSE <<"early_digital", "growing", "optimizing">>[digital]

AreaOfProblem(kind) ==
    CASE kind \in {"follow_ups", "sales"} -> "lead_tracking"
      [] kind = "marketing" -> "online_presence"
      [] OTHER -> "workflow"

\* The first problem's area, else the first one shown.
PrimaryArea(problems, areas) ==
    IF problems # <<>> THEN AreaOfProblem(problems[1].kind)
    ELSE IF areas # <<>> THEN areas[1] ELSE None

Diagnosis(business) ==
    LET areas == FindingAreas(business.facts)
    IN  [maturity |-> Maturity(business.facts), areas |-> areas,
         gaps |-> GapAreas(business.unknown),
         causes |-> DiagnosedCauses(business.facts, business.problems),
         focus |-> Focus(business.facts, business.problems),
         primary |-> PrimaryArea(business.problems, areas)]

-----------------------------------------------------------------------------
(* ConversationSteeringEngine.steer: one priority to understand, and whether  *)
(* to ask about it.  What it remembers of a call is in its last snapshot.     *)

PriorityOfFocus == [website_performance |-> "website_performance",
                    lead_management |-> "lead_handling",
                    workflow |-> "workflow", reporting |-> "reporting",
                    business_context |-> "business_context"]

Priorities == {PriorityOfFocus[focus] : focus \in DOMAIN PriorityOfFocus}

NoCuriosity == [explored |-> {}, refused |-> {}, deferred |-> {},
                corrected |-> {}]

\* Mutant: a question that was asked is not remembered.
CuriosityForgets(business, prior, priority) ==
    IF prior = None THEN NoCuriosity ELSE prior.memory

\* A priority is explored once a question about it was asked and it is still
\* the priority; anything ever archived reopens the priority of every turn.
Curiosity(business, prior, priority) ==
    LET memory == IF prior = None THEN NoCuriosity ELSE prior.memory
        asked == prior # None /\ (prior # None => /\ prior.priority = priority
                                                 /\ prior.decision = "ask_one")
        archived == business.archivedFacts # <<>>
                    \/ business.archivedProblems # <<>>
    IN  [memory EXCEPT
            !.explored = @ \cup (IF asked THEN {priority} ELSE {}),
            !.corrected = @ \cup (IF archived THEN {priority} ELSE {})]

Tired(mode) == mode \in {"busy", "objection"}

Complete(memory, priority) ==
    priority \in memory.explored \ memory.corrected

QuestionDecision(memory, priority, mode) ==
    CASE priority \in memory.refused -> "ask_none"
      [] priority \in memory.deferred \ memory.refused -> "defer"
      [] OTHER -> IF Complete(memory, priority) THEN "ask_none"
                  ELSE IF Tired(mode) \/ mode = "question_detour"
                  THEN "wait_for_customer" ELSE "ask_one"

DiscoveryStatus(memory, priority, prior) ==
    CASE priority \in memory.refused -> "blocked"
      [] priority \in memory.deferred \ memory.refused -> "deferred"
      [] OTHER -> IF Complete(memory, priority) THEN "complete"
                  ELSE IF prior # None THEN "in_progress" ELSE "required"

Budget(memory, priority, mode) ==
    IF Complete(memory, priority) THEN "exhausted"
    ELSE IF Tired(mode) THEN "limited" ELSE "open"

Evolution(memory, priority, prior) ==
    CASE priority \in memory.refused -> "blocked"
      [] priority \in memory.deferred \ memory.refused -> "deferred"
      [] OTHER -> IF prior = None THEN "raised"
                  ELSE IF prior.priority # priority THEN "replaced"
                  ELSE IF Complete(memory, priority) THEN "lowered"
                  ELSE "unchanged"

Readiness(status) ==
    CASE status = "blocked" -> "no_action"
      [] status = "complete" -> "ready_for_playbook"
      [] OTHER -> "understand_more"

Steer(business, mode, prior) ==
    LET priority == PriorityOfFocus[Diagnosis(business).focus]
        memory == Curiosity(business, prior, priority)
        status == DiscoveryStatus(memory, priority, prior)
    IN  [priority |-> priority, memory |-> memory, status |-> status,
         pending |-> IF prior = None THEN None
                     ELSE IF prior.priority = priority THEN None
                     ELSE prior.priority,
         evolution |-> Evolution(memory, priority, prior),
         budget |-> Budget(memory, priority, mode),
         decision |-> QuestionDecision(memory, priority, mode),
         readiness |-> Readiness(status)]

\* ConversationPrioritySnapshot
Steerings ==
    [priority : Priorities,
     memory : [explored : SUBSET Priorities, refused : SUBSET Priorities,
               deferred : SUBSET Priorities, corrected : SUBSET Priorities],
     status : {"blocked", "deferred", "complete", "in_progress", "required"},
     pending : Priorities \cup {None},
     evolution : {"blocked", "deferred", "raised", "replaced", "lowered",
                  "unchanged"},
     budget : {"exhausted", "limited", "open"},
     decision : {"ask_none", "defer", "wait_for_customer", "ask_one"},
     readiness : {"no_action", "ready_for_playbook", "understand_more"}]

-----------------------------------------------------------------------------
(* BusinessMentalModelEngine.project: a star of nodes around the business,    *)
(* one for everything the other snapshots say now, and an archive of what     *)
(* they said before.  A node is known by its key; turns are numbers, 0 for    *)
(* what is not said in a turn.  Goals and constraints are never taken back,   *)
(* so their nodes are left out.                                               *)

Node(key, value, turn, observed) ==
    [key |-> key, value |-> value, created |-> turn, updated |-> turn,
     observed |-> observed]

Root == Node(<<"business">>, "business", 0, TRUE)

FindingNodes(name, findings) ==
    {Node(<<name, findings[i].kind>>, findings[i].value, findings[i].source, TRUE)
        : i \in DOMAIN findings}

\* The role of whoever speaks, what they said of it before what was guessed.
PersonNodes(role) ==
    IF role = None THEN {}
    ELSE {Node(<<"person">>, role.value, role.turn, role.observed)}

QualificationNodes(fields) ==
    {Node(<<"qualification", f>>, fields[f].value, 0,
          fields[f].state = "observed")
        : f \in {g \in DOMAIN fields : fields[g].state # "unknown"}}

UnknownNodes(gaps) == {Node(<<"unknown", area>>, area, 0, TRUE) : area \in gaps}

Candidates(business, role, fields) ==
    {Root} \cup FindingNodes("fact", business.facts)
           \cup FindingNodes("problem", business.problems)
           \cup PersonNodes(role) \cup QualificationNodes(fields)
           \cup UnknownNodes(Diagnosis(business).gaps)

NoModel == [nodes |-> {}, archived |-> <<>>, edges |-> {}, pastEdges |-> <<>>]

LastItems(s) == IF Len(s) <= Limit THEN s
                ELSE SubSeq(s, Len(s) - Limit + 1, Len(s))

\* Mutant: only a value that changed is archived, not one that is gone.
OutdatedChanged(nodes, candidates) ==
    {o \in nodes : \E n \in candidates : n.key = o.key /\ n.value # o.value}

\* The nodes that are gone or now say something else.
Outdated(nodes, candidates) ==
    {o \in nodes : ~\E n \in candidates : n.key = o.key /\ n.value = o.value}

\* A node that changed keeps the turn of the one before it; one that only was
\* said again does not.
Successor(n, outdated) ==
    LET before == {o \in outdated : o.key = n.key}
    IN  IF before = {} THEN n
        ELSE [n EXCEPT !.created = (CHOOSE o \in before : TRUE).created]

\* Every node but the business is part of it.
Edges(nodes) == {n.key : n \in nodes} \ {Root.key}

Project(business, role, fields, prior) ==
    LET candidates == Candidates(business, role, fields)
        outdated == Outdated(prior.nodes, candidates)
        nodes == {Successor(n, outdated) : n \in candidates}
    IN  [nodes |-> nodes, edges |-> Edges(nodes),
         archived |-> LastItems(prior.archived \o SetToSeq(outdated)),
         pastEdges |-> LastItems(prior.pastEdges
                           \o SetToSeq(prior.edges \ Edges(nodes)))]
=============================================================================
