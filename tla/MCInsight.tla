------------------------------ MODULE MCInsight ------------------------------
(* A business with a website and a workflow, of which a turn may say nothing, *)
(* one thing, or take the website back, and a prospect in five moods.         *)
EXTENDS Insight

Nothing == [facts |-> <<>>, problems |-> <<>>, unknown |-> {},
            corrections |-> {}]
Fact(kind, value) == [Nothing EXCEPT !.facts = <<[kind |-> kind, value |-> value]>>]

MCValues == {"old", "new", "by hand", "paper", "some", "lost"}

MCEvidence ==
    {Nothing, Fact("website", "old"), Fact("website", "new"),
     Fact("reporting", "by hand"),
     [Fact("current_workflow", "paper") EXCEPT !.unknown = {"crm"}],
     [Fact("crm", "some") EXCEPT !.corrections = {"website"}],
     [Nothing EXCEPT !.problems = <<[kind |-> "follow_ups", value |-> "lost"]>>]}

\* What the prospect told of a problem of their own.
Problem(texts) == [meaningful |-> "description" \in texts,
                   impact |-> "impact" \in texts]

Mood(mode, busy, objection, interested, interest) ==
    [mode |-> mode, interest |-> interest, role |-> None,
     qualification |-> <<>>, problem |-> Problem({}),
     prospect |-> [busy |-> busy, objection |-> objection,
                   interested |-> interested]]

Owner == [value |-> "owner", turn |-> 1, observed |-> TRUE]

MCAttitudes ==
    {[Mood("normal", FALSE, None, None, None)
         EXCEPT !.problem = Problem({"description"})],
     [Mood("busy", TRUE, "no_time", None, None)
         EXCEPT !.problem = Problem({"description", "impact"})],
     [Mood("objection", FALSE, "already_have_provider", None, None)
         EXCEPT !.qualification = <<[state |-> "inferred", value |-> "small"]>>],
     [Mood("question_detour", FALSE, None, TRUE, "strong")
         EXCEPT !.role = Owner, !.problem = Problem({"impact"}),
                !.qualification = <<[state |-> "observed", value |-> "large"]>>],
     Mood("normal", FALSE, "none", FALSE, None)}

MCPlaybooks ==
    {[service |-> 1, industries |-> {}, solves |-> {"website_exists"},
      topics |-> <<"current_website", "business_goal">>, qualifying |-> {},
      buying |-> {}, answers |-> {}, future |-> <<3, 2>>, priority |-> 2],
     [service |-> 2, industries |-> {"retail"},
      solves |-> {"manual_workflow", "website_exists"},
      topics |-> <<"current_workflow">>, qualifying |-> {"pain_confirmed"},
      buying |-> {"asked"}, answers |-> {"no_time"}, future |-> <<1>>,
      priority |-> 1],
     [service |-> 3, industries |-> {"health"}, solves |-> {"website_exists"},
      topics |-> <<"current_website">>, qualifying |-> {}, buying |-> {},
      answers |-> {}, future |-> <<>>, priority |-> 1]}

MCEligible == {1, 2}

MCKnown(heard) ==
    [industry |-> "retail",
     situations |-> (IF "website" \in Kinds(heard.facts)
                     THEN {"website_exists"} ELSE {})
                    \cup (IF "current_workflow" \in Kinds(heard.facts)
                          THEN {"manual_workflow"} ELSE {}),
     known |-> (IF "website" \in Kinds(heard.facts)
                THEN {"current_website"} ELSE {})
               \cup (IF "current_workflow" \in Kinds(heard.facts)
                     THEN {"current_workflow"} ELSE {}),
     qualifying |-> IF heard.problems # <<>> THEN {"pain_confirmed"} ELSE {},
     buying |-> IF "crm" \in Kinds(heard.facts) THEN {"asked"} ELSE {},
     existing |-> {3}, noFit |-> FALSE,
     ambiguous |-> "reporting" \in Kinds(heard.facts)]
=============================================================================
