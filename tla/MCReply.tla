------------------------------- MODULE MCReply -------------------------------
(* A campaign with two services and contradictory evidence on one fact, and   *)
(* the turns of a caller who learns, objects, asks, wants a human or an end.  *)
EXTENDS Reply, TLC

Item(id, key, scope, of, statement) ==
    [id |-> id, key |-> key, scope |-> scope, of |-> of,
     statement |-> statement, type |-> "service_description"]

MCBusiness ==
    [campaign |-> "c1", authorized |-> {"s1", "s2"}, eligible |-> {"s1"},
     capabilities |-> {"email"},
     found |-> [price_a |-> {"50"}, price_b |-> {"60"},
                fit_text |-> {"automates"}, hours_text |-> {"9"},
                terms_a |-> {"12"}, terms_b |-> {"24"}],
     covers |-> [price_a |-> {"50", "5", "0"}, price_b |-> {"60", "6", "0"},
                 fit_text |-> {"automates", "500", "50"},
                 hours_text |-> {"9"}, terms_a |-> {"12"},
                 terms_b |-> {"24"}],
     rules |-> {[service |-> "s1", categories |-> {"manual"},
                 required |-> {"current_process"}, facts |-> {"fit"}]},
     evidence |-> {Item(1, "price", "global", None, "price_a"),
                   Item(2, "price", "campaign", "c1", "price_b"),
                   Item(3, "fit", "service", "s1", "fit_text"),
                   Item(4, "hours", "global", None, "hours_text"),
                   Item(5, "terms", "service", "s2", "terms_a"),
                   Item(6, "terms", "service", "s2", "terms_b")}]

MCPolicies ==
    [scope |-> [topics |-> {"sales"}, restricted |-> {"legal"},
                actions |-> {"confirm_contact", "offer_service", "end_call"},
                escalation |-> {}],
     authority |->
        [default |-> "denied", disclosure |-> None,
         discount |-> [max |-> 10, within |-> "policy_bounded",
                       over |-> "human_approval_required"],
         actions |-> [confirm_contact |-> "auto_execute",
                      offer_service |-> "auto_execute",
                      end_call |-> "auto_execute"],
         commercial |-> [trial |-> "auto_execute"]],
     budget |-> [turns |-> 3, seconds |-> 60, calls |-> 2, sentences |-> 3]]

Utterance ==
    [category |-> "other", addressee |-> "agent", interrupted |-> FALSE,
     pending |-> FALSE, priority |-> None, said |-> <<>>, problem |-> None,
     key |-> None, service |-> None, strategy |-> None, insight |-> <<>>,
     hint |-> None, newPerson |-> FALSE, noted |-> <<>>]

About(texts) ==
    [category |-> "manual", explicit |-> TRUE, correction |-> FALSE,
     texts |-> [t \in ProblemTexts |-> IF t \in texts THEN "said" ELSE None]]

MCHeard ==
    {[Utterance EXCEPT !.problem = About({"description"})],
     [Utterance EXCEPT !.problem = About({"process"}), !.interrupted = TRUE,
                       !.pending = TRUE],
     [Utterance EXCEPT !.category = "clarification",
                       !.said = [interested |-> TRUE, role |-> "owner"]],
     [Utterance EXCEPT !.said = [busy |-> TRUE], !.category = "objection"],
     [Utterance EXCEPT !.said = [nextStep |-> "end_conversation"]],
     [Utterance EXCEPT !.category = "question", !.key = "price"],
     [Utterance EXCEPT !.category = "question", !.key = "hours",
                       !.strategy = "deepen"],
     [Utterance EXCEPT !.category = "correction",
                       !.said = [solution |-> "unknown"],
                       !.problem = [About({}) EXCEPT !.correction = TRUE],
                       !.strategy = "concise_recap"],
     [Utterance EXCEPT !.addressee = "other", !.said = [busy |-> TRUE],
                       !.newPerson = TRUE, !.noted = [interested |-> TRUE]],
     [Utterance EXCEPT !.said = [human |-> TRUE],
                       !.insight = [role |-> "manager"],
                       !.hint = "discover_business_impact"],
     [Utterance EXCEPT !.addressee = "uncertain", !.pending = TRUE],
     [Utterance EXCEPT !.priority = "dnc", !.category = "question"],
     [Utterance EXCEPT !.priority = "not_interested", !.category = "objection"]}

Proposal(action, request) ==
    [answer |-> "valid", action |-> action, topic |-> "sales",
     request |-> request, offers |-> "s2"]

MCProposals ==
    {[Proposal(None, None) EXCEPT !.answer = "fails"],
     [Proposal("end_call", None) EXCEPT !.topic = "legal"],
     Proposal("offer_service", None),
     Proposal("confirm_contact", [kind |-> "discount", percent |-> 5]),
     Proposal("confirm_contact", [kind |-> "discount", percent |-> 20]),
     Proposal("confirm_contact", [kind |-> "trial", percent |-> None])}

MCRecoveries == {"ask_identity", "confirm_contact", "end_call"}

MCSignals == {{}, {"buying_signal", "commercial_purpose_question"}}

MCMoods == {{"curious"}}

Words(text, marks, terms) ==
    [text |-> text, marks |-> marks, terms |-> terms, fillers |-> 0]

MCCandidates ==
    {None,
     Words(<<{"fit_text", "price_a"}>>, {"offer"}, {"automates", "50"}),
     Words(<<{"may_request_callback"}, {"discovery_question"}>>, {}, {}),
     Words(<<{"hours_text"}>>, {}, {"9"})}
=============================================================================
