----------------------------- MODULE MCCallMemory -----------------------------
(* A call in which two or three people speak about two concepts. *)
EXTENDS CallMemory

MCCampaign == [id |-> 1, fields |-> {"timeline", "budget"},
               mandatory |-> {"timeline"}]

Urdu == [main |-> "ur", preferred |-> "en"]

MCUnheard == [main |-> "none", preferred |-> "none"]

MCLanguages == {MCUnheard, Urdu, [Urdu EXCEPT !.preferred = "none"]}

Plain == [priority |-> FALSE, understood |-> TRUE, language |-> MCUnheard,
          speaker |-> "none", role |-> "unknown", stated |-> {},
          pain |-> FALSE, solution |-> "absent", inferred |-> {},
          facts |-> {}, problems |-> {}, unknown |-> {}, corrections |-> {},
          qualified |-> NothingObserved(MCCampaign), amended |-> {},
          intent |-> "none", concept |-> NoConcept]

\* The owner says who he is and what he does, in his language.
Introduction == [Plain EXCEPT !.speaker = "self_identification",
                              !.role = "owner", !.stated = {"role"},
                              !.inferred = {"objection"}, !.language = Urdu,
                              !.intent = "unreadable", !.concept = "crm"]

\* Somebody else takes the line.
Handoff == [Plain EXCEPT !.speaker = "handoff", !.inferred = {"role"}]

\* He asks what the owner was told.
Question == [Plain EXCEPT !.intent = "direct_question", !.concept = "crm"]

\* An objection, a pain and facts about the business.
Objection == [Plain EXCEPT !.stated = {"objection"}, !.pain = TRUE,
                           !.facts = {"software", "branches"},
                           !.unknown = {"current_software"},
                           !.qualified["timeline"] =
                               [state |-> "observed", value |-> 1]]

\* A correction and a guess at a field that was answered.
Correction == [Plain EXCEPT !.speaker = "correction",
                            !.facts = {"branches"}, !.corrections = {"software"},
                            !.solution = "rated",
                            !.qualified["timeline"] =
                                [state |-> "inferred", value |-> 2],
                            !.amended = {"timeline"}]

\* Do not call; the question in it is answered all the same.
OptOut == [Plain EXCEPT !.priority = TRUE, !.concept = "erp"]

MCUtterances == {Introduction, Handoff, Question, Objection, Correction,
                 OptOut}

MCAnalyses == {{"role", "pain"}}
=============================================================================
