---------------------------- MODULE MCChatCampaign ----------------------------
(* A file of five rows, two of which become leads - one that a provider       *)
(* contradicts, one that it knows nothing of - and two drivers.               *)
EXTENDS ChatCampaign

Unsaid == [f \in LeadFields |-> None]

Number(raw, number) == [raw |-> raw, number |-> number, readable |-> TRUE,
                        prefixed |-> FALSE]
Row(name, phone, website, fields) ==
    [name |-> name, phone |-> phone, website |-> website, fields |-> fields]

MCRows ==
    <<Row("a", Number("p1", "n1"), [address |-> TRUE],
          [Unsaid EXCEPT !["city"] = "x", !["category"] = "y"]),
      Row("b", None, None, Unsaid),
      Row("c", Number("p1 again", "n1"), None, Unsaid),
      Row("d", [Number("p2", None) EXCEPT !.readable = FALSE], None, Unsaid),
      Row("e", Number("p3", "n3"), None, Unsaid)>>

MCExisting == {"n3"}

MCEnrichment ==
    [l \in Leads_ |->
        IF l = 2 THEN [success |-> TRUE, website |-> None,
                       fields |-> [Unsaid EXCEPT !["city"] = "z",
                                                 !["email"] = "m"]]
        ELSE None]

MCPolicy ==
    [rules |-> {[service |-> "s1", required |-> {"location.city", "tools"},
                 optional |-> {"business.category"}]},
     required |-> <<"website.presence", "channel">>,
     optional |-> <<"channel", "timezone">>,
     override |-> [k \in {"contact.name"} |-> "low"]]

MCServices == {"s1"}

MCConfig ==
    [status |-> "active", daily |-> 3, concurrent |-> 1, gap |-> 30,
     retries |-> 2, noAnswer |-> "retry_later",
     window |-> [start |-> 1200, end |-> 60]]

MCMinutes == {0, 600}
MCElapsed == {None, 10}

Person == [interest |-> None, nextStep |-> None, objection |-> None,
           authority |-> None, pains |-> <<>>, openness |-> None]

MCFindings ==
    {[EndedCall EXCEPT !.notInterested = TRUE,
                       !.observed = [Person EXCEPT !.interest = TRUE,
                                                   !.nextStep = "callback"]],
     [EndedCall EXCEPT !.error = TRUE,
                       !.inferred = [Person EXCEPT !.openness = "high",
                                                   !.authority = "low"],
                       !.playbook = [selected |-> "s1",
                                     future |-> <<"s1", "s2">>]]}

\* Every row of the file is accepted once or refused for a reason.
ASSUME ImportAccounted == ImportComplete(Import, Rows)

\* What bounds the run: turns by the side of one another, and more than one,
\* are looked at in one session with one driver at work; two drivers and two
\* sessions with one turn of one caller.
OneSession ==
    /\ Cardinality({d \in Drivers : driver[d] # Idle}) <= 1
    /\ Cardinality({s \in SessionIds : \/ sessions[s] # None \/ answered[s] # None
                                      \/ \E d \in Drivers : driver[d].request = s})
           <= 1

OneTurn == /\ crossedSessions = {}
           /\ Cardinality(acked) + Cardinality(UnderWay) <= 1
           /\ acked \cup {<<inTurn[c].id, inTurn[c].sequence>> : c \in UnderWay}
                \subseteq SessionIds \X {0, 1}

Bounded == OneSession \/ OneTurn

Interchangeable == Permutations(Drivers) \cup Permutations(Callers)
                   \cup Permutations(SessionIds)
=============================================================================
