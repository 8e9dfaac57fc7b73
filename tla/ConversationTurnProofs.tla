------------------------ MODULE ConversationTurnProofs ------------------------
(* Proofs about the turn pipeline, for every instance.                       *)
EXTENDS ConversationTurn, TLAPS

\* Every rule leads to a state or back to where the detour was entered.
LEMMA RuleLeads ==
    ASSUME NEW s \in States, NEW a \in DOMAIN Rules[s]
    PROVE  Rules[s][a] \in States \cup {Previous}
BY DEF States, Rules, Previous

\* Only a question leads back, and only listening or exploring leads to it.
LEMMA Detour ==
    ASSUME NEW s \in States, NEW a \in DOMAIN Rules[s]
    PROVE  /\ s # "end_call"
           /\ Rules[s][a] = Previous => s = "handle_question"
           /\ Rules[s][a] = "handle_question" => s # "handle_question"
BY DEF States, Rules, Previous

\* Every state but the last has the rule that ends the call for good.
LEMMA DncRule ==
    ASSUME NEW s \in States, s # "end_call"
    PROVE  "mark_dnc" \in DOMAIN Rules[s] /\ Rules[s]["mark_dnc"] = "end_call"
BY DEF States, Rules

Results == [talk : Talks, path : Paths, persist : Contacts \cup {None}]

-----------------------------------------------------------------------------
(* Typing: every path of the engine returns a result of its type. *)

\* A new processor's machine and context have their types.
LEMMA FreshTyped ==
    ASSUME NEW s \in States PROVE Fresh(s) \in Talks
BY LimitsAssumption DEF Fresh, Talks, Clarifications

\* A transition keeps the machine's type, a detour's return included.
LEMMA AppliedTyped ==
    ASSUME NEW t \in Talks, NEW a \in DOMAIN Rules[t.state], Applicable(t, a)
    PROVE  Applied(t, a) \in Talks
<1> DEFINE to == Rules[t.state][a]
<1>1. t.state \in States /\ t.stack \in Seq(States \ {"end_call"})
    BY DEF Talks
<1>2. t.state # "end_call" /\ to \in States \cup {Previous}
    BY <1>1, RuleLeads, Detour
<1>3. CASE to = Previous
    <2>1. t.stack # <<>>
        BY <1>3 DEF Applicable
    <2>2. Last(t.stack) \in States /\ Front(t.stack) \in Seq(States \ {"end_call"})
        BY <1>1, <2>1 DEF Last, Front
    <2> QED
        BY <1>3, <2>2 DEF Applied, Talks
<1>4. CASE to # Previous
    <2>1. Append(t.stack, t.state) \in Seq(States \ {"end_call"})
        BY <1>1, <1>2
    <2> QED
        BY <1>2, <1>4, <2>1 DEF Applied, Talks
<1> QED
    BY <1>3, <1>4

\* A fallback is applied or leaves the machine alone.
LEMMA FallbackTyped ==
    ASSUME NEW t \in Talks, NEW a PROVE FallbackPath(t, a) \in Results
<1>1. CASE Valid(t, a) /\ Applicable(t, a)
    <2>1. Applied(t, a) \in Talks
        BY <1>1, AppliedTyped DEF Valid
    <2> QED
        BY <1>1, <2>1 DEF FallbackPath, Result, Results, Paths
<1>2. CASE ~(Valid(t, a) /\ Applicable(t, a))
    BY <1>2 DEF FallbackPath, Result, Results, Paths
<1> QED
    BY <1>1, <1>2

\* So is any approved action, with its one fallback.
LEMMA ValidateAndApplyTyped ==
    ASSUME NEW t \in Talks, NEW a PROVE ValidateAndApply(t, a) \in Results
<1>1. CASE Valid(t, a) /\ Applicable(t, a)
    <2>1. Applied(t, a) \in Talks
        BY <1>1, AppliedTyped DEF Valid
    <2> QED
        BY <1>1, <2>1 DEF ValidateAndApply, Result, Results, Paths
<1>2. CASE Valid(t, a) /\ ~Applicable(t, a)
    BY <1>2 DEF ValidateAndApply, Rejected, Result, Results, Paths
<1>3. CASE ~Valid(t, a)
    BY <1>3, FallbackTyped DEF ValidateAndApply
<1> QED
    BY <1>1, <1>2, <1>3

\* An offer moves the machine and remembers the service.
LEMMA OfferTyped ==
    ASSUME NEW t \in Talks, NEW s \in Eligible(t) \cup {None}
    PROVE  OfferPath(t, s) \in Results
<1>1. CASE s = None
    BY <1>1, FallbackTyped DEF OfferPath
<1>2. CASE s # None /\ Valid(t, "offer_service")
    <2>1. s \in Services
        BY <1>2 DEF Eligible
    <2>2. Applicable(t, "offer_service")
        BY <1>2, Detour DEF Valid, Applicable, Talks, Rules, Previous
    <2>3. Applied(t, "offer_service") \in Talks
        BY <1>2, <2>2, AppliedTyped DEF Valid
    <2>4. [Applied(t, "offer_service") EXCEPT !.offered = @ \cup {s}] \in Talks
        BY <2>1, <2>3 DEF Talks
    <2> QED
        BY <1>2, <2>4 DEF OfferPath, Result, Results, Paths
<1>3. CASE s # None /\ ~Valid(t, "offer_service")
    BY <1>3 DEF OfferPath, Rejected, Result, Results, Paths
<1> QED
    BY <1>1, <1>2, <1>3

\* Counting attempts stays within the limit.
LEMMA ClarifiedTyped ==
    ASSUME NEW t \in Talks, NEW u \in Understandings
    PROVE  Clarified(t, u) \in Talks
<1>1. t.clarification \in Clarifications
    BY DEF Talks
<1>2. Attempts(t, u) \in 0..MaxAttempts
    BY <1>1, LimitsAssumption DEF Attempts, Clarifications
<1>3. AttemptsAfter(t, u) \in 0..MaxAttempts
    BY <1>2, LimitsAssumption DEF AttemptsAfter
<1>4. [channel |-> u.channel, attempts |-> AttemptsAfter(t, u)] \in Clarifications
    BY <1>3 DEF Clarifications, Understandings
<1> QED
    BY <1>4 DEF Clarified, Talks

\* A contact turn keeps the types, whatever the client said.
LEMMA ContactTyped ==
    ASSUME NEW t \in Talks, t.state \in ContactStates, NEW u \in Understandings
    PROVE  ContactPath(t, u) \in Results
<1>1. CASE t.state = "confirm_contact" /\ u.intent = "confirm"
    <2> DEFINE sure == [t EXCEPT !.confirmed = TRUE]
    <2>1. sure \in Talks /\ sure.state = "confirm_contact"
        BY <1>1 DEF Talks
    <2>2. CASE t.candidate # None /\ HasContactId /\ Valid(sure, "confirm_contact")
        <3>1. Applicable(sure, "confirm_contact")
            BY <2>1, <2>2 DEF Applicable, Rules, Previous
        <3>2. Applied(sure, "confirm_contact") \in Talks
            BY <2>1, <2>2, <3>1, AppliedTyped DEF Valid
        <3>3. t.candidate \in Contacts \cup {None}
            BY DEF Talks
        <3>4. HandleConfirmation(t)
                = Result(Applied(sure, "confirm_contact"), "contact", t.candidate)
            BY <2>2 DEF HandleConfirmation
        <3> QED
            BY <1>1, <3>2, <3>3, <3>4 DEF ContactPath, Result, Results, Paths
    <2>3. CASE ~(t.candidate # None /\ HasContactId /\ Valid(sure, "confirm_contact"))
        <3>1. HandleConfirmation(t) = Rejected(t)
            BY <2>3 DEF HandleConfirmation
        <3> QED
            BY <1>1, <3>1 DEF ContactPath, Rejected, Result, Results, Paths
    <2> QED
        BY <2>2, <2>3
<1>2. CASE ~(t.state = "confirm_contact" /\ u.intent = "confirm") /\ ~u.supported
    BY <1>2, FallbackTyped DEF ContactPath
<1>3. CASE ~(t.state = "confirm_contact" /\ u.intent = "confirm") /\ u.supported
    <2> DEFINE w == [t EXCEPT !.candidate = Candidate(t, u)]
    <2>1. Candidate(t, u) \in Contacts \cup {None}
        BY DEF Candidate, Talks, Understandings
    <2>2. w \in Talks
        BY <2>1 DEF Talks
    <2>3. Clarified(w, u) \in Talks
        BY <2>2, ClarifiedTyped
    <2>4. RunClarification(w, u) \in Results
        <3> HIDE DEF w
        <3> QED
            BY <2>3, ValidateAndApplyTyped, FallbackTyped DEF RunClarification
    <2> QED
        BY <1>3, <2>4 DEF ContactPath
<1> QED
    BY <1>1, <1>2, <1>3

-----------------------------------------------------------------------------
(* What one transition, or none, does to the machine and the context. *)

Same(t, w) == w.candidate = t.candidate /\ w.confirmed = t.confirmed

Stayed(t, w) == w.state = t.state /\ w.stack = t.stack /\ w.dnc = t.dnc

Ended(t, w) == w.state = "end_call" /\ w.stack = t.stack

Returned(t, w) ==
    /\ t.state = "handle_question" /\ t.stack # <<>>
    /\ w.state = Last(t.stack) /\ w.stack = Front(t.stack) /\ w.dnc = t.dnc

Asked(t, w) ==
    /\ t.state \notin {"handle_question", "end_call"}
    /\ w.state = "handle_question" /\ w.stack = Append(t.stack, t.state)
    /\ w.dnc = t.dnc

Advanced(t, w) ==
    /\ t.state \notin {"handle_question", "end_call"}
    /\ w.state # "handle_question"
    /\ w.stack = t.stack /\ w.dnc = t.dnc

Shifted(t, w) ==
    Stayed(t, w) \/ Ended(t, w) \/ Returned(t, w) \/ Asked(t, w) \/ Advanced(t, w)

Moved(t, w) == Same(t, w) /\ Shifted(t, w)

\* The do-not-call action leads to the end only.
LEMMA DncEnds ==
    ASSUME NEW s \in States, NEW a \in DOMAIN Rules[s], a = "mark_dnc"
    PROVE  Rules[s][a] = "end_call"
BY DEF States, Rules

\* A question can be left by its answer or by the end.
LEMMA QuestionRules ==
    ASSUME NEW a \in DOMAIN Rules["handle_question"]
    PROVE  Rules["handle_question"][a] \in {Previous, "end_call"}
BY DEF Rules, Previous

\* A valid action makes one move.
LEMMA AppliedMoves ==
    ASSUME NEW t \in Talks, NEW a \in DOMAIN Rules[t.state], Applicable(t, a)
    PROVE  Moved(t, Applied(t, a))
<1> DEFINE to == Rules[t.state][a]
           w == Applied(t, a)
<1>1. t.state \in States /\ t.dnc \in BOOLEAN
    BY DEF Talks
<1>2. /\ t.state # "end_call"
      /\ to = Previous => t.state = "handle_question"
      /\ to = "handle_question" => t.state # "handle_question"
    BY <1>1, Detour
<1>3. Same(t, w)
    BY DEF Applied, Same, Talks
<1>4. CASE to = Previous
    <2>1. t.stack # <<>>
        BY <1>4 DEF Applicable
    <2>2. w.state = Last(t.stack) /\ w.stack = Front(t.stack) /\ w.dnc = t.dnc
        BY <1>4 DEF Applied, Talks
    <2> QED
        BY <1>2, <1>3, <1>4, <2>1, <2>2 DEF Moved, Shifted, Returned
<1>5. CASE to # Previous
    <2>1. /\ w.state = to
          /\ w.stack = IF to \in Detours THEN Append(t.stack, t.state) ELSE t.stack
          /\ w.dnc = (t.dnc \/ a = "mark_dnc")
        BY <1>5 DEF Applied, Talks
    <2>2. CASE to = "end_call"
        BY <1>3, <2>1, <2>2 DEF Moved, Shifted, Ended, Detours
    <2>3. CASE to = "handle_question"
        <3>1. a # "mark_dnc"
            BY <1>1, <2>3, DncEnds
        <3> QED
            BY <1>1, <1>2, <1>3, <2>1, <2>3, <3>1 DEF Moved, Shifted, Asked, Detours
    <2>4. CASE to \notin {"end_call", "handle_question"}
        <3>1. a # "mark_dnc"
            BY <1>1, <2>4, DncEnds
        <3>2. t.state # "handle_question"
            BY <1>5, <2>4, QuestionRules
        <3> QED
            BY <1>1, <1>2, <1>3, <2>1, <2>4, <3>1, <3>2 DEF Moved, Shifted, Advanced, Detours
    <2> QED
        BY <2>2, <2>3, <2>4
<1> QED
    BY <1>4, <1>5

\* So does a fallback, and nothing is persisted.
LEMMA FallbackMoves ==
    ASSUME NEW t \in Talks, NEW a
    PROVE  /\ Moved(t, FallbackPath(t, a).talk)
           /\ FallbackPath(t, a).persist = None
           /\ FallbackPath(t, a).path \in {"fallback", "fallback_failed"}
<1>1. Moved(t, t)
    BY DEF Moved, Shifted, Same, Stayed
<1>2. Valid(t, a) /\ Applicable(t, a) => Moved(t, Applied(t, a))
    BY AppliedMoves DEF Valid
<1> QED
    BY <1>1, <1>2 DEF FallbackPath, Result

\* So does an approved action.
LEMMA ValidateAndApplyMoves ==
    ASSUME NEW t \in Talks, NEW a
    PROVE  /\ Moved(t, ValidateAndApply(t, a).talk)
           /\ ValidateAndApply(t, a).persist = None
           /\ ValidateAndApply(t, a).path # "unexecuted"
<1>1. Moved(t, t)
    BY DEF Moved, Shifted, Same, Stayed
<1>2. Valid(t, a) /\ Applicable(t, a) => Moved(t, Applied(t, a))
    BY AppliedMoves DEF Valid
<1>3. CASE Valid(t, a)
    BY <1>1, <1>2, <1>3 DEF ValidateAndApply, Rejected, Result
<1>4. CASE ~Valid(t, a)
    BY <1>4, FallbackMoves DEF ValidateAndApply
<1> QED
    BY <1>3, <1>4

\* And an offer.
LEMMA OfferMoves ==
    ASSUME NEW t \in Talks, NEW s
    PROVE  /\ Moved(t, OfferPath(t, s).talk)
           /\ OfferPath(t, s).persist = None
           /\ OfferPath(t, s).path # "unexecuted"
<1>1. CASE s = None
    BY <1>1, FallbackMoves DEF OfferPath
<1>2. CASE s # None /\ Valid(t, "offer_service")
    <2> DEFINE v == Applied(t, "offer_service")
               w == [v EXCEPT !.offered = @ \cup {s}]
    <2>1. Applicable(t, "offer_service")
        BY <1>2 DEF Valid, Applicable, Talks, States, Rules, Previous
    <2>2. Moved(t, v) /\ v \in Talks
        BY <1>2, <2>1, AppliedMoves, AppliedTyped DEF Valid
    <2>3. /\ w.state = v.state /\ w.stack = v.stack /\ w.dnc = v.dnc
          /\ w.candidate = v.candidate /\ w.confirmed = v.confirmed
        BY <2>2 DEF Talks
    <2>4. Moved(t, w)
        BY <2>2, <2>3 DEF Moved, Shifted, Same, Stayed, Ended, Returned, Asked, Advanced
    <2>5. OfferPath(t, s) = Result(w, "offer", None)
        BY <1>2 DEF OfferPath
    <2> QED
        BY <2>4, <2>5 DEF Result
<1>3. CASE s # None /\ ~Valid(t, "offer_service")
    <2>1. Moved(t, t)
        BY DEF Moved, Shifted, Same, Stayed
    <2> QED
        BY <1>3, <2>1 DEF OfferPath, Rejected, Result
<1> QED
    BY <1>1, <1>2, <1>3

\* The client confirms the pending candidate.
Sure(t, u) == t.state = "confirm_contact" /\ u.intent = "confirm"

\* A contact turn also sets the candidate; only a confirmation persists it.
LEMMA ContactMoves ==
    ASSUME NEW t \in Talks, t.state \in ContactStates, NEW u \in Understandings,
           NEW r, r = ContactPath(t, u)
    PROVE  /\ Shifted(t, r.talk)
           /\ r.path # "unexecuted"
           /\ r.talk.candidate = IF Sure(t, u) THEN t.candidate ELSE Candidate(t, u)
           /\ r.persist # None => Sure(t, u) /\ r.persist = t.candidate
           /\ r.talk.confirmed =>
                 \/ t.confirmed
                 \/ r.talk.state = "end_call" /\ Sure(t, u) /\ t.candidate # None
<1>1. CASE Sure(t, u)
    <2> DEFINE v == [t EXCEPT !.confirmed = TRUE]
    <2>1. r = HandleConfirmation(t)
        BY <1>1 DEF ContactPath, Sure
    <2>2. v \in Talks /\ v.state = "confirm_contact" /\ v.stack = t.stack
             /\ v.dnc = t.dnc /\ v.candidate = t.candidate /\ v.confirmed
        BY <1>1 DEF Talks, Sure
    <2>3. CASE t.candidate # None /\ HasContactId /\ Valid(v, "confirm_contact")
        <3>1. r = Result(Applied(v, "confirm_contact"), "contact", t.candidate)
            BY <2>1, <2>3 DEF HandleConfirmation
        <3>2. Rules["confirm_contact"]["confirm_contact"] = "end_call"
            BY DEF Rules
        <3>3. LET w == Applied(v, "confirm_contact")
              IN  /\ w.state = "end_call" /\ w.stack = t.stack
                  /\ w.candidate = t.candidate
            BY <2>2, <3>2 DEF Applied, Previous, Detours, Talks
        <3> QED
            BY <1>1, <2>3, <3>1, <3>3 DEF Result, Shifted, Ended
    <2>4. CASE ~(t.candidate # None /\ HasContactId /\ Valid(v, "confirm_contact"))
        <3>1. r = Rejected(t)
            BY <2>1, <2>4 DEF HandleConfirmation
        <3> QED
            BY <1>1, <3>1 DEF Rejected, Result, Shifted, Stayed
    <2> QED
        BY <2>3, <2>4
<1>2. CASE ~Sure(t, u) /\ ~u.supported
    <2>1. r = FallbackPath(t, StateFallback(t.state))
        BY <1>2 DEF ContactPath, Sure
    <2>2. Moved(t, r.talk) /\ r.persist = None /\ r.path # "unexecuted"
        BY <2>1, FallbackMoves
    <2>3. Shifted(t, r.talk)
        BY <2>2 DEF Moved
    <2>4. Candidate(t, u) = t.candidate
        BY <1>2 DEF Candidate, Understandings
    <2> QED
        BY <1>2, <2>2, <2>3, <2>4 DEF Moved, Same
<1>3. CASE ~Sure(t, u) /\ u.supported
    <2> DEFINE w == [t EXCEPT !.candidate = Candidate(t, u)]
               c == Clarified(w, u)
    <2>1. r = RunClarification(w, u)
        BY <1>3 DEF ContactPath, Sure
    <2>2. w \in Talks
        BY DEF Candidate, Talks, Understandings
    <2>3. c \in Talks
        BY <2>2, ClarifiedTyped
    <2>4. /\ c.state = t.state /\ c.stack = t.stack /\ c.dnc = t.dnc
          /\ c.confirmed = t.confirmed /\ c.candidate = Candidate(t, u)
        BY DEF Clarified, Talks
    <2>5. Moved(c, r.talk) /\ r.persist = None /\ r.path # "unexecuted"
        <3> HIDE DEF w
        <3> QED
            BY <2>1, <2>3, ValidateAndApplyMoves, FallbackMoves DEF RunClarification
    <2>6. Shifted(t, r.talk)
        BY <2>4, <2>5 DEF Moved, Shifted, Stayed, Ended, Returned, Asked, Advanced
    <2> QED
        BY <1>3, <2>4, <2>5, <2>6 DEF Moved, Same
<1> QED
    BY <1>1, <1>2, <1>3

-----------------------------------------------------------------------------
(* Do-not-call turns, and recoveries. *)

\* MARK_DNC is valid in every state but the last, and ends the call.
LEMMA DncCloses ==
    ASSUME NEW t \in Talks, t.state # "end_call"
    PROVE  /\ ValidateAndApply(t, "mark_dnc").talk.state = "end_call"
           /\ ValidateAndApply(t, "mark_dnc").path = "applied"
<1>1. /\ "mark_dnc" \in DOMAIN Rules[t.state]
      /\ Rules[t.state]["mark_dnc"] = "end_call"
    BY DncRule DEF Talks
<1>2. Valid(t, "mark_dnc") /\ Applicable(t, "mark_dnc")
    BY <1>1 DEF Valid, StateReady, RuleReady, Escapes, Applicable, Previous
<1>3. Applied(t, "mark_dnc").state = "end_call"
    BY <1>1 DEF Applied, Talks, Previous
<1> QED
    BY <1>2, <1>3 DEF ValidateAndApply, Result

Open(t) == t.state # "end_call" /\ ~t.dnc /\ ~t.confirmed

\* Only two recoveries have a rule to the end, and both need more than a state.
LEMMA FallbackRules ==
    ASSUME NEW s \in States, NEW a, a = StateFallback(s), a \in DOMAIN Rules[s],
           Rules[s][a] = "end_call"
    PROVE  s = a /\ s \in {"confirm_contact", "schedule_callback"}
<1>1. CASE s \in {"new_call", "greeting", "end_call"}
    BY <1>1 DEF Rules, StateFallback
<1>2. CASE s \in {"identify_person", "introduce", "reason_for_call",
                 "identify_decision_maker"}
    BY <1>2 DEF Rules, StateFallback
<1>3. CASE s \in {"listen", "handle_question", "explore_alternative"}
    BY <1>3 DEF Rules, StateFallback, Previous
<1>4. CASE s \in {"collect_email", "confirm_contact", "schedule_callback"}
    BY <1>4 DEF Rules, StateFallback
<1> QED
    BY <1>1, <1>2, <1>3, <1>4 DEF States, Rules

\* The states' own recoveries lead on, when no callback is known.
LEMMA FallbackGoesOn ==
    ASSUME NEW t \in Talks, Open(t), ~HasCallback
    PROVE  FallbackPath(t, StateFallback(t.state)).talk.state # "end_call"
<1> DEFINE a == StateFallback(t.state)
<1>1. t.state \in States /\ t.stack \in Seq(States \ {"end_call"})
    BY DEF Talks
<1>2. CASE Valid(t, a) /\ Applicable(t, a)
    <2>1. a \in DOMAIN Rules[t.state] /\ RuleReady(t, a)
        BY <1>2 DEF Valid
    <2>2. CASE Rules[t.state][a] = Previous
        <3>1. Last(t.stack) # "end_call"
            BY <1>1, <1>2, <2>2 DEF Applicable, Last
        <3> QED
            BY <1>2, <2>2, <3>1 DEF FallbackPath, Result, Applied, Talks
    <2>3. CASE Rules[t.state][a] # Previous
        <3>1. Rules[t.state][a] # "end_call"
            BY <1>1, <2>1, FallbackRules DEF RuleReady, Open
        <3> QED
            BY <1>2, <2>3, <3>1 DEF FallbackPath, Result, Applied, Talks
    <2> QED
        BY <2>2, <2>3
<1>3. CASE ~(Valid(t, a) /\ Applicable(t, a))
    BY <1>3 DEF FallbackPath, Result, Open
<1> QED
    BY <1>2, <1>3

Recovered(r) == r.path \in {"fallback", "fallback_failed"}

\* Hence an action that ends in a recovery does not end the call.
LEMMA ActionGoesOn ==
    ASSUME NEW t \in Talks, Open(t), ~HasCallback, NEW a,
           Recovered(ValidateAndApply(t, a))
    PROVE  ValidateAndApply(t, a).talk.state # "end_call"
<1>1. ~Valid(t, a)
    BY DEF Recovered, ValidateAndApply, Rejected, Result
<1>2. ValidateAndApply(t, a) = FallbackPath(t, StateFallback(t.state))
    BY <1>1 DEF ValidateAndApply, Recovery, Open
<1> QED
    BY <1>2, FallbackGoesOn

\* Nor does an offer.
LEMMA OfferGoesOn ==
    ASSUME NEW t \in Talks, Open(t), ~HasCallback, NEW s,
           Recovered(OfferPath(t, s))
    PROVE  OfferPath(t, s).talk.state # "end_call"
<1>1. s = None
    BY DEF Recovered, OfferPath, Rejected, Result
<1> QED
    BY <1>1, FallbackGoesOn DEF OfferPath

\* Nor does a contact turn, its exhausted clarification included.
LEMMA ContactGoesOn ==
    ASSUME NEW t \in Talks, t.state \in ContactStates, Open(t), ~HasCallback,
           NEW u \in Understandings, Recovered(ContactPath(t, u))
    PROVE  ContactPath(t, u).talk.state # "end_call"
<1>1. ~(t.state = "confirm_contact" /\ u.intent = "confirm")
    BY DEF Recovered, ContactPath, HandleConfirmation, Rejected, Result
<1> DEFINE w == [t EXCEPT !.candidate = Candidate(t, u)]
           c == Clarified(w, u)
<1>2. u.supported => ContactPath(t, u) = RunClarification(w, u)
    BY <1>1 DEF ContactPath
<1>3. w \in Talks
    BY DEF Candidate, Talks, Understandings
<1>4. c \in Talks
    BY <1>3, ClarifiedTyped
<1>5. Open(c) /\ c.state = t.state /\ w.state = t.state
    BY DEF Clarified, Talks, Open
<1>6. CASE ~u.supported
    BY <1>1, <1>6, FallbackGoesOn DEF ContactPath
<1> HIDE DEF w
<1> QED
    BY <1>2, <1>4, <1>5, <1>6, ActionGoesOn, FallbackGoesOn DEF RunClarification

-----------------------------------------------------------------------------
(* The inductive invariant. *)

\* An open detour is the question's, and remembers where it was asked.
StackInv ==
    talk.stack # <<>> =>
        \/ talk.state = "end_call" /\ Len(talk.stack) = 1
        \/ talk.state = "handle_question" /\ talk.stack = <<origin>>

\* The candidate is the last contact heard; what ends the call is at its end.
ContactInv ==
    /\ talk.candidate \in {None, heard}
    /\ talk.confirmed => talk.state = "end_call" /\ talk.candidate # None
    /\ talk.dnc => talk.state = "end_call"
    /\ turn # None => turn.persist \in {None, heard}

\* Processor, open turn and snapshot agree with the committed calls.
BudgetInv ==
    /\ turn = None => reasoned <= calls
    /\ turn # None => reasoned <= turn.before /\ turn.before <= calls
    /\ snapshot # None => reasoned <= snapshot.calls
    /\ snapshot = None => reasoned = 0
    /\ "raise" \notin faults =>
          /\ turn = None => calls = reasoned
          /\ turn # None => turn.before = reasoned
          /\ snapshot # None => snapshot.calls = reasoned

\* Without failures the row and the open turn know whether the call has ended.
ClosedInv ==
    faults = {} =>
        /\ turn = None => (status = "COMPLETED" <=> talk.state = "end_call")
        /\ turn # None => /\ status = "ACTIVE"
                          /\ turn.terminal <=> talk.state = "end_call"

\* What the open turn did follows from why it ran.
TurnInv ==
    turn # None =>
        /\ turn.priority = "dnc" => turn.terminal /\ talk.state = "end_call"
        /\ ~HasCallback /\ Recovered(turn) => turn.terminal = FALSE

IInv == TypeOK /\ StackInv /\ ContactInv /\ BudgetInv /\ ClosedInv /\ TurnInv

Priorities == {"none", "dnc", "not_interested"}

\* A turn keeps the types.
LEMMA TakeTyped ==
    ASSUME TypeOK, NEW r \in Results, NEW p \in Priorities, NEW n \in {0, 1},
           calls + n <= MaxCalls, Take(r, p, n), heard' \in Contacts \cup {None}
    PROVE  TypeOK' /\ turn' # None
<1>1. talk' \in Talks
    BY DEF Take, Results
<1>2. turnsLeft' \in 0..MaxTurns /\ calls' \in 0..MaxCalls
    BY LimitsAssumption DEF TypeOK, Take
<1>3. turn' \in Turns
    BY LimitsAssumption DEF TypeOK, Take, Turns, Results, Ends, Priorities
<1>4. origin' \in States \cup {None}
    BY DEF TypeOK, Take, Talks
<1> QED
    BY <1>1, <1>2, <1>3, <1>4, NoneAssumption DEF TypeOK, Take

LEMMA Singleton == ASSUME NEW x PROVE Len(<<x>>) = 1
OBVIOUS

\* A turn keeps the detour, the budget and the ending consistent.
LEMMA TakeKeeps ==
    ASSUME IInv, Ready, NEW r \in Results, NEW p \in Priorities, NEW n \in {0, 1},
           Take(r, p, n), turn' # None, Shifted(talk, r.talk),
           r.path = "unexecuted" => r.talk = talk
    PROVE  StackInv' /\ BudgetInv' /\ ClosedInv'
<1>1. talk \in Talks /\ calls \in Nat /\ reasoned \in Nat
    BY LimitsAssumption DEF IInv, TypeOK
<1>2. StackInv'
    <2>1. talk.stack \in Seq(States)
        BY <1>1 DEF Talks
    <2>2. CASE Stayed(talk, r.talk)
        BY <2>2 DEF Stayed, IInv, StackInv, Take, Detours
    <2>3. CASE Ended(talk, r.talk)
        <3>1. talk.stack # <<>> => Len(talk.stack) = 1
            BY Singleton DEF IInv, StackInv
        <3> QED
            BY <2>3, <3>1 DEF Ended, StackInv, Take
    <2>4. CASE Returned(talk, r.talk)
        <3>1. talk.stack = <<origin>>
            BY <2>4 DEF Returned, IInv, StackInv
        <3>2. Front(talk.stack) = <<>>
            BY <3>1 DEF Front
        <3> QED
            BY <2>4, <3>2 DEF Returned, Take, StackInv
    <2>5. CASE Asked(talk, r.talk)
        <3>1. talk.stack = <<>>
            BY <2>5 DEF Asked, IInv, StackInv
        <3>2. r.talk.stack = <<talk.state>> /\ origin' = talk.state
            BY <2>5, <3>1 DEF Asked, Take, Detours
        <3> QED
            BY <2>5, <3>2 DEF Asked, Take, StackInv
    <2>6. CASE Advanced(talk, r.talk)
        BY <2>6 DEF Advanced, IInv, StackInv, Take
    <2> QED
        BY <2>2, <2>3, <2>4, <2>5, <2>6 DEF Shifted
<1>3. BudgetInv'
    BY <1>1 DEF IInv, BudgetInv, Take, Ready
<1>4. ClosedInv'
    BY DEF IInv, ClosedInv, Take, Ready, Ends
<1> QED
    BY <1>2, <1>3, <1>4

\* A turn that only moves keeps the candidate.
LEMMA MoveKeeps ==
    ASSUME IInv, NEW r, NEW p, NEW n, Take(r, p, n), Moved(talk, r.talk),
           r.persist = None, heard' = heard
    PROVE  ContactInv'
BY DEF IInv, ContactInv, Take, Moved, Same, Shifted, Stayed, Ended, Returned,
       Asked, Advanced

\* An ordinary turn owes TurnInv only that its recoveries go on.
LEMMA OrdinaryKeeps ==
    ASSUME NEW r, NEW n, Take(r, "none", n),
           ~HasCallback /\ Recovered(r) => r.talk.state # "end_call"
    PROVE  TurnInv'
BY DEF TurnInv, Take, Ends, Recovered

\* A live machine that is not at its end is open.
LEMMA OpenTalk ==
    ASSUME IInv, talk.state # "end_call" PROVE Open(talk)
BY DEF IInv, ContactInv, Open

-----------------------------------------------------------------------------
(* Each turn, each commit and each restart preserves the invariant. *)

LEMMA PriorityKeeps ==
    ASSUME IInv, NEW p \in {"dnc", "not_interested"}, PriorityTurn(p)
    PROVE  IInv' /\ turn' # None /\ Shifted(talk, talk')
<1>1. talk \in Talks /\ calls + 0 <= MaxCalls /\ heard' \in Contacts \cup {None}
    BY LimitsAssumption DEF IInv, TypeOK, PriorityTurn
<1>2. CASE talk.state = "end_call"
    <2> DEFINE r == Result(talk, "terminal", None)
    <2>1. Take(r, p, 0) /\ r \in Results /\ Moved(talk, r.talk)
        BY <1>1, <1>2 DEF PriorityTurn, Result, Results, Paths, Moved, Same, Shifted, Stayed
    <2>2. TypeOK' /\ turn' # None
        BY <1>1, <2>1, TakeTyped DEF IInv, Priorities
    <2>3. StackInv' /\ BudgetInv' /\ ClosedInv'
        BY <2>1, <2>2, TakeKeeps DEF PriorityTurn, Moved, Result, Priorities
    <2>4. ContactInv'
        BY <2>1, MoveKeeps DEF PriorityTurn, Result
    <2>5. TurnInv'
        BY <1>2, <2>1 DEF TurnInv, Take, Result, Ends, Recovered
    <2> QED
        BY <2>1, <2>2, <2>3, <2>4, <2>5 DEF IInv, Take, Moved
<1>3. CASE talk.state # "end_call"
    <2> DEFINE r == ValidateAndApply(talk, PriorityAction(p))
    <2>1. Take(r, p, 0)
        BY <1>3 DEF PriorityTurn
    <2>2. r \in Results
        BY <1>1, ValidateAndApplyTyped
    <2>3. Moved(talk, r.talk) /\ r.persist = None /\ r.path # "unexecuted"
        BY <1>1, ValidateAndApplyMoves
    <2>4. p = "dnc" => r.talk.state = "end_call" /\ r.path = "applied"
        BY <1>1, <1>3, DncCloses DEF PriorityAction
    <2>5. ~HasCallback /\ Recovered(r) => r.talk.state # "end_call"
        BY <1>1, <1>3, OpenTalk, ActionGoesOn
    <2> HIDE DEF r
    <2>6. TypeOK' /\ turn' # None
        BY <1>1, <2>1, <2>2, TakeTyped DEF IInv, Priorities
    <2>7. StackInv' /\ BudgetInv' /\ ClosedInv'
        BY <2>1, <2>2, <2>3, <2>6, TakeKeeps DEF PriorityTurn, Moved, Priorities
    <2>8. ContactInv'
        BY <2>1, <2>3, MoveKeeps DEF PriorityTurn
    <2>9. TurnInv'
        BY <2>1, <2>4, <2>5 DEF TurnInv, Take, Ends, Recovered
    <2> QED
        BY <2>1, <2>3, <2>6, <2>7, <2>8, <2>9 DEF IInv, Take, Moved
<1> QED
    BY <1>2, <1>3

\* An ordinary turn that leaves or moves the machine and persists nothing.
LEMMA OrdinaryTurnKeeps ==
    ASSUME IInv, Ready, NEW n \in {0, 1}, n = 1 => ~Exhausted, NEW r \in Results,
           Take(r, "none", n), Moved(talk, r.talk), r.persist = None, heard' = heard,
           r.path = "unexecuted" => r.talk = talk,
           ~HasCallback /\ Recovered(r) => r.talk.state # "end_call"
    PROVE  IInv' /\ turn' # None /\ Shifted(talk, talk')
<1>1. calls + n <= MaxCalls /\ heard' \in Contacts \cup {None}
    BY LimitsAssumption DEF IInv, TypeOK, Exhausted
<1>2. TypeOK' /\ turn' # None
    BY <1>1, TakeTyped DEF IInv, Priorities
<1>3. StackInv' /\ BudgetInv' /\ ClosedInv'
    BY <1>2, TakeKeeps DEF Moved, Priorities
<1>4. ContactInv'
    BY MoveKeeps
<1>5. TurnInv'
    BY OrdinaryKeeps
<1> QED
    BY <1>2, <1>3, <1>4, <1>5 DEF IInv, Take, Moved

\* Nothing executed: wind-down, no approval, a machine at its end, no
\* understanding.
LEMMA IdleKeeps ==
    ASSUME IInv,
           WindDownTurn \/ UnapprovedTurn \/ LateTurn \/ UnheardContactTurn
    PROVE  IInv' /\ turn' # None /\ Shifted(talk, talk')
<1>1. PICK path \in {"unexecuted", "terminal", "rejected"}, n \in {0, 1} :
          /\ Ready /\ (n = 1 => ~Exhausted) /\ heard' = heard
          /\ Take(Result(talk, path, None), "none", n)
    BY DEF WindDownTurn, UnapprovedTurn, LateTurn, UnheardContactTurn, Approved, Rejected
<1> DEFINE r == Result(talk, path, None)
<1>2. r \in Results /\ Moved(talk, r.talk) /\ r.persist = None /\ r.talk = talk
         /\ ~Recovered(r)
    BY <1>1 DEF IInv, TypeOK, Result, Results, Paths, Moved, Same, Shifted, Stayed, Recovered
<1> QED
    BY <1>1, <1>2, OrdinaryTurnKeeps

LEMMA OfferKeeps ==
    ASSUME IInv, NEW s \in Services \cup {None}, OfferTurn(s)
    PROVE  IInv' /\ turn' # None /\ Shifted(talk, talk')
<1> DEFINE r == OfferPath(talk, s)
<1>1. talk \in Talks /\ Approved /\ s \in Eligible(talk) \cup {None}
         /\ Take(r, "none", 1) /\ heard' = heard
    BY DEF IInv, TypeOK, OfferTurn
<1>2. r \in Results /\ Moved(talk, r.talk) /\ r.persist = None /\ r.path # "unexecuted"
    BY <1>1, OfferTyped, OfferMoves
<1>3. ~HasCallback /\ Recovered(r) => r.talk.state # "end_call"
    BY <1>1, OpenTalk, OfferGoesOn DEF Approved
<1> HIDE DEF r
<1> QED
    BY <1>1, <1>2, <1>3, OrdinaryTurnKeeps DEF Approved

LEMMA ActionKeeps ==
    ASSUME IInv, NEW a \in Actions, ActionTurn(a)
    PROVE  IInv' /\ turn' # None /\ Shifted(talk, talk')
<1> DEFINE r == ValidateAndApply(talk, a)
<1>1. talk \in Talks /\ Approved /\ Take(r, "none", 1) /\ heard' = heard
    BY DEF IInv, TypeOK, ActionTurn
<1>2. r \in Results /\ Moved(talk, r.talk) /\ r.persist = None /\ r.path # "unexecuted"
    BY <1>1, ValidateAndApplyTyped, ValidateAndApplyMoves
<1>3. ~HasCallback /\ Recovered(r) => r.talk.state # "end_call"
    BY <1>1, OpenTalk, ActionGoesOn DEF Approved
<1> HIDE DEF r
<1> QED
    BY <1>1, <1>2, <1>3, OrdinaryTurnKeeps DEF Approved

LEMMA ContactKeeps ==
    ASSUME IInv, NEW u \in Understandings, ContactTurn(u)
    PROVE  IInv' /\ turn' # None /\ Shifted(talk, talk')
<1> DEFINE r == ContactPath(talk, u)
<1>1. talk \in Talks /\ Approved /\ talk.state \in ContactStates /\ Take(r, "none", 1)
         /\ heard' = IF Sure(talk, u) THEN heard ELSE IF u.value # None THEN u.value ELSE heard
    BY DEF IInv, TypeOK, ContactTurn, Sure
<1>2. /\ Shifted(talk, r.talk)
      /\ r.path # "unexecuted"
      /\ r.talk.candidate = IF Sure(talk, u) THEN talk.candidate ELSE Candidate(talk, u)
      /\ r.persist # None => Sure(talk, u) /\ r.persist = talk.candidate
      /\ r.talk.confirmed =>
            \/ talk.confirmed
            \/ r.talk.state = "end_call" /\ Sure(talk, u) /\ talk.candidate # None
    BY <1>1, ContactMoves
<1>3. r \in Results
    BY <1>1, ContactTyped
<1>4. ~HasCallback /\ Recovered(r) => r.talk.state # "end_call"
    BY <1>1, OpenTalk, ContactGoesOn DEF Approved
<1> HIDE DEF r
<1>5. calls + 1 <= MaxCalls /\ heard' \in Contacts \cup {None}
    BY <1>1, LimitsAssumption DEF IInv, TypeOK, Approved, Exhausted, Understandings
<1>6. TypeOK' /\ turn' # None
    BY <1>1, <1>3, <1>5, TakeTyped DEF IInv, Priorities
<1>7. StackInv' /\ BudgetInv' /\ ClosedInv'
    BY <1>1, <1>2, <1>3, <1>6, TakeKeeps DEF Approved, Priorities
<1>8. ContactInv'
    <2>1. talk.state # "end_call" /\ ~talk.dnc /\ ~talk.confirmed
        BY <1>1, OpenTalk DEF Approved, Open
    <2>2. talk'.candidate \in {None, heard'}
        BY <1>1, <1>2 DEF Take, Candidate, IInv, ContactInv
    <2>3. talk'.confirmed => talk'.state = "end_call" /\ talk'.candidate # None
        BY <1>1, <1>2, <2>1 DEF Take
    <2>4. talk'.dnc => talk'.state = "end_call"
        BY <1>1, <1>2, <2>1 DEF Take, Shifted, Stayed, Ended, Returned, Asked, Advanced
    <2>5. turn'.persist \in {None, heard'}
        BY <1>1, <1>2 DEF Take, IInv, ContactInv
    <2> QED
        BY <2>2, <2>3, <2>4, <2>5 DEF ContactInv
<1>9. TurnInv'
    BY <1>1, <1>4, OrdinaryKeeps
<1> QED
    BY <1>1, <1>2, <1>6, <1>7, <1>8, <1>9 DEF IInv, Take

LEMMA CommitKeeps ==
    ASSUME IInv, Commit PROVE IInv'
<1>1. turn \in Turns /\ calls \in 0..MaxCalls /\ reasoned \in 0..MaxCalls
         /\ reasoned <= turn.before /\ turn.before <= calls /\ turn.before \in Nat
    BY LimitsAssumption DEF IInv, TypeOK, BudgetInv, Commit, Turns
<1>2. snapshot' \in Snapshots /\ snapshot' # None /\ snapshot'.calls = calls
    BY <1>1, LimitsAssumption, NoneAssumption
       DEF IInv, TypeOK, Commit, Exported, Snapshots, Talks
<1>3. reasoned' \in 0..MaxCalls /\ reasoned' <= calls
         /\ (turn.before = reasoned => reasoned' = calls)
    BY <1>1, LimitsAssumption DEF Commit
<1>4. TypeOK'
    BY <1>1, <1>2, <1>3, LimitsAssumption DEF IInv, TypeOK, Commit
<1>5. StackInv' /\ ContactInv' /\ TurnInv'
    BY DEF IInv, StackInv, ContactInv, TurnInv, Commit
<1>6. BudgetInv'
    BY <1>1, <1>2, <1>3 DEF IInv, BudgetInv, Commit
<1>7. ClosedInv'
    BY DEF IInv, ClosedInv, Commit
<1> QED
    BY <1>4, <1>5, <1>6, <1>7 DEF IInv

LEMMA FailureKeeps ==
    ASSUME IInv, CommitFails \/ TurnRaises PROVE IInv'
<1>1. turn \in Turns /\ turn # None
    BY DEF IInv, TypeOK, CommitFails, TurnRaises
<1>2. turn.before \in Nat /\ turn.before <= calls /\ calls \in Nat /\ calls <= MaxCalls
         /\ reasoned <= turn.before /\ reasoned \in Nat
    BY <1>1, LimitsAssumption DEF Turns, IInv, TypeOK, BudgetInv
<1>3. TypeOK'
    <2>1. calls' \in 0..MaxCalls
        BY <1>2, LimitsAssumption DEF CommitFails, TurnRaises
    <2>2. faults' \subseteq {"commit", "raise"}
        BY DEF IInv, TypeOK, CommitFails, TurnRaises
    <2> QED
        BY <2>1, <2>2 DEF IInv, TypeOK, CommitFails, TurnRaises
<1>4. StackInv' /\ ContactInv' /\ TurnInv' /\ ClosedInv'
    BY DEF IInv, StackInv, ContactInv, TurnInv, ClosedInv, CommitFails, TurnRaises
<1>5. BudgetInv'
    BY <1>1, <1>2 DEF IInv, BudgetInv, CommitFails, TurnRaises
<1> QED
    BY <1>3, <1>4, <1>5 DEF IInv

LEMMA RestartKeeps ==
    ASSUME IInv, Restart PROVE IInv'
<1> DEFINE s == IF snapshot = None THEN "new_call" ELSE snapshot.state
<1>1. s \in States /\ s # "end_call"
    BY DEF IInv, TypeOK, Restart, Snapshots, States, Rules
<1>2. talk' \in Talks /\ talk' = Fresh(s)
    BY <1>1, FreshTyped DEF Restart
<1>3. calls' \in 0..MaxCalls
    BY LimitsAssumption DEF IInv, TypeOK, Restart, Snapshots
<1>4. TypeOK'
    BY <1>2, <1>3, LimitsAssumption DEF IInv, TypeOK, Restart
<1>5. StackInv' /\ ContactInv' /\ TurnInv' /\ ClosedInv'
    BY <1>1, <1>2 DEF IInv, StackInv, ContactInv, TurnInv, ClosedInv, Restart, Fresh
<1>6. BudgetInv'
    BY DEF IInv, BudgetInv, Restart
<1> QED
    BY <1>4, <1>5, <1>6 DEF IInv

-----------------------------------------------------------------------------
(* The theorems. *)

\* The kinds of step: a turn, the end of a turn, a restart, a stutter.
LEMMA StepKinds ==
    ASSUME IInv, [Next]_vars
    PROVE  /\ IInv'
           /\ \/ Shifted(talk, talk')
              \/ turn' = None
              \/ turn' = turn
<1>1. CASE \E p \in {"dnc", "not_interested"} : PriorityTurn(p)
    BY <1>1, PriorityKeeps
<1>2. CASE WindDownTurn \/ UnapprovedTurn \/ LateTurn \/ UnheardContactTurn
    BY <1>2, IdleKeeps
<1>3. CASE \E s \in Services \cup {None} : OfferTurn(s)
    BY <1>3, OfferKeeps
<1>4. CASE \E u \in Understandings : ContactTurn(u)
    BY <1>4, ContactKeeps
<1>5. CASE \E a \in Actions : ActionTurn(a)
    BY <1>5, ActionKeeps
<1>6. CASE Commit
    BY <1>6, CommitKeeps DEF Commit
<1>7. CASE CommitFails \/ TurnRaises
    BY <1>7, FailureKeeps DEF CommitFails, TurnRaises
<1>8. CASE Restart
    BY <1>8, RestartKeeps DEF Restart
<1>9. CASE UNCHANGED vars
    BY <1>9 DEF vars, IInv, TypeOK, StackInv, ContactInv, BudgetInv, ClosedInv, TurnInv
<1> QED
    BY <1>1, <1>2, <1>3, <1>4, <1>5, <1>6, <1>7, <1>8, <1>9 DEF Next

LEMMA InitInv ==
    ASSUME Init PROVE IInv
<1>1. talk \in Talks /\ talk.stack = <<>> /\ talk.candidate = None
         /\ talk.confirmed = FALSE /\ talk.dnc = FALSE /\ talk.state = "new_call"
    BY FreshTyped DEF Init, Fresh, States, Rules
<1>2. TypeOK
    BY <1>1, LimitsAssumption DEF Init, TypeOK
<1> QED
    BY <1>1, <1>2 DEF Init, IInv, StackInv, ContactInv, BudgetInv, ClosedInv, TurnInv

\* The inductive invariant holds of every behaviour of the pipeline.
THEOREM Invariant == Spec => []IInv
<1>1. IInv /\ [Next]_vars => IInv'
    BY StepKinds
<1> QED
    BY InitInv, <1>1, PTL DEF Spec

\* Types, and contact attempts within their limit, for every instance.
THEOREM TypeCorrect == Spec => []TypeOK
<1>1. IInv => TypeOK
    BY DEF IInv
<1> QED
    BY Invariant, <1>1, PTL

\* A do-not-call turn ends the call in every state, with any budget, after any
\* restart: MARK_DNC is exempt from what a state requires.
THEOREM DncCorrect == Spec => []DncHonoured
<1>1. IInv => DncHonoured
    BY DEF IInv, TurnInv, DncHonoured
<1> QED
    BY Invariant, <1>1, PTL

\* No recovery ends the call, provided the context knows of no callback.
THEOREM MisstepCorrect == ASSUME ~HasCallback PROVE Spec => []MisstepGoesOn
<1>1. IInv => MisstepGoesOn
    BY DEF IInv, TurnInv, MisstepGoesOn, Recovered
<1> QED
    BY Invariant, <1>1, PTL

\* Only the last contact heard is confirmed and persisted.
THEOREM QualifiedCorrect == Spec => []QualifiedIsConfirmed
<1>1. IInv => QualifiedIsConfirmed
    BY DEF IInv, ContactInv, QualifiedIsConfirmed
<1> QED
    BY Invariant, <1>1, PTL

\* At most one detour is open.
THEOREM OneDetourCorrect == Spec => []OneDetour
<1>1. IInv => OneDetour
    <2> SUFFICES ASSUME IInv PROVE OneDetour
        OBVIOUS
    <2>1. CASE talk.stack = <<>>
        <3>1. Len(talk.stack) = 0
            BY <2>1
        <3> QED
            BY <2>1, <3>1 DEF OneDetour
    <2>2. CASE talk.stack # <<>>
        <3>1. Len(talk.stack) = 1
            BY <2>2, Singleton DEF IInv, StackInv
        <3>2. talk.state \in {"handle_question", "end_call"}
            BY <2>2 DEF IInv, StackInv
        <3> QED
            BY <3>1, <3>2 DEF OneDetour
    <2> QED
        BY <2>1, <2>2
<1> QED
    BY Invariant, <1>1, PTL

\* The reasoning budget follows the committed turns across restarts.
THEOREM BudgetCorrect == Spec => []CommittedBudget
<1>1. IInv => CommittedBudget
    BY LimitsAssumption DEF IInv, TypeOK, BudgetInv, CommittedBudget
<1> QED
    BY Invariant, <1>1, PTL

\* Without failures the row is closed exactly when the call has ended.
THEOREM ClosedCorrect == Spec => []ClosedWhenEnded
<1>1. IInv => ClosedWhenEnded
    BY DEF IInv, ClosedInv, ClosedWhenEnded
<1> QED
    BY Invariant, <1>1, PTL

\* An answered question returns to where it was asked.
THEOREM QuestionCorrect == Spec => QuestionReturns
<1> DEFINE A == talk.state = "handle_question" /\ turn = None /\ turn' # None =>
                    talk'.state \in {"handle_question", "end_call", origin}
<1>1. IInv /\ [Next]_vars => [A]_vars
    <2> SUFFICES ASSUME IInv, [Next]_vars, talk.state = "handle_question",
                        turn = None, turn' # None
                 PROVE  talk'.state \in {"handle_question", "end_call", origin}
        OBVIOUS
    <2>1. Shifted(talk, talk')
        BY StepKinds
    <2>2. CASE Returned(talk, talk')
        <3>1. talk.stack = <<origin>>
            BY <2>2 DEF Returned, IInv, StackInv
        <3> QED
            BY <2>2, <3>1, Singleton DEF Returned, Last
    <2>3. CASE ~Returned(talk, talk')
        BY <2>1, <2>3 DEF Shifted, Stayed, Ended, Asked, Advanced
    <2> QED
        BY <2>2, <2>3
<1> QED
    BY Invariant, <1>1, PTL DEF Spec, QuestionReturns
=============================================================================
