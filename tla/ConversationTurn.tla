--------------------------- MODULE ConversationTurn ---------------------------
(***************************************************************************)
(* The turn pipeline behind one sales session: ProductionTurnProcessor     *)
(* asks BrainOrchestrator for trusted priority, budget, proposal, scope    *)
(* and authority; ConversationEngine then validates the approved action,   *)
(* applies it to the state machine of conversation_config.yaml, or tries   *)
(* one deterministic fallback.  PersistentSalesRuntime commits the turn    *)
(* and its snapshot, or rolls back; a new process resumes from it.         *)
(*                                                                         *)
(* One turn is two steps: the processor's in-memory work, then the commit. *)
(* Between them anything may fail, and what was changed in memory stays,   *)
(* but for the reasoning-call count of a turn whose commit failed.         *)
(*                                                                         *)
(* The reasoning provider, scope, authority and service selection are      *)
(* external: they approve any action, any eligible service, or nothing.    *)
(* The state follow_up is left out: no rule leads to it.                   *)
(***************************************************************************)
EXTENDS Naturals, FiniteSets, SequencesExt

CONSTANTS
    Contacts,     \* contact values the resolver can produce
    Channels,     \* channels an understanding can name
    Services,     \* services the campaign's signals make applicable
    None,         \* absence of a value
    MaxTurns,     \* max_turns of the budget policy
    MaxCalls,     \* max_reasoning_calls of the budget policy
    MaxOffers,    \* service_offer_max_attempts
    MaxAttempts,  \* contact clarification attempts of a channel
    HasCallback,  \* the initial context names a callback
    HasContactId  \* the initial context names the contact spoken to

ASSUME LimitsAssumption ==
    /\ MaxTurns \in Nat /\ MaxCalls \in Nat
    /\ MaxOffers \in Nat /\ MaxAttempts \in Nat
    /\ HasCallback \in BOOLEAN /\ HasContactId \in BOOLEAN

VARIABLES
    talk,       \* the machine and the trusted context of the live processor
    turnsLeft,  \* turns remaining in this process's budget
    calls,      \* reasoning calls the processor has counted
    turn,       \* the processed turn that is not yet committed, or None
    status,     \* committed session status
    snapshot,   \* committed snapshot: state and reasoning calls, or None
    heard,      \* history: the last clear contact value the client gave
    origin,     \* history: where the open question was asked
    reasoned,   \* history: reasoning calls of committed turns
    faults      \* history: the kinds of failure so far

vars == <<talk, turnsLeft, calls, turn, status, snapshot, heard, origin,
          reasoned, faults>>

-----------------------------------------------------------------------------
(* The transition table and the fallbacks. *)

Previous == "__previous__"

Rules ==
  [new_call        |-> [greet |-> "greeting", mark_dnc |-> "end_call"],
   greeting        |-> [ask_identity |-> "identify_person",
                        mark_dnc |-> "end_call", end_call |-> "end_call"],
   identify_person |-> [introduce_reason |-> "introduce",
                        ask_identity |-> "identify_decision_maker",
                        mark_dnc |-> "end_call", end_call |-> "end_call"],
   introduce       |-> [introduce_reason |-> "reason_for_call",
                        mark_dnc |-> "end_call"],
   reason_for_call |-> [introduce_reason |-> "listen", mark_dnc |-> "end_call"],
   listen          |-> [ask_email |-> "collect_email",
                        offer_service |-> "explore_alternative",
                        schedule_callback |-> "schedule_callback",
                        answer_question |-> "handle_question",
                        ask_identity |-> "identify_decision_maker",
                        mark_dnc |-> "end_call", end_call |-> "end_call"],
   explore_alternative |->
                       [ask_email |-> "collect_email",
                        offer_service |-> "explore_alternative",
                        schedule_callback |-> "schedule_callback",
                        answer_question |-> "handle_question",
                        mark_dnc |-> "end_call", end_call |-> "end_call"],
   handle_question |-> [answer_question |-> Previous,
                        mark_dnc |-> "end_call", end_call |-> "end_call"],
   collect_email   |-> [confirm_contact |-> "confirm_contact",
                        clarify_contact |-> "collect_email",
                        ask_email |-> "collect_email",
                        schedule_callback |-> "schedule_callback",
                        mark_dnc |-> "end_call", end_call |-> "end_call"],
   confirm_contact |-> [confirm_contact |-> "end_call",
                        ask_email |-> "collect_email",
                        mark_dnc |-> "end_call", end_call |-> "end_call"],
   schedule_callback |->
                       [schedule_callback |-> "end_call",
                        mark_dnc |-> "end_call", end_call |-> "end_call"],
   identify_decision_maker |->
                       [introduce_reason |-> "reason_for_call",
                        mark_dnc |-> "end_call", end_call |-> "end_call"],
   end_call        |-> <<>>]

States == DOMAIN Rules

Actions == UNION {DOMAIN Rules[s] : s \in States}

Detours == {"handle_question"}

ContactStates == {"collect_email", "confirm_contact"}

ContactActions == {"ask_email", "confirm_contact", "clarify_contact"}

Escapes == {"mark_dnc", "end_call"}

\* Mutant: a rejected action in an unlisted state closes every call.
StateFallbackCloses(s) == "end_call"

StateFallback(s) ==
    CASE s = "greeting" -> "ask_identity"
      [] s \in {"identify_person", "introduce", "reason_for_call",
                "identify_decision_maker"} -> "introduce_reason"
      [] s \in {"listen", "handle_question", "explore_alternative"} ->
             "answer_question"
      [] s = "collect_email" -> "ask_email"
      [] s = "confirm_contact" -> "confirm_contact"
      [] s = "schedule_callback" -> "schedule_callback"
      [] OTHER -> "end_call"

-----------------------------------------------------------------------------
(* ActionValidator, ConversationStateMachine and ConversationContext. *)

Clarifications == [channel : Channels \cup {None}, attempts : 0..MaxAttempts]

Talks == [state : States, stack : Seq(States \ {"end_call"}),
          candidate : Contacts \cup {None}, confirmed : BOOLEAN,
          dnc : BOOLEAN, offered : SUBSET Services,
          clarification : Clarifications]

Paths == {"applied", "fallback", "fallback_failed", "rejected", "offer",
          "contact", "terminal", "unexecuted"}

Turns == [priority : {"none", "dnc", "not_interested"}, path : Paths,
          persist : Contacts \cup {None}, terminal : BOOLEAN, before : Nat]

Snapshots == [state : States, calls : Nat]

ASSUME NoneAssumption ==
    None \notin Contacts \cup Channels \cup Services \cup Turns \cup Snapshots

\* What a processor built for state s knows.
Fresh(s) ==
    [state |-> s, stack |-> <<>>, candidate |-> None, confirmed |-> FALSE,
     dnc |-> FALSE, offered |-> {},
     clarification |-> [channel |-> None, attempts |-> 0]]

\* Mutant: leaving the call must also meet what the state requires.
StateReadyForAll(t, a) == t.state = "confirm_contact" => t.candidate # None

StateReady(t, a) ==
    \/ a \in Escapes
    \/ t.state = "confirm_contact" => t.candidate # None

RuleReady(t, a) ==
    /\ t.state = "collect_email" /\ a = "confirm_contact" => t.candidate # None
    /\ t.state = "confirm_contact" /\ a = "confirm_contact" => t.confirmed
    /\ t.state = "schedule_callback" /\ a = "schedule_callback" => HasCallback

Valid(t, a) ==
    /\ t.dnc => a \in Escapes
    /\ StateReady(t, a)
    /\ a \in DOMAIN Rules[t.state]
    /\ RuleReady(t, a)

\* A detour can be left only when the stack remembers where it was entered.
Applicable(t, a) == Rules[t.state][a] = Previous => t.stack # <<>>

\* Mutant: a question always returns to the hub.
AppliedToHub(t, a) ==
    LET to == Rules[t.state][a]
    IN  IF to = Previous
           THEN [t EXCEPT !.state = "listen", !.stack = Front(@)]
           ELSE [t EXCEPT !.state = to,
                          !.stack = IF to \in Detours THEN Append(@, t.state)
                                                      ELSE @,
                          !.dnc = @ \/ a = "mark_dnc"]

Applied(t, a) ==
    LET to == Rules[t.state][a]
    IN  IF to = Previous
           THEN [t EXCEPT !.state = Last(t.stack), !.stack = Front(@)]
           ELSE [t EXCEPT !.state = to,
                          !.stack = IF to \in Detours THEN Append(@, t.state)
                                                      ELSE @,
                          !.dnc = @ \/ a = "mark_dnc"]

-----------------------------------------------------------------------------
(* ConversationEngine: each operator is a ConversationResult - the new     *)
(* machine and context, the path taken, the contact to persist.            *)

Result(t, path, persist) == [talk |-> t, path |-> path, persist |-> persist]

Rejected(t) == Result(t, "rejected", None)

FallbackPath(t, a) ==
    IF Valid(t, a) /\ Applicable(t, a)
       THEN Result(Applied(t, a), "fallback", None)
       ELSE Result(t, "fallback_failed", None)

\* A pending do-not-call request overrides the state's own recovery.
Recovery(t, a) ==
    IF t.dnc /\ a \notin Escapes THEN "mark_dnc" ELSE StateFallback(t.state)

ValidateAndApply(t, a) ==
    IF Valid(t, a)
       THEN IF Applicable(t, a) THEN Result(Applied(t, a), "applied", None)
                                ELSE Rejected(t)
       ELSE FallbackPath(t, Recovery(t, a))

Eligible(t) ==
    IF Cardinality(t.offered) < MaxOffers THEN Services \ t.offered ELSE {}

\* `s' is the approved service, None when selection approves nothing.
OfferPath(t, s) ==
    CASE s = None -> FallbackPath(t, StateFallback(t.state))
      [] s # None /\ Valid(t, "offer_service") ->
             Result([Applied(t, "offer_service") EXCEPT !.offered = @ \cup {s}],
                    "offer", None)
      [] OTHER -> Rejected(t)

HandleConfirmation(t) ==
    LET sure == [t EXCEPT !.confirmed = TRUE]
    IN  IF t.candidate # None /\ HasContactId /\ Valid(sure, "confirm_contact")
           THEN Result(Applied(sure, "confirm_contact"), "contact", t.candidate)
           ELSE Rejected(t)

\* An understanding the client gave: `value' is the resolved contact or None;
\* a reference no resolver supports is one that asking again cannot mend.
Understandings ==
    {u \in [intent : {"provide", "confirm"}, channel : Channels,
            value : Contacts \cup {None}, supported : BOOLEAN] :
        u.value # None => u.supported}

Attempts(t, u) ==
    IF t.clarification.channel = u.channel THEN t.clarification.attempts ELSE 0

AttemptsAfter(t, u) ==
    IF u.value # None \/ Attempts(t, u) >= MaxAttempts
       THEN Attempts(t, u)
       ELSE Attempts(t, u) + 1

Clarified(t, u) ==
    [t EXCEPT !.clarification = [channel  |-> u.channel,
                                 attempts |-> AttemptsAfter(t, u)]]

RunClarification(t, u) ==
    CASE u.value # None -> ValidateAndApply(Clarified(t, u), "confirm_contact")
      [] u.value = None /\ AttemptsAfter(t, u) < MaxAttempts ->
             ValidateAndApply(Clarified(t, u), "clarify_contact")
      [] OTHER -> FallbackPath(Clarified(t, u), StateFallback(t.state))

\* Mutant: the first candidate is kept when the client corrects it.
CandidateFirst(t, u) ==
    IF u.value # None /\ t.candidate = None THEN u.value ELSE t.candidate

Candidate(t, u) == IF u.value # None THEN u.value ELSE t.candidate

ContactPath(t, u) ==
    IF t.state = "confirm_contact" /\ u.intent = "confirm"
       THEN HandleConfirmation(t)
       ELSE IF ~u.supported THEN FallbackPath(t, StateFallback(t.state))
       ELSE RunClarification([t EXCEPT !.candidate = Candidate(t, u)], u)

-----------------------------------------------------------------------------
(* ProductionTurnProcessor and BrainOrchestrator: one action per path.     *)

Ready == status = "ACTIVE" /\ turn = None

Exhausted == calls >= MaxCalls \/ turnsLeft = 0

\* The turn reports TERMINAL when the engine ran and the machine is at its end.
Ends(r, priority) == r.path # "unexecuted" /\ r.talk.state = "end_call"

\* The processor finishes the turn with result r; n reasoning calls were made.
Take(r, priority, n) ==
    /\ talk' = r.talk
    /\ turnsLeft' = IF turnsLeft = 0 THEN 0 ELSE turnsLeft - 1
    /\ calls' = calls + n
    /\ turn' = [priority |-> priority, path |-> r.path, persist |-> r.persist,
                terminal |-> Ends(r, priority), before |-> calls]
    /\ origin' = IF r.talk.state \in Detours
                    THEN IF talk.state \in Detours THEN origin ELSE talk.state
                    ELSE None
    /\ UNCHANGED <<status, snapshot, reasoned, faults>>

PriorityAction(priority) == IF priority = "dnc" THEN "mark_dnc" ELSE "end_call"

\* A trusted do-not-call or not-interested outcome: before budget and Brain.
PriorityTurn(priority) ==
    /\ Ready
    /\ IF talk.state = "end_call"
          THEN Take(Result(talk, "terminal", None), priority, 0)
          ELSE Take(ValidateAndApply(talk, PriorityAction(priority)), priority, 0)
    /\ UNCHANGED heard

\* No budget: the turn is answered, nothing is executed.
WindDownTurn ==
    /\ Ready
    /\ Exhausted
    /\ Take(Result(talk, "unexecuted", None), "none", 0)
    /\ UNCHANGED heard

\* The provider failed, or its proposal was malformed, empty, out of scope,
\* denied, escalated or bounded: the call is counted, nothing is executed.
UnapprovedTurn ==
    /\ Ready
    /\ ~Exhausted
    /\ Take(Result(talk, "unexecuted", None), "none", 1)
    /\ UNCHANGED heard

\* An approved action finds the machine already at its end.
LateTurn ==
    /\ Ready
    /\ ~Exhausted
    /\ talk.state = "end_call"
    /\ Take(Result(talk, "terminal", None), "none", 1)
    /\ UNCHANGED heard

Approved == Ready /\ ~Exhausted /\ talk.state # "end_call"

OfferTurn(s) ==
    /\ Approved
    /\ s \in Eligible(talk) \cup {None}
    /\ Take(OfferPath(talk, s), "none", 1)
    /\ UNCHANGED heard

ContactTurn(u) ==
    /\ Approved
    /\ talk.state \in ContactStates
    /\ Take(ContactPath(talk, u), "none", 1)
    /\ heard' = IF talk.state = "confirm_contact" /\ u.intent = "confirm"
                   THEN heard
                   ELSE IF u.value # None THEN u.value ELSE heard

\* A contact action whose utterance could not be understood.
UnheardContactTurn ==
    /\ Approved
    /\ talk.state \in ContactStates
    /\ Take(Rejected(talk), "none", 1)
    /\ UNCHANGED heard

ActionTurn(a) ==
    /\ Approved
    /\ a # "offer_service"
    /\ ~(a \in ContactActions /\ talk.state \in ContactStates)
    /\ Take(ValidateAndApply(talk, a), "none", 1)
    /\ UNCHANGED heard

-----------------------------------------------------------------------------
(* PersistentSalesRuntime: commit, roll back, fail; a new process.         *)

\* Mutant: the snapshot has no reasoning calls.
ExportedNoBudget == [state |-> talk.state, calls |-> 0]

Exported == [state |-> talk.state, calls |-> calls]

Commit ==
    /\ turn # None
    /\ snapshot' = Exported
    /\ status' = IF turn.terminal THEN "COMPLETED" ELSE "ACTIVE"
    /\ reasoned' = reasoned + (calls - turn.before)
    /\ turn' = None
    /\ UNCHANGED <<talk, turnsLeft, calls, heard, origin, faults>>

\* The unit of work fails: the call count is restored, nothing else is.
CommitFails ==
    /\ turn # None
    /\ calls' = turn.before
    /\ turn' = None
    /\ faults' = faults \cup {"commit"}
    /\ UNCHANGED <<talk, turnsLeft, status, snapshot, heard, origin, reasoned>>

\* The processor raises after the engine ran, in planning or rendering:
\* outside the handler that restores the count.
TurnRaises ==
    /\ turn # None
    /\ turn' = None
    /\ faults' = faults \cup {"raise"}
    /\ UNCHANGED <<talk, turnsLeft, calls, status, snapshot, heard, origin,
                   reasoned>>

\* The process dies and another restores the session.  The machine refuses
\* to start at its end, and recovery refuses a session that is closed.
Restart ==
    /\ status = "ACTIVE"
    /\ snapshot # None => snapshot.state # "end_call"
    /\ talk' = Fresh(IF snapshot = None THEN "new_call" ELSE snapshot.state)
    /\ calls' = IF snapshot = None THEN 0 ELSE snapshot.calls
    /\ turnsLeft' = MaxTurns
    /\ turn' = None
    /\ UNCHANGED <<status, snapshot, heard, origin, reasoned, faults>>

Init ==
    /\ talk = Fresh("new_call")
    /\ turnsLeft = MaxTurns
    /\ calls = 0
    /\ turn = None
    /\ status = "ACTIVE"
    /\ snapshot = None
    /\ heard = None
    /\ origin = None
    /\ reasoned = 0
    /\ faults = {}

Next ==
    \/ \E p \in {"dnc", "not_interested"} : PriorityTurn(p)
    \/ WindDownTurn
    \/ UnapprovedTurn
    \/ LateTurn
    \/ \E s \in Services \cup {None} : OfferTurn(s)
    \/ \E u \in Understandings : ContactTurn(u)
    \/ UnheardContactTurn
    \/ \E a \in Actions : ActionTurn(a)
    \/ Commit
    \/ CommitFails
    \/ TurnRaises
    \/ Restart

Spec == Init /\ [][Next]_vars

-----------------------------------------------------------------------------
(* Properties. *)

\* The processor, its turn and the committed row have their shapes; attempts
\* stay within their limit.
TypeOK ==
    /\ talk \in Talks
    /\ turnsLeft \in 0..MaxTurns
    /\ calls \in 0..MaxCalls
    /\ turn \in Turns \cup {None}
    /\ status \in {"ACTIVE", "COMPLETED"}
    /\ snapshot \in Snapshots \cup {None}
    /\ snapshot # None => snapshot.calls <= MaxCalls
    /\ heard \in Contacts \cup {None}
    /\ origin \in States \cup {None}
    /\ reasoned \in 0..MaxCalls
    /\ faults \subseteq {"commit", "raise"}

\* A do-not-call turn ends the call, in whatever state, with whatever budget
\* is left and whatever a restart has forgotten (priority.py, orchestrator
\* process_turn, the validator's exemption of MARK_DNC).
DncHonoured ==
    turn # None /\ turn.priority = "dnc" =>
        turn.terminal /\ talk.state = "end_call"

\* No recovery from a rejected action, an exhausted clarification or a missing
\* offer ends the call (the comment over by_state in conversation_config.yaml).
MisstepGoesOn ==
    turn # None /\ turn.path \in {"fallback", "fallback_failed"} =>
        turn.terminal = FALSE

\* What is persisted is the last clear contact the client gave, and a call is
\* qualified only by it: not a corrected one, not one from before a restart.
QualifiedIsConfirmed ==
    turn # None =>
        /\ turn.persist # None => turn.persist = heard
        /\ talk.confirmed => talk.candidate = heard /\ talk.state = "end_call"

\* A question is answered back to where it was asked, or the call ends there.
QuestionReturns ==
    [][talk.state = "handle_question" /\ turn = None /\ turn' # None =>
          talk'.state \in {"handle_question", "end_call", origin}]_vars

\* At most one detour is open, and only a question is a detour.
OneDetour ==
    /\ Len(talk.stack) <= 1
    /\ talk.stack # <<>> => talk.state \in {"handle_question", "end_call"}

\* Between turns the processor has counted the calls of the committed turns,
\* through failed commits and restarts; a turn that raises may only add to it.
CommittedBudget ==
    turn = None =>
        /\ calls >= reasoned
        /\ "raise" \notin faults => calls = reasoned

\* Without failures the row is COMPLETED exactly when the machine is at its
\* end, so every session a restart finds ACTIVE can be restored.
ClosedWhenEnded ==
    turn = None /\ faults = {} =>
        (status = "COMPLETED" <=> talk.state = "end_call")

=============================================================================
