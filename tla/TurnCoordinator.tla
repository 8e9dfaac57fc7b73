-------------------------- MODULE TurnCoordinator --------------------------
(***************************************************************************)
(* TurnCoordinator of one voice call (app/runtime/turn_coordinator.py):    *)
(* the events of an unreliable transport, possibly duplicated, late or out *)
(* of order, become turns for the processor and SPEAK / CANCEL_CURRENT     *)
(* instructions for the player.                                            *)
(*                                                                         *)
(* handle reads nothing of an event whose id it has seen, so an event      *)
(* delivered again is an id met again, whatever the record beside it.      *)
(* Utterances, plans and texts are abstracted: a turn id stands for them,  *)
(* and an InterruptionContext for the turn whose delivery was cut.         *)
(*                                                                         *)
(* issued, runs, completed and stopped are histories: what the coordinator *)
(* ordered, what it asked of the processor, and the deliveries the player  *)
(* reported finished or interrupted.                                       *)
(***************************************************************************)
EXTENDS Python, Integers, Sequences

CONSTANTS EventIds,
          Turns,      \* turn ids
          MaxSeq      \* greatest sequence number an event carries

ASSUME CoordinatorAssumption ==
    /\ MaxSeq \in Nat
    /\ None \notin Turns

Events == [id : EventIds, seq : 0 .. MaxSeq, turn : Turns]

Live == {"PENDING", "DELIVERING"}

Status == Live \cup {"COMPLETED", "INTERRUPTED", "CANCELLED"}

Progress == {"NOT_STARTED", "PARTIAL", "COMPLETED"}

\* ActiveDelivery
ActiveDeliveries == [turn : Turns, status : Status, progress : Progress]

Instructions == [action : {"SPEAK", "CANCEL_CURRENT"}, turn : Turns]

\* A turn given to the processor: its sequence number, which cut delivery it was
\* told of, and how many instructions had been issued by then.
Runs == [turn : Turns, seq : 0 .. MaxSeq, told : Turns \cup {None}, at : Nat]

ASSUME NoneAssumption == None \notin ActiveDeliveries

VARIABLES
    lastSequence, processedEvents, processedTurns,
    currentTurn,    \* the turn the last SPEAK was for
    active,         \* its delivery
    pending,        \* the delivery whose interruption no turn has absorbed
    disconnected,
    issued, runs, completed, stopped

state == <<processedTurns, currentTurn, active, pending, disconnected,
           issued, runs, completed, stopped>>

vars == <<lastSequence, processedEvents, state>>

Init ==
    /\ lastSequence = -1
    /\ processedEvents = {}
    /\ processedTurns = {}
    /\ currentTurn = None
    /\ active = None
    /\ pending = None
    /\ disconnected = FALSE
    /\ issued = << >>
    /\ runs = << >>
    /\ completed = {}
    /\ stopped = {}

------------------------------------------------------------------------------
Speak(t) == [action |-> "SPEAK", turn |-> t]

Cancel(t) == [action |-> "CANCEL_CURRENT", turn |-> t]

Playing == active # None /\ active.status \in Live

\* Another call's event, a known id, or anything after the hang-up.
Ignore(e, ours) ==
    /\ \/ ~ours
       \/ e.id \in processedEvents
       \/ disconnected
    /\ UNCHANGED vars

Fresh(e) == e.id \notin processedEvents /\ ~disconnected

\* The id is remembered, the sequence number does not move.
Stale(e) ==
    /\ Fresh(e)
    /\ e.seq <= lastSequence
    /\ processedEvents' = processedEvents \cup {e.id}
    /\ UNCHANGED <<lastSequence, state>>

\* Mutant: an event with the last sequence number is not stale.
AcceptEqual(e) ==
    /\ Fresh(e)
    /\ e.seq >= lastSequence
    /\ lastSequence' = e.seq
    /\ processedEvents' = processedEvents \cup {e.id}

\* _record_event, the common beginning of everything below.
Accept(e) ==
    /\ Fresh(e)
    /\ e.seq > lastSequence
    /\ lastSequence' = e.seq
    /\ processedEvents' = processedEvents \cup {e.id}

\* CALL_STARTED and RUNTIME_ERROR; speech or reports that concern no delivery.
NoEffect(e) ==
    /\ Accept(e)
    /\ UNCHANGED state

SpeechStarted(e) ==
    /\ Accept(e)
    /\ IF Playing
          THEN /\ active' = [active EXCEPT
                     !.status = "INTERRUPTED",
                     !.progress = IF active.status = "DELIVERING"
                                     THEN "PARTIAL" ELSE "NOT_STARTED"]
               /\ pending' = active.turn
               /\ issued' = Append(issued, Cancel(active.turn))
          ELSE UNCHANGED <<active, pending, issued>>
    /\ UNCHANGED <<processedTurns, currentTurn, disconnected, runs, completed,
                   stopped>>

OrdersNoCancel == issued

\* _final_utterance up to the processor: what is playing is cut, the turn id is
\* used up, and the processor learns of the interruption.
Cut == IF Playing THEN active.turn ELSE pending

Orders == IF Playing THEN Append(issued, Cancel(active.turn)) ELSE issued

RepeatedTurn(e) ==
    /\ Accept(e)
    /\ e.turn \in processedTurns
    /\ UNCHANGED state

StartTurn(e) ==
    /\ Accept(e)
    /\ e.turn \notin processedTurns
    /\ processedTurns' = processedTurns \cup {e.turn}
    /\ runs' = Append(runs, [turn |-> e.turn, seq |-> e.seq, told |-> Cut,
                             at |-> Len(issued)])
    /\ UNCHANGED <<disconnected, completed, stopped>>

TurnProcessed(e) ==
    /\ StartTurn(e)
    /\ currentTurn' = e.turn
    /\ active' = [turn |-> e.turn, status |-> "PENDING", progress |-> "NOT_STARTED"]
    /\ pending' = None
    /\ issued' = Append(Orders, Speak(e.turn))

\* Mutant: a failed turn absorbs the interruption.
TurnFailedForgets(e) ==
    /\ StartTurn(e)
    /\ active' = IF Playing THEN [active EXCEPT !.status = "CANCELLED"] ELSE active
    /\ pending' = None
    /\ issued' = Orders
    /\ UNCHANGED currentTurn

\* process_turn raises, or answers for another turn.
TurnFailed(e) ==
    /\ StartTurn(e)
    /\ active' = IF Playing THEN [active EXCEPT !.status = "CANCELLED"] ELSE active
    /\ pending' = Cut
    /\ issued' = Orders
    /\ UNCHANGED currentTurn

\* The player's report on the current response, unless that has ended.
DeliveryUpdate(e, status) ==
    /\ Accept(e)
    /\ IF Playing /\ e.turn = currentTurn
          THEN /\ active' = [active EXCEPT
                     !.status = status,
                     !.progress = IF status = "COMPLETED" THEN "COMPLETED"
                                                          ELSE "PARTIAL"]
               /\ pending' = IF status = "INTERRUPTED" THEN active.turn ELSE pending
               /\ completed' = IF status = "COMPLETED"
                                  THEN completed \cup {active.turn} ELSE completed
               /\ stopped' = IF status = "INTERRUPTED"
                                THEN stopped \cup {active.turn} ELSE stopped
          ELSE UNCHANGED <<active, pending, completed, stopped>>
    /\ UNCHANGED <<processedTurns, currentTurn, disconnected, issued, runs>>

\* An interrupted delivery is cancelled (again) too.
Disconnect(e) ==
    /\ Accept(e)
    /\ disconnected' = TRUE
    /\ pending' = None
    /\ IF active # None /\ active.status \notin {"COMPLETED", "CANCELLED"}
          THEN /\ active' = [active EXCEPT !.status = "CANCELLED"]
               /\ issued' = Append(issued, Cancel(active.turn))
          ELSE UNCHANGED <<active, issued>>
    /\ UNCHANGED <<processedTurns, currentTurn, runs, completed, stopped>>

Next ==
    \E e \in Events :
        \/ \E ours \in BOOLEAN : Ignore(e, ours)
        \/ Stale(e)
        \/ NoEffect(e)
        \/ SpeechStarted(e)
        \/ RepeatedTurn(e)
        \/ TurnProcessed(e)
        \/ TurnFailed(e)
        \/ \E status \in {"DELIVERING", "COMPLETED", "INTERRUPTED"} :
              DeliveryUpdate(e, status)
        \/ Disconnect(e)

Spec == Init /\ [][Next]_vars

------------------------------------------------------------------------------
\* Every variable keeps its type.
TypeOK ==
    /\ lastSequence \in -1 .. MaxSeq
    /\ processedEvents \in SUBSET EventIds
    /\ processedTurns \in SUBSET Turns
    /\ currentTurn \in Turns \cup {None}
    /\ active \in ActiveDeliveries \cup {None}
    /\ pending \in Turns \cup {None}
    /\ disconnected \in BOOLEAN
    /\ issued \in Seq(Instructions)
    /\ runs \in Seq(Runs)
    /\ completed \in SUBSET Turns
    /\ stopped \in SUBSET Turns

\* A turn is given to the processor at most once and spoken at most once, however
\* often its utterance is delivered and under however many event ids, and the
\* processor sees the turns in the order of their sequence numbers.
TurnsOnceInOrder ==
    /\ \A i, j \in DOMAIN runs :
          /\ runs[i].turn = runs[j].turn => i = j
          /\ i < j => runs[i].seq < runs[j].seq
    /\ \A i, j \in DOMAIN issued :
          (issued[i].action = "SPEAK" /\ issued[i] = issued[j]) => i = j

\* The player may be speaking turn t: it was told to, was never told to stop and
\* has reported no end.
Audible(t) ==
    /\ \E i \in DOMAIN issued : issued[i] = Speak(t)
    /\ \A i \in DOMAIN issued : issued[i] # Cancel(t)
    /\ t \notin completed \cup stopped

\* Two responses are never on the line at once, and none after the hang-up: the
\* only audible one is the active delivery.
OneVoice ==
    \A t \in Turns : Audible(t) => Playing /\ active.turn = t /\ ~disconnected

\* What a turn is told of interruptions is true and complete: it is the response
\* ordered last before it, unless that had been delivered to its end.  A turn
\* whose processing failed does not swallow the news.
InterruptionsTold ==
    \A k \in DOMAIN runs :
        LET before == {i \in 1 .. runs[k].at : issued[i].action = "SPEAK"}
        IN  /\ before = {} => runs[k].told = None
            /\ \A i \in before : (\A j \in before : j <= i) =>
                  runs[k].told = IF issued[i].turn \in completed
                                    THEN None ELSE issued[i].turn
=============================================================================
