----------------------------- MODULE ChatCampaign -----------------------------
(* A campaign run through the in-memory chat runtime: SessionBootstrapService *)
(* opens a session for the lead the queue engine chose, ChatRuntime takes its *)
(* turns, SalesSessionLifecycleService reports its outcome, and the queue     *)
(* store keeps what became of the lead.  Drivers are what calls all of them:  *)
(* each works on the copy of a queue entry it was given, however old.         *)
(*                                                                            *)
(* Neither store takes a lock, and both compare before they write: what is    *)
(* compared is read in one step and what is written in another, so that other *)
(* threads come in between.  crossedSessions and crossedLeads only remember   *)
(* where one did; the code knows nothing of them.                             *)
EXTENDS Leads, FiniteSetsExt

CONSTANTS
    Rows,          \* the imported file
    Existing,      \* phone numbers known before it
    Enrichment,    \* what a provider says of a lead, by row, None if nothing
    Policy,        \* the pre-call policy of the campaign, None if unregistered
    Services,      \* the services the campaign is authorized for
    Config,        \* the campaign's configuration
    Drivers,       \* what runs the campaign
    Minutes,       \* times of day at which a driver looks for a lead
    Elapsed,       \* seconds since the last call, None before the first
    SessionIds,    \* identities of sessions, one for every bootstrap request
    Callers,       \* threads that submit turns
    Findings,      \* what a caller may know of a call besides its flags
    MaxTurns       \* bound on turn sequences and on turns answered or under way

VARIABLES
    config,      \* the campaign configuration
    queue,       \* the stored entry of each lead
    today,       \* calls begun today
    sessions,    \* InMemoryChatSessionRepository, None where there is none
    answered,    \* the bootstrap answers kept, by request
    processors,  \* each session's processor: fresh or used, None if none
    driver,      \* what each driver is doing
    inTurn,      \* the session each caller changes, None if none
    acked,       \* turns answered with a result: session and sequence
    outcomes,    \* the outcomes reported for each session
    crossedSessions,  \* sessions two callers changed across each other
    crossedLeads      \* leads whose entry was written across somebody else

vars == <<config, queue, today, sessions, answered, processors, driver, inTurn,
          acked, outcomes, crossedSessions, crossedLeads>>

Import == ImportLeads(Rows, Existing, None)
Leads_ == {Import.accepted[i].id : i \in DOMAIN Import.accepted}
LeadWith(id) == CHOOSE lead \in Range(Import.accepted) : lead.id = id

\* What is known of a lead before it is called.
PlanFor(lead) ==
    PreCallPlan(Reconciled(lead, Enrichment[lead.id]), Policy, Services)

---------------------------------------------------------------------------
(* The contracts.                                                           *)

CampaignConfigs ==
    [status : {"draft", "active", "paused", "completed", "archived"},
     daily : Nat \ {0}, concurrent : Nat \ {0}, gap : Nat, retries : Nat,
     noAnswer : {"retry_later", "skip", "mark_exhausted"},
     window : {None} \cup [start : 0..1439, end : 0..1439]]

QueueEntries == [lead : Leads_, position : Nat, status : LeadQueueStatus,
                 attempts : Nat, dnc : BOOLEAN]

ChatSessions ==
    [lead : Leads_, status : {"active", "completed", "terminated", "error"},
     revision : Nat, turns : Nat, transcript : Seq(1..MaxTurns),
     plan : {PlanFor(LeadWith(l)) : l \in Leads_}]

Refusals == {"context_invalid", "not_eligible", "concurrency_conflict",
             "lead_not_found", "policy_not_found", "pcie_failed",
             "queue_transition_failed"}

Answers ==
    [created : BOOLEAN, reason : {None} \cup Refusals,
     entry : {None} \cup QueueEntries]

\* The sequence is 0 for a caller that terminates the session.
TurnsUnderWay == [id : SessionIds, session : ChatSessions,
                  sequence : 0..MaxTurns, step : {"processing", "storing"}]

ASSUME BoundsAssumption == MaxTurns \in Nat

\* None is not a value of any of them.
ASSUME NoneAssumption ==
    /\ None \notin BOOLEAN /\ None \notin Refusals
    /\ None \notin QueueEntries /\ None \notin ChatSessions
    /\ None \notin Answers /\ None \notin TurnsUnderWay
    /\ None \notin SessionIds /\ None \notin Drivers
    /\ None \notin {"fresh", "used"}

ASSUME ConfigAssumption == Config \in CampaignConfigs

\* A lead is known by the number of its row.
ASSUME ImportAssumption == Leads_ \subseteq Nat

ASSUME PolicyAssumption ==
    Policy # None =>
        /\ {Policy.required, Policy.optional} \subseteq Seq(STRING)
        /\ \A key \in DOMAIN Policy.override :
              Policy.override[key] \in DOMAIN PriorityRank

\* A finding says of each part of an ended call what it knows of it.
ASSUME FindingsAssumption ==
    \A f \in Findings :
        /\ DOMAIN f = DOMAIN EndedCall
        /\ f = [part \in DOMAIN f |-> f[part]]
        /\ {f.dnc, f.notInterested, f.error, f.terminal} \subseteq BOOLEAN

---------------------------------------------------------------------------

Idle == [phase |-> "idle", entry |-> None, request |-> None]

Init ==
    /\ config = Config
    /\ queue = [l \in Leads_ |-> Entry(l, l, "pending", 0, FALSE)]
    /\ today = 0
    /\ sessions = [s \in SessionIds |-> None]
    /\ answered = [s \in SessionIds |-> None]
    /\ processors = [s \in SessionIds |-> None]
    /\ driver = [d \in Drivers |-> Idle]
    /\ inTurn = [c \in Callers |-> None]
    /\ acked = {}
    /\ outcomes = [s \in SessionIds |-> {}]
    /\ crossedSessions = {}
    /\ crossedLeads = {}

Entries == {queue[l] : l \in Leads_}
OnThePhone == {e \in Entries : e.status = "in_progress"}

---------------------------------------------------------------------------
(* The campaign.                                                            *)

sessionVars == <<sessions, processors, inTurn, acked, crossedSessions>>

PauseOrResume ==
    /\ config' \in {Paused(config), Resumed(config)} \ {config}
    /\ UNCHANGED <<queue, today, answered, driver, outcomes, crossedLeads,
                   sessionVars>>

\* Who compared the entry of a lead and has not written it yet.
Writing(l) == {d \in Drivers : /\ driver[d].phase \in {"moving", "saving"}
                               /\ driver[d].entry.lead = l}

\* A step of a driver, or of nobody, that crosses what another one writes.
CrossLead(l, d) ==
    crossedLeads' = IF Writing(l) \subseteq {d} THEN crossedLeads
                    ELSE crossedLeads \cup {l}

\* An opt-out reaches the store from anywhere, at any time.
MarkDnc(l) ==
    /\ ~queue[l].dnc
    /\ queue' = [queue EXCEPT ![l] = MarkedDnc(@)]
    /\ CrossLead(l, None)
    /\ UNCHANGED <<config, today, answered, driver, outcomes, sessionVars>>

\* A driver asks the engine for the next lead, with the queue as it is now.
Select(d, minute, elapsed) ==
    LET snapshot == [today |-> today, active |-> Cardinality(OnThePhone)]
        next == NextLead(config, Entries, snapshot, minute, elapsed)
    IN  /\ driver[d].phase = "idle"
        /\ next.entry # None
        /\ driver' = [driver EXCEPT ![d] = [@ EXCEPT !.phase = "chosen",
                                                     !.entry = next.entry]]
        /\ UNCHANGED <<config, queue, today, answered, outcomes, crossedLeads,
                       sessionVars>>

---------------------------------------------------------------------------
(* SessionBootstrapService.                                                 *)

Rejection(reason) == [created |-> FALSE, reason |-> reason, entry |-> None]

\* What may be wrong with a request, its lead or the engine.
Troubles == {None, "identity", "eligibility", "no_lead", "lead", "engine"}

\* Why a bootstrap is refused before a session exists, None if it is not.
BootstrapRefusal(entry, s, trouble) ==
    IF trouble = "identity" THEN "context_invalid"
    ELSE IF trouble = "eligibility" \/ entry.dnc THEN "not_eligible"
    ELSE IF entry.status = "in_progress" \/ sessions[s] # None
    THEN "concurrency_conflict"
    ELSE IF trouble = "no_lead" THEN "lead_not_found"
    ELSE IF trouble = "lead" THEN "context_invalid"
    ELSE IF Policy = None THEN "policy_not_found"
    ELSE IF trouble = "engine" THEN "pcie_failed" ELSE None

NewSession(lead) ==
    [lead |-> lead.id, status |-> "active", revision |-> 0, turns |-> 0,
     transcript |-> <<>>, plan |-> PlanFor(lead)]

\* The session of a driver's request is there, the answer is not yet.
BeingOpened(d) == driver[d].phase \in {"opened", "moving"}

\* The first request for a session: it is refused, or the session is created.
\* Nobody else has the request, whose answer is kept.
Bootstrap(d, s, trouble) ==
    LET entry == driver[d].entry
        refusal == BootstrapRefusal(entry, s, trouble)
    IN  /\ driver[d].phase = "chosen" /\ answered[s] = None
        /\ \A e \in Drivers : driver[e].request # s
        /\ IF refusal = None
           THEN /\ sessions' = [sessions EXCEPT ![s] =
                                    NewSession(LeadWith(entry.lead))]
                /\ driver' = [driver EXCEPT ![d] =
                        [phase |-> "opened", entry |-> entry, request |-> s]]
                /\ UNCHANGED answered
           ELSE /\ answered' = [answered EXCEPT ![s] = Rejection(refusal)]
                /\ driver' = [driver EXCEPT ![d] = Idle]
                /\ UNCHANGED sessions
        /\ UNCHANGED <<config, queue, today, processors, inTurn, acked, outcomes,
                       crossedSessions, crossedLeads>>

\* The queue store reads the lead's entry and compares its status.
CompareEntry(d) ==
    LET entry == driver[d].entry
        stored == queue[entry.lead]
    IN  /\ driver[d].phase = "opened"
        /\ Moves(stored, entry.status, "in_progress")
        /\ driver' = [driver EXCEPT ![d] = [@ EXCEPT !.phase = "moving",
                                                     !.entry = stored]]
        /\ CrossLead(entry.lead, d)
        /\ UNCHANGED <<config, queue, today, answered, outcomes, sessionVars>>

\* The store refuses the entry, or fails: the session is taken back.
TakeBack(d) ==
    LET s == driver[d].request
    IN  /\ BeingOpened(d)
        /\ sessions' = [sessions EXCEPT ![s] = None]
        /\ answered' = [answered EXCEPT ![s] =
                           Rejection("queue_transition_failed")]
        /\ driver' = [driver EXCEPT ![d] = Idle]
        /\ UNCHANGED <<config, queue, today, processors, inTurn, acked, outcomes,
                       crossedSessions, crossedLeads>>

\* It writes: an entry whose status is no longer the one compared stays as it
\* is, and nobody looks at how many rows were written.
MoveEntry(d) ==
    LET entry == driver[d].entry
        s == driver[d].request
        moved == [entry EXCEPT !.status = "in_progress"]
    IN  /\ driver[d].phase = "moving"
        /\ queue' = [queue EXCEPT ![entry.lead] =
                        UpdatedWhere(@, entry.status, "in_progress")]
        /\ answered' = [answered EXCEPT ![s] =
                [created |-> TRUE, reason |-> None, entry |-> moved]]
        /\ processors' = [processors EXCEPT ![s] = "fresh"]
        /\ today' = today + 1
        /\ driver' = [driver EXCEPT ![d] =
                [phase |-> "talking", entry |-> moved, request |-> s]]
        /\ UNCHANGED <<config, sessions, inTurn, acked, outcomes,
                       crossedSessions, crossedLeads>>

\* A driver that missed the answer asks again: it gets the answer kept, and
\* the session a new processor.
RetryBootstrap(d) ==
    LET s == driver[d].request
    IN  /\ driver[d].phase = "talking"
        /\ answered[s].created /\ processors[s] = "used"
        /\ processors' = [processors EXCEPT ![s] = "fresh"]
        /\ UNCHANGED <<config, queue, today, sessions, answered, driver, inTurn,
                       acked, outcomes, crossedSessions, crossedLeads>>

---------------------------------------------------------------------------
(* ChatRuntime.  A caller knows a session from the answer of its bootstrap. *)

campaignVars == <<config, queue, today, answered, driver, crossedLeads>>

UnderWay == {c \in Callers : inTurn[c] # None}

\* Who compared revisions with a session and has not stored it yet.
Storing(s) == {c \in UnderWay : inTurn[c].id = s /\ inTurn[c].step = "storing"}

CrossSession(s) ==
    crossedSessions' = IF Storing(s) = {} THEN crossedSessions
                       ELSE crossedSessions \cup {s}

\* The session is read and the processor called; a turn that is not newer
\* than the session's, or for a session that ended, is refused.
BeginTurn(c, s, sequence) ==
    /\ inTurn[c] = None /\ processors[s] # None
    /\ sessions[s].status = "active"
    /\ sequence > sessions[s].turns
    /\ Cardinality(acked) + Cardinality(UnderWay) < MaxTurns
    /\ processors' = [processors EXCEPT ![s] = "used"]
    /\ inTurn' = [inTurn EXCEPT ![c] = [id |-> s, session |-> sessions[s],
                            sequence |-> sequence, step |-> "processing"]]
    /\ UNCHANGED <<sessions, acked, outcomes, crossedSessions, campaignVars>>

\* Mutant: an update is stored whatever was stored since the session was read.
UpdatesStale(current, read) == TRUE

\* Whether the repository takes an update of the session that was read.
Updates(current, read) == current.revision = read.revision

\* The session with one more turn.
Answered(session, sequence, terminal) ==
    [session EXCEPT !.revision = @ + 1, !.turns = sequence,
                    !.status = IF terminal THEN "completed" ELSE "active",
                    !.transcript = Append(@, sequence)]

\* The processor has answered, and the session was not changed since it was
\* read: the repository makes the next one.
CompareTurn(c, terminal) ==
    LET t == inTurn[c]
    IN  /\ t # None
        /\ t.step = "processing"
        /\ Updates(sessions[t.id], t.session)
        /\ inTurn' = [inTurn EXCEPT ![c] =
                [t EXCEPT !.session = Answered(@, t.sequence, terminal),
                          !.step = "storing"]]
        /\ CrossSession(t.id)
        /\ UNCHANGED <<sessions, processors, acked, outcomes, campaignVars>>

\* The processor raises, or the session changed in the meantime: the turn
\* fails, though the processor took part in it.
FailTurn(c) ==
    /\ inTurn[c] # None
    /\ inTurn[c].step = "processing"
    /\ inTurn' = [inTurn EXCEPT ![c] = None]
    /\ UNCHANGED <<sessions, processors, acked, outcomes, crossedSessions,
                   campaignVars>>

\* The end of a session is an update too.
Terminate(c, s) ==
    /\ inTurn[c] = None /\ processors[s] # None
    /\ sessions[s].status = "active"
    /\ inTurn' = [inTurn EXCEPT ![c] =
            [id |-> s, session |-> [sessions[s] EXCEPT !.status = "terminated",
                                                       !.revision = @ + 1],
             sequence |-> 0, step |-> "storing"]]
    /\ CrossSession(s)
    /\ UNCHANGED <<sessions, processors, acked, outcomes, campaignVars>>

\* The lifecycle service reports a terminal turn knowing only that it ended.
Reported(terminal) == IF terminal THEN {LeadOutcome(EndedCall)} ELSE {}

\* It is stored over whatever is there, and a turn is answered.
StoreSession(c) ==
    LET t == inTurn[c]
    IN  /\ t # None
        /\ t.step = "storing"
        /\ sessions' = [sessions EXCEPT ![t.id] = t.session]
        /\ acked' = acked \cup (IF t.sequence = 0 THEN {}
                                ELSE {<<t.id, t.sequence>>})
        /\ outcomes' = [outcomes EXCEPT ![t.id] =
                            @ \cup Reported(t.session.status = "completed")]
        /\ inTurn' = [inTurn EXCEPT ![c] = None]
        /\ UNCHANGED <<processors, crossedSessions, campaignVars>>

---------------------------------------------------------------------------
(* After a call.                                                            *)

\* What a driver makes of the entry it holds, and the flags it reports.
Results == {"completed", "no_answer", "dnc"}

AfterCall(entry, result) ==
    CASE result = "completed" -> MarkedCompleted(entry)
      [] result = "no_answer" -> NoAnswer(entry, config)
      [] result = "dnc" -> MarkedDnc(entry)

\* The driver reports the outcome and saves the entry: the store reads the one
\* it has, and may refuse to forget an opt-out.
Record(d, result, findings) ==
    LET s == driver[d].request
        after == AfterCall(driver[d].entry, result)
    IN  /\ driver[d].phase = "talking"
        /\ sessions[s].status # "active"
        /\ outcomes' = [outcomes EXCEPT ![s] = @ \cup
                {LeadOutcome([findings EXCEPT !.dnc = result = "dnc"])}]
        /\ IF Saves(queue[after.lead], after)
           THEN /\ driver' = [driver EXCEPT ![d] = [@ EXCEPT !.phase = "saving",
                                                             !.entry = after]]
                /\ CrossLead(after.lead, d)
           ELSE /\ driver' = [driver EXCEPT ![d] = Idle]
                /\ UNCHANGED crossedLeads
        /\ UNCHANGED <<config, queue, today, answered, sessionVars>>

\* The store replaces the entry, whatever it is by now.
SaveEntry(d) ==
    LET entry == driver[d].entry
    IN  /\ driver[d].phase = "saving"
        /\ queue' = [queue EXCEPT ![entry.lead] = entry]
        /\ driver' = [driver EXCEPT ![d] = Idle]
        /\ UNCHANGED <<config, today, answered, outcomes, crossedLeads,
                       sessionVars>>

Next ==
    \/ PauseOrResume
    \/ \E l \in Leads_ : MarkDnc(l)
    \/ \E d \in Drivers, m \in Minutes, e \in Elapsed : Select(d, m, e)
    \/ \E d \in Drivers, s \in SessionIds, t \in Troubles : Bootstrap(d, s, t)
    \/ \E d \in Drivers : \/ CompareEntry(d) \/ TakeBack(d) \/ MoveEntry(d)
                          \/ RetryBootstrap(d) \/ SaveEntry(d)
    \/ \E c \in Callers, s \in SessionIds :
          \/ \E n \in 1..MaxTurns : BeginTurn(c, s, n)
          \/ Terminate(c, s)
    \/ \E c \in Callers, terminal \in BOOLEAN : CompareTurn(c, terminal)
    \/ \E c \in Callers : FailTurn(c) \/ StoreSession(c)
    \/ \E d \in Drivers, r \in Results, f \in Findings : Record(d, r, f)

Spec == Init /\ [][Next]_vars

---------------------------------------------------------------------------
(* What must hold.                                                          *)

Open == {s \in SessionIds : sessions[s] # None}
Active == {s \in Open : sessions[s].status = "active"}

\* A session's transcript is made of turns that were answered, in rising order,
\* the last one its turn count; and none that was answered is missing, however
\* old the session was that a caller read, unless two callers were between
\* comparing its revision and storing it at one time (chat/repository.py:41-49).
TranscriptExact ==
    \A s \in Open :
        LET t == sessions[s].transcript
            turns == {n \in 1..MaxTurns : <<s, n>> \in acked}
        IN  /\ Range(t) \subseteq turns
            /\ s \notin crossedSessions => Range(t) = turns
            /\ \A i \in 1..(Len(t) - 1) : t[i] < t[i + 1]
            /\ sessions[s].turns = IF t = <<>> THEN 0 ELSE Last(t)

Created(s) == answered[s] # None /\ (answered[s] # None => answered[s].created)

Calling(l) == {d \in Drivers : /\ driver[d].phase \in {"talking", "saving"}
                               /\ driver[d].entry.lead = l}

\* A session is there exactly while its bootstrap goes on and after it was
\* answered as created, and one that goes on has a driver; an entry says DNC
\* with flag and status or with neither and keeps to its attempts.  However many
\* drivers chose the same lead from an old view of the queue, one of them gets to
\* call it, and the call is on the lead's entry until it is recorded or the lead
\* opts out - unless the entry was written between somebody's comparison and his
\* write (repositories.py:259-280, 303-334, bootstrap/service.py,
\* campaign/engine.py).
OneCallPerLead ==
    /\ \A s \in SessionIds :
          (sessions[s] # None) =
              (\/ Created(s)
               \/ \E d \in Drivers : BeingOpened(d) /\ driver[d].request = s)
    /\ \A s \in Active \ crossedSessions :
          Created(s) => \E d \in Calling(sessions[s].lead) : driver[d].request = s
    /\ \A l \in Leads_ :
          /\ queue[l].attempts \in 0..config.retries
          /\ queue[l].dnc = (queue[l].status = "dnc")
    /\ \A l \in Leads_ \ crossedLeads :
          /\ Cardinality(Calling(l)) <= 1
          /\ queue[l].status = "in_progress" => Calling(l) # {}
          /\ Calling(l) # {} => queue[l].status \in {"in_progress", "dnc"}

\* A lead that opted out is never called again, and its entry says so for good,
\* whatever old copy of the entry a driver chose or saves - unless the opt-out
\* came between somebody's comparison and his write (repositories.py:259-280).
OptedOutForGood ==
    [][\A l \in Leads_ \ crossedLeads :
        queue[l].dnc =>
            /\ queue'[l].dnc /\ queue'[l].status = "dnc"
            /\ \A d \in Drivers :
                  driver'[d].phase = "talking" /\ driver[d].phase # "talking"
                      => driver'[d].entry.lead # l]_vars

\* The plan of a call takes nothing for known that the file did not say or a
\* provider contradicts, opens as conflicted when one does, asks first what
\* outranks the rest, and guards what it does not know of a website
\* (precall/engine.py:62-118, enrichment/reconciler.py:24-63).
PlanAssumesNothing ==
    \A s \in Open :
        LET plan == sessions[s].plan
            lead == LeadWith(sessions[s].lead)
            found == Enrichment[lead.id]
            contradicted == {f \in LeadFields \ {"contact_name"} :
                found # None /\ (found # None =>
                    /\ found.success /\ lead.fields[f] # None
                    /\ found.fields[f] \notin {None, lead.fields[f]})}
        IN  /\ \A key \in plan.known :
                  key # "website.presence" =>
                      /\ lead.fields[FactField[key]] # None
                      /\ FactField[key] \notin contradicted
            /\ \A t \in plan.targets : Before(plan.primary, t)
            /\ contradicted # {} => plan.posture = "conflicted"
            /\ "website.presence" \notin plan.known =>
                  "no_website" \in plan.guardrails

\* The outcome a driver reports never contradicts itself: an opt-out is an
\* opt-out and needs no follow-up, interest was said, a follow-up has a step or
\* a reason (runtime/chat/outcome/engine.py).
OutcomeHonest ==
    \A s \in SessionIds : \A o \in outcomes[s] :
        /\ o.dnc = (o.status = "dnc")
        /\ o.status \in {"dnc", "not_interested"} =>
              o.followUp = "not_needed" /\ o.interest = "no_interest"
        /\ o.status = "interested" => o.interest = "explicit_interest"
        /\ o.status = "follow_up" => o.step # None
        /\ o.followUp = "needed" => o.step # None \/ o.failed
                \/ o.status \in {"interested", "needs_more_information"}

\* DNC has the highest priority and is never collapsed into another outcome
\* (runtime/chat/outcome/contracts.py:1-10): no outcome of a call that ended in
\* an opt-out says otherwise.
OptOutReported ==
    \A s \in SessionIds :
        (\E o \in outcomes[s] : o.dnc) => \A o \in outcomes[s] : o.dnc
=============================================================================
