-------------------------- MODULE ChatCampaignProofs ------------------------
(* What holds of a campaign: one call per lead and opt-outs for good wherever *)
(* nobody writes across somebody else, exact transcripts, plans that assume   *)
(* nothing and outcomes that are honest.                                      *)
EXTENDS ChatCampaign, FiniteSetTheorems, TLAPS

Drivings ==
    [phase : {"idle", "chosen", "opened", "moving", "talking", "saving"},
     entry : {None} \cup QueueEntries, request : {None} \cup SessionIds]

TypeOK ==
    /\ config \in CampaignConfigs
    /\ queue \in [Leads_ -> QueueEntries]
    /\ today \in Nat
    /\ sessions \in [SessionIds -> {None} \cup ChatSessions]
    /\ answered \in [SessionIds -> {None} \cup Answers]
    /\ processors \in [SessionIds -> {None, "fresh", "used"}]
    /\ driver \in [Drivers -> Drivings]
    /\ inTurn \in [Callers -> {None} \cup TurnsUnderWay]
    /\ acked \subseteq SessionIds \X (1..MaxTurns)
    /\ DOMAIN outcomes = SessionIds
    /\ outcomes = [s \in SessionIds |-> outcomes[s]]
    /\ crossedSessions \subseteq SessionIds
    /\ crossedLeads \subseteq Leads_

---------------------------------------------------------------------------
(* The inductive invariant.                                                 *)

\* Pausing and resuming leave the limits alone.
ConfigInv == config.retries = Config.retries

Over == {"completed", "dnc", "exhausted", "skipped"}

\* An entry says DNC twice or not at all, and whoever may still be called has an
\* attempt left or none made.
Sound(entry) ==
    /\ entry.dnc = (entry.status = "dnc")
    /\ entry.attempts <= Config.retries
    /\ entry.status \notin Over =>
          entry.attempts = 0 \/ entry.attempts < Config.retries

EntryInv == \A l \in Leads_ : queue[l].lead = l /\ Sound(queue[l])

\* The copy a driver holds was callable when it was chosen; what it saves is
\* sound and off the phone.
CopyInv ==
    \A d \in Drivers :
        /\ driver[d].phase # "idle" => driver[d].entry \in QueueEntries
        /\ driver[d].phase \in {"chosen", "opened", "moving"} =>
              driver[d].entry.status \notin Over \cup {"in_progress"}
        /\ driver[d].phase \in {"chosen", "opened", "moving", "talking"} =>
              /\ ~driver[d].entry.dnc
              /\ driver[d].entry.attempts < Config.retries
        /\ driver[d].phase = "saving" =>
              Sound(driver[d].entry) /\ driver[d].entry.status # "in_progress"

\* Where nobody wrote across somebody else: one driver at a time is about to
\* write an entry, which is still the one he compared it with, and one driver at
\* a time calls the lead.
EntryOwned(l) ==
    /\ \A d, e \in Writing(l) : d = e
    /\ \A d \in Writing(l) :
          /\ driver[d].phase = "moving" => queue[l] = driver[d].entry
          /\ driver[d].phase = "saving" => (queue[l].dnc => driver[d].entry.dnc)
    /\ \A d, e \in Calling(l) : d = e
    /\ queue[l].status = "in_progress" => Calling(l) # {}
    /\ Calling(l) # {} => queue[l].status \in {"in_progress", "dnc"}

CallInv == \A l \in Leads_ \ crossedLeads : EntryOwned(l)

\* Requests are used once; a session is there while its bootstrap goes on and
\* after it was answered as created, and is used after that only.
OpenedFor(s) == {d \in Drivers : BeingOpened(d) /\ driver[d].request = s}

RequestInv ==
    /\ \A d \in Drivers :
          /\ driver[d].phase \in {"idle", "chosen"} => driver[d].request = None
          /\ driver[d].phase \notin {"idle", "chosen"} =>
                driver[d].request \in SessionIds
          /\ BeingOpened(d) =>
                /\ answered[driver[d].request] = None
                /\ sessions[driver[d].request] # None
                /\ sessions[driver[d].request].lead = driver[d].entry.lead
    /\ \A d, e \in Drivers :
          driver[d].request = driver[e].request /\ driver[d].request # None
              => d = e

SessionUsed(s) ==
    /\ (sessions[s] # None) <=> (Created(s) \/ OpenedFor(s) # {})
    /\ processors[s] # None => Created(s)
    /\ \A c \in UnderWay : inTurn[c].id = s => Created(s)
    /\ \A n \in 1..MaxTurns : <<s, n>> \in acked => Created(s)

SessionInv == \A s \in SessionIds : SessionUsed(s)

\* A session that goes on has its driver.
DrivenInv ==
    \A s \in SessionIds \ crossedSessions :
        Created(s) /\ sessions[s].status = "active" =>
            \E d \in Drivers : /\ driver[d].phase = "talking"
                               /\ driver[d].request = s
                               /\ driver[d].entry.lead = sessions[s].lead

\* A transcript rises to the turn count.
Rising(session) ==
    LET t == session.transcript
    IN  /\ \A i \in 1..Len(t) : t[i] <= session.turns
        /\ \A i \in 1..(Len(t) - 1) : t[i] < t[i + 1]
        /\ session.turns = IF Len(t) = 0 THEN 0 ELSE t[Len(t)]

\* What it holds was answered, or is about to be.
HoldsOnly(s, session, turns) ==
    \A i \in 1..Len(session.transcript) : <<s, session.transcript[i]>> \in turns

RisingInv ==
    \A s \in SessionIds : sessions[s] # None =>
        Rising(sessions[s]) /\ HoldsOnly(s, sessions[s], acked)

Pending(t) == IF t.sequence = 0 THEN {} ELSE {<<t.id, t.sequence>>}

\* What a caller makes of a session it read is a session of the same call.
TurnSound(t) ==
    /\ t.session.lead = sessions[t.id].lead
    /\ t.session.plan = sessions[t.id].plan
    /\ Rising(t.session)
    /\ t.step = "processing" =>
          /\ t.sequence \in 1..MaxTurns
          /\ t.session.status = "active" /\ t.session.turns < t.sequence
          /\ HoldsOnly(t.id, t.session, acked)
    /\ t.step = "storing" =>
          HoldsOnly(t.id, t.session, acked \cup Pending(t))

TurnInv == \A c \in UnderWay : TurnSound(inTurn[c])

\* What is stored next follows what is there.
Follows(t, session) ==
    /\ session.status = "active"
    /\ t.session.revision = session.revision + 1
    /\ t.session.transcript = IF t.sequence = 0 THEN session.transcript
                              ELSE Append(session.transcript, t.sequence)

\* Where no two callers stored across each other: a session with the revision
\* that was read is the one that was read.
Current(t, session) ==
    /\ t.step = "processing" =>
          /\ t.session.revision <= session.revision
          /\ t.session.revision = session.revision => t.session = session
    /\ t.step = "storing" => Follows(t, session)

Complete(s) ==
    \A n \in 1..MaxTurns : <<s, n>> \in acked =>
        \E i \in 1..Len(sessions[s].transcript) : sessions[s].transcript[i] = n

ExactInv ==
    \A s \in SessionIds \ crossedSessions :
        /\ Complete(s)
        /\ \A c, e \in Storing(s) : c = e
        /\ \A c \in UnderWay : inTurn[c].id = s => Current(inTurn[c], sessions[s])

PlanInv ==
    \A s \in SessionIds : sessions[s] # None =>
        /\ Policy # None
        /\ sessions[s].plan = PlanFor(LeadWith(sessions[s].lead))

---------------------------------------------------------------------------
(* Operators.                                                               *)

\* A set of numbers has a least one.
LEMMA LeastNumber ==
    ASSUME NEW S, S \subseteq Nat, S # {}
    PROVE  \E n \in S : \A m \in S : n <= m
<1>1. PICK n \in S : \A m \in S : ~(<<m, n>> \in OpToRel(<, Nat))
  BY NatLessThanWellFounded, WFMin
<1>2. \A m \in S : ~(m < n)
  BY <1>1 DEF OpToRel
<1> QED
  BY <1>2

\* What a sequence holds, and what an appended one holds.
LEMMA SequenceParts ==
    ASSUME NEW S, NEW q \in Seq(S)
    PROVE  /\ Len(q) \in Nat /\ DOMAIN q = 1..Len(q)
           /\ \A i \in 1..Len(q) : q[i] \in S
  OBVIOUS

LEMMA AppendedParts ==
    ASSUME NEW S, NEW q \in Seq(S), NEW e \in S
    PROVE  /\ Append(q, e) \in Seq(S) /\ Len(Append(q, e)) = Len(q) + 1
           /\ Append(q, e)[Len(q) + 1] = e
           /\ \A i \in 1..Len(q) : Append(q, e)[i] = q[i]
  OBVIOUS

\* A lead of the import is found by its number.
LEMMA LeadFound ==
    ASSUME NEW l \in Leads_
    PROVE  LeadWith(l) \in Range(Import.accepted) /\ LeadWith(l).id = l
<1>1. \E lead \in Range(Import.accepted) : lead.id = l
  BY DEF Leads_, Range
<1> QED
  BY <1>1 DEF LeadWith

\* The engine chooses a lead that may be called, of the queue it is given.
LEMMA ChosenCallable ==
    ASSUME NEW cf, NEW Q, Q \subseteq QueueEntries, NEW snapshot, NEW minute,
           NEW elapsed, NextLead(cf, Q, snapshot, minute, elapsed).entry # None
    PROVE  /\ NextLead(cf, Q, snapshot, minute, elapsed).entry \in Q
           /\ Callable(NextLead(cf, Q, snapshot, minute, elapsed).entry, cf)
<1> DEFINE callable == {e \in Q : Callable(e, cf)}
           next == NextLead(cf, Q, snapshot, minute, elapsed)
           First(e) == \A o \in callable : e.position <= o.position
<1>1. callable # {} /\ next.entry = CHOOSE e \in callable : First(e)
  BY DEF NextLead, NoLead
<1>2. \E e \in callable : First(e)
  <2> DEFINE positions == {e.position : e \in callable}
  <2>1. positions \subseteq Nat /\ positions # {}
    BY <1>1 DEF QueueEntries
  <2>2. PICK n \in positions : \A m \in positions : n <= m
    BY <2>1, LeastNumber
  <2>3. PICK e \in callable : e.position = n
    OBVIOUS
  <2> QED
    BY <2>2, <2>3
<1>3. next.entry \in callable
  <2> HIDE DEF callable, First, next
  <2> QED
    BY <1>1, <1>2
<1> QED
  BY <1>3

\* A campaign is paused and resumed as a whole.
LEMMA PauseKeeps ==
    ASSUME NEW cf \in CampaignConfigs, NEW next \in {Paused(cf), Resumed(cf)}
    PROVE  next \in CampaignConfigs /\ next.retries = cf.retries
  BY DEF CampaignConfigs, Paused, Resumed

\* What a call makes of an entry is an entry of the same lead.
LEMMA AfterCallEntry ==
    ASSUME NEW entry \in QueueEntries, NEW result \in Results
    PROVE  /\ AfterCall(entry, result) \in QueueEntries
           /\ AfterCall(entry, result).lead = entry.lead
<1> DEFINE status == {"completed", "dnc", "exhausted", "skipped", "retry_scheduled"}
<1>1. CASE result = "completed"
  BY <1>1 DEF AfterCall, MarkedCompleted, Entry, QueueEntries, LeadQueueStatus
<1>2. CASE result = "no_answer"
  <2>1. PICK st \in status : AfterCall(entry, result) =
            [entry EXCEPT !.status = st, !.attempts = entry.attempts + 1]
    BY <1>2 DEF AfterCall, NoAnswer
  <2>2. st \in LeadQueueStatus /\ entry.attempts + 1 \in Nat
    BY DEF QueueEntries, LeadQueueStatus
  <2> QED
    BY <2>1, <2>2 DEF QueueEntries
<1>3. CASE result = "dnc"
  BY <1>3 DEF AfterCall, MarkedDnc, QueueEntries, LeadQueueStatus
<1> QED
  BY <1>1, <1>2, <1>3 DEF Results

\* A new session is one of the lead it is for, with the plan made for it.
LEMMA SessionOfLead ==
    ASSUME NEW l \in Leads_
    PROVE  /\ NewSession(LeadWith(l)) \in ChatSessions
           /\ NewSession(LeadWith(l)).lead = l
           /\ NewSession(LeadWith(l)).plan = PlanFor(LeadWith(l))
<1>1. LeadWith(l).id = l
  BY LeadFound
<1>2. << >> \in Seq(1..MaxTurns)
  OBVIOUS
<1> HIDE DEF ChatSessions
<1>3. PlanFor(LeadWith(l)) \in {PlanFor(LeadWith(k)) : k \in Leads_}
  OBVIOUS
<1> QED
  BY <1>1, <1>2, <1>3 DEF NewSession, ChatSessions

\* A session with one more turn.
LEMMA AnsweredSession ==
    ASSUME NEW session \in ChatSessions, NEW n \in 1..MaxTurns,
           NEW terminal \in BOOLEAN
    PROVE  LET after == Answered(session, n, terminal)
           IN  /\ after \in ChatSessions
               /\ after.lead = session.lead /\ after.plan = session.plan
               /\ after.revision = session.revision + 1 /\ after.turns = n
               /\ after.status = IF terminal THEN "completed" ELSE "active"
               /\ after.transcript = Append(session.transcript, n)
<1>1. /\ session.revision + 1 \in Nat
      /\ Append(session.transcript, n) \in Seq(1..MaxTurns) /\ n \in Nat
      /\ (IF terminal THEN "completed" ELSE "active")
             \in {"active", "completed", "terminated", "error"}
  BY BoundsAssumption DEF ChatSessions
<1> QED
  BY <1>1 DEF Answered, ChatSessions

\* What is terminated keeps all but its status.
LEMMA TerminatedSession ==
    ASSUME NEW session \in ChatSessions
    PROVE  LET after == [session EXCEPT !.status = "terminated",
                                        !.revision = @ + 1]
           IN  /\ after \in ChatSessions
               /\ after.lead = session.lead /\ after.plan = session.plan
               /\ after.revision = session.revision + 1
               /\ after.turns = session.turns /\ after.status = "terminated"
               /\ after.transcript = session.transcript
<1>1. session.revision + 1 \in Nat
  BY DEF ChatSessions
<1> QED
  BY <1>1 DEF ChatSessions

---------------------------------------------------------------------------
(* What the steps do.                                                       *)

\* A step of one driver leaves the others alone.
Drives(d, phase, entry, request) ==
    driver' = [driver EXCEPT ![d] = [phase |-> phase, entry |-> entry,
                                     request |-> request]]

LEMMA DrivesOne ==
    ASSUME TypeOK, NEW d \in Drivers, NEW phase, NEW entry, NEW request,
           Drives(d, phase, entry, request)
    PROVE  /\ driver'[d].phase = phase /\ driver'[d].entry = entry
           /\ driver'[d].request = request
           /\ \A e \in Drivers : e # d => driver'[e] = driver[e]
  BY DEF TypeOK, Drives

LEMMA DrivesTypes ==
    ASSUME TypeOK, NEW d \in Drivers,
           NEW phase \in {"idle", "chosen", "opened", "moving", "talking", "saving"},
           NEW entry \in {None} \cup QueueEntries,
           NEW request \in {None} \cup SessionIds, Drives(d, phase, entry, request)
    PROVE  driver' \in [Drivers -> Drivings]
<1>1. [phase |-> phase, entry |-> entry, request |-> request] \in Drivings
  BY DEF Drivings
<1> QED
  BY <1>1 DEF TypeOK, Drives

\* What a driver is doing, all of it.
LEMMA Redriven ==
    ASSUME NEW v \in Drivings, NEW phase, NEW entry
    PROVE  [v EXCEPT !.phase = phase, !.entry = entry]
               = [phase |-> phase, entry |-> entry, request |-> v.request]
<1> DEFINE w == [v EXCEPT !.phase = phase, !.entry = entry]
           Requests == {None} \cup SessionIds
<1>1. w \in [phase : {phase}, entry : {entry}, request : Requests]
      /\ w.request = v.request
  BY DEF Drivings
<1> HIDE DEF w, Requests
<1>2. w.phase = phase /\ w.entry = entry
  BY <1>1
<1>3. w = [phase |-> w.phase, entry |-> w.entry, request |-> w.request]
  BY <1>1
<1> QED
  BY <1>1, <1>2, <1>3 DEF w

\* A driver chooses an entry of the queue that may be called.
LEMMA SelectDoes ==
    ASSUME TypeOK, NEW d \in Drivers, NEW m \in Minutes, NEW e \in Elapsed,
           Select(d, m, e)
    PROVE  \E l \in Leads_ :
              /\ driver[d].phase = "idle" /\ Callable(queue[l], config)
              /\ Drives(d, "chosen", queue[l], driver[d].request)
<1> DEFINE snapshot == [today |-> today, active |-> Cardinality(OnThePhone)]
           next == NextLead(config, Entries, snapshot, m, e)
<1>1. next.entry # None /\ driver[d].phase = "idle"
  BY DEF Select
<1>2. Entries \subseteq QueueEntries
  BY DEF TypeOK, Entries
<1>3. next.entry \in Entries /\ Callable(next.entry, config)
  <2> HIDE DEF snapshot
  <2> QED
    BY <1>1, <1>2, ChosenCallable
<1>4. driver' = [driver EXCEPT ![d] = [@ EXCEPT !.phase = "chosen",
                                                !.entry = next.entry]]
  BY DEF Select
<1> HIDE DEF next
<1>5. driver[d] \in Drivings
  BY DEF TypeOK
<1>6. [driver[d] EXCEPT !.phase = "chosen", !.entry = next.entry]
          = [phase |-> "chosen", entry |-> next.entry, request |-> driver[d].request]
  BY <1>5, Redriven
<1> QED
  BY <1>1, <1>3, <1>4, <1>6 DEF Entries, Drives

\* A bootstrap creates the session of its request, or is refused.
LEMMA BootstrapDoes ==
    ASSUME TypeOK, CopyInv, NEW d \in Drivers, NEW s \in SessionIds,
           NEW t \in Troubles, Bootstrap(d, s, t)
    PROVE  LET l == driver[d].entry.lead
           IN  /\ driver[d].phase = "chosen" /\ l \in Leads_
               /\ driver[d].entry \in QueueEntries
               /\ answered[s] = None
               /\ \A e \in Drivers : driver[e].request # s
               /\ UNCHANGED <<config, queue, today, processors, inTurn, acked,
                              outcomes, crossedSessions, crossedLeads>>
               /\ \/ /\ Policy # None /\ sessions[s] = None
                     /\ sessions' = [sessions EXCEPT ![s] = NewSession(LeadWith(l))]
                     /\ Drives(d, "opened", driver[d].entry, s)
                     /\ UNCHANGED answered
                  \/ /\ \E reason \in Refusals :
                           answered' = [answered EXCEPT ![s] = Rejection(reason)]
                     /\ Drives(d, "idle", None, None)
                     /\ UNCHANGED sessions
<1> DEFINE entry == driver[d].entry
           refusal == BootstrapRefusal(entry, s, t)
<1>1. entry \in QueueEntries /\ entry.lead \in Leads_
  BY DEF Bootstrap, CopyInv, QueueEntries
<1>2. refusal \in {None} \cup Refusals
  BY DEF BootstrapRefusal, Refusals
<1>3. refusal = None => Policy # None /\ sessions[s] = None
  <2>1. None \notin {"not_eligible", "concurrency_conflict", "context_invalid",
                     "policy_not_found", "lead_not_found"}
    BY NoneAssumption DEF Refusals
  <2> HIDE DEF entry
  <2> QED
    BY <2>1, Zenon DEF BootstrapRefusal
<1> HIDE DEF refusal
<1>4. /\ driver[d].phase = "chosen" /\ answered[s] = None
      /\ \A e \in Drivers : driver[e].request # s
      /\ UNCHANGED <<config, queue, today, processors, inTurn, acked, outcomes,
                     crossedSessions, crossedLeads>>
  BY DEF Bootstrap
<1>5. CASE refusal = None
  BY <1>1, <1>3, <1>4, <1>5 DEF Bootstrap, Drives, refusal
<1>6. CASE refusal # None
  BY <1>1, <1>2, <1>4, <1>6 DEF Bootstrap, Drives, Idle, refusal
<1> QED
  BY <1>5, <1>6

\* The store finds the status the driver had.
LEMMA CompareEntryDoes ==
    ASSUME TypeOK, EntryInv, CopyInv, NEW d \in Drivers, CompareEntry(d)
    PROVE  LET l == driver[d].entry.lead
           IN  /\ driver[d].phase = "opened" /\ l \in Leads_
               /\ queue[l] \in QueueEntries /\ queue[l].lead = l
               /\ queue[l].status \notin Over \cup {"in_progress"}
               /\ ~queue[l].dnc /\ queue[l].attempts < Config.retries
               /\ Drives(d, "moving", queue[l], driver[d].request)
               /\ CrossLead(l, d)
               /\ UNCHANGED <<config, queue, today, answered, outcomes,
                              sessions, processors, inTurn, acked, crossedSessions>>
<1> DEFINE l == driver[d].entry.lead
<1>1. driver[d].phase = "opened" /\ driver[d] \in Drivings
  BY DEF CompareEntry, TypeOK
<1>2. /\ driver[d].entry \in QueueEntries /\ l \in Leads_
      /\ driver[d].entry.status \notin Over \cup {"in_progress"}
      /\ driver[d].entry.attempts < Config.retries
  BY <1>1 DEF CopyInv, QueueEntries
<1>3. queue[l] \in QueueEntries /\ queue[l].lead = l /\ Sound(queue[l])
  BY <1>2 DEF TypeOK, EntryInv
<1>4. ~queue[l].dnc /\ queue[l].status = driver[d].entry.status
  BY DEF CompareEntry, Moves
<1>5. queue[l].attempts < Config.retries
  BY <1>2, <1>3, <1>4, ConfigAssumption DEF Sound, QueueEntries, CampaignConfigs
<1>6. driver' = [driver EXCEPT ![d] = [@ EXCEPT !.phase = "moving",
                                                !.entry = queue[l]]]
  BY DEF CompareEntry
<1> HIDE DEF l
<1>7. [driver[d] EXCEPT !.phase = "moving", !.entry = queue[l]]
          = [phase |-> "moving", entry |-> queue[l], request |-> driver[d].request]
  BY <1>1, Redriven
<1>8. Drives(d, "moving", queue[l], driver[d].request)
  BY <1>6, <1>7 DEF Drives
<1> QED
  BY <1>1, <1>2, <1>3, <1>4, <1>5, <1>8 DEF CompareEntry, sessionVars, l

\* The entry is written unless its status has changed; the driver calls.
LEMMA MoveEntryDoes ==
    ASSUME TypeOK, EntryInv, CopyInv, NEW d \in Drivers, MoveEntry(d)
    PROVE  LET l == driver[d].entry.lead
               s == driver[d].request
           IN  \E moved \in QueueEntries, written \in QueueEntries :
                 /\ driver[d].phase = "moving" /\ l \in Leads_
                 /\ driver[d].entry \in QueueEntries
                 /\ moved.lead = l /\ moved.status = "in_progress" /\ ~moved.dnc
                 /\ moved.attempts < Config.retries
                 /\ written.lead = l /\ Sound(written)
                 /\ written.dnc = queue[l].dnc
                 /\ queue[l] = driver[d].entry => written.status = "in_progress"
                 /\ queue' = [queue EXCEPT ![l] = written]
                 /\ answered' = [answered EXCEPT ![s] =
                        [created |-> TRUE, reason |-> None, entry |-> moved]]
                 /\ processors' = [processors EXCEPT ![s] = "fresh"]
                 /\ today' = today + 1
                 /\ Drives(d, "talking", moved, s)
                 /\ UNCHANGED <<config, sessions, inTurn, acked, outcomes,
                                crossedSessions, crossedLeads>>
<1> DEFINE entry == driver[d].entry
           l == entry.lead
           moved == [entry EXCEPT !.status = "in_progress"]
           written == UpdatedWhere(queue[l], entry.status, "in_progress")
<1>1. driver[d].phase = "moving"
  BY DEF MoveEntry
<1>2. /\ entry \in QueueEntries /\ l \in Leads_ /\ ~entry.dnc
      /\ entry.status \notin Over \cup {"in_progress"}
      /\ entry.attempts < Config.retries
  BY <1>1 DEF CopyInv, QueueEntries
<1>3. queue[l] \in QueueEntries /\ queue[l].lead = l /\ Sound(queue[l])
  BY <1>2 DEF TypeOK, EntryInv
<1>4. /\ moved \in QueueEntries /\ moved.lead = l /\ moved.status = "in_progress"
      /\ moved.dnc = entry.dnc /\ moved.attempts = entry.attempts
  BY <1>2 DEF QueueEntries, LeadQueueStatus
<1>5. /\ written \in QueueEntries /\ written.lead = l /\ Sound(written)
      /\ written.dnc = queue[l].dnc
      /\ queue[l] = entry => written.status = "in_progress"
  <2>1. CASE queue[l].status = entry.status
    <3> DEFINE w == [queue[l] EXCEPT !.status = "in_progress"]
    <3>1. /\ w \in QueueEntries /\ w.lead = l /\ w.status = "in_progress"
          /\ w.dnc = queue[l].dnc /\ w.attempts = queue[l].attempts
      BY <1>3 DEF QueueEntries, LeadQueueStatus
    <3>2. ~queue[l].dnc /\ queue[l].attempts < Config.retries
      BY <1>2, <1>3, <2>1, ConfigAssumption
         DEF Sound, Over, QueueEntries, CampaignConfigs
    <3>3. written = w
      BY <2>1 DEF UpdatedWhere
    <3> HIDE DEF w, written
    <3>4. Sound(w)
      <4>1. w.dnc = FALSE /\ queue[l].dnc = FALSE
        BY <1>3, <3>1, <3>2 DEF QueueEntries
      <4>2. w.attempts <= Config.retries
        BY <1>3, <3>1, <3>2, ConfigAssumption DEF QueueEntries, CampaignConfigs
      <4> QED
        BY <3>1, <3>2, <4>1, <4>2 DEF Sound
    <3> QED
      BY <3>1, <3>3, <3>4
  <2>2. CASE queue[l].status # entry.status
    <3>1. written = queue[l]
      BY <2>2 DEF UpdatedWhere
    <3> QED
      BY <1>3, <2>2, <3>1
  <2> QED
    BY <2>1, <2>2
<1>6. /\ queue' = [queue EXCEPT ![l] = written]
      /\ answered' = [answered EXCEPT ![driver[d].request] =
             [created |-> TRUE, reason |-> None, entry |-> moved]]
      /\ processors' = [processors EXCEPT ![driver[d].request] = "fresh"]
      /\ today' = today + 1
      /\ Drives(d, "talking", moved, driver[d].request)
      /\ UNCHANGED <<config, sessions, inTurn, acked, outcomes,
                     crossedSessions, crossedLeads>>
  BY DEF MoveEntry, Drives
<1> HIDE DEF moved, written
<1>7. ~moved.dnc /\ moved.attempts < Config.retries
  BY <1>2, <1>4
<1> QED
  BY <1>1, <1>2, <1>4, <1>5, <1>6, <1>7

LEMMA AfterCallSound ==
    ASSUME ConfigInv, NEW entry \in QueueEntries, ~entry.dnc,
           entry.attempts < Config.retries, NEW result \in Results
    PROVE  LET after == AfterCall(entry, result)
           IN  Sound(after) /\ after.status # "in_progress"
<1> DEFINE after == AfterCall(entry, result)
<1>0. Config.retries \in Nat /\ entry.attempts \in Nat /\ entry.dnc = FALSE
  BY ConfigAssumption DEF CampaignConfigs, QueueEntries
<1>1. CASE result = "completed"
  <2>1. /\ after.dnc = FALSE /\ after.status = "completed"
        /\ after.attempts = entry.attempts
    BY <1>0, <1>1 DEF AfterCall, MarkedCompleted, Entry
  <2> HIDE DEF after
  <2>2. after.dnc = (after.status = "dnc") /\ after.status \in Over
    BY <2>1 DEF Over
  <2>3. after.attempts <= Config.retries
    BY <1>0, <2>1
  <2> QED
    BY <2>1, <2>2, <2>3 DEF Sound, after
<1>2. CASE result = "no_answer"
  <2>1. PICK st \in {"exhausted", "skipped", "retry_scheduled"} :
            /\ after = [entry EXCEPT !.status = st, !.attempts = entry.attempts + 1]
            /\ st = "retry_scheduled" => entry.attempts + 1 < config.retries
    BY <1>0, <1>2 DEF AfterCall, NoAnswer, ConfigInv
  <2> HIDE DEF after
  <2>2. /\ after.status = st /\ after.attempts = entry.attempts + 1
        /\ after.dnc = FALSE
    BY <1>0, <2>1 DEF QueueEntries
  <2>3. after.dnc = (after.status = "dnc")
    BY <2>1, <2>2
  <2>4. after.attempts <= Config.retries
    BY <1>0, <2>2
  <2>5. after.status \notin Over => after.attempts < Config.retries
    BY <2>1, <2>2 DEF Over, ConfigInv
  <2> QED
    BY <2>1, <2>2, <2>3, <2>4, <2>5 DEF Sound, after
<1>3. CASE result = "dnc"
  <2>1. after.dnc = TRUE /\ after.status = "dnc" /\ after.attempts = entry.attempts
    BY <1>3 DEF AfterCall, MarkedDnc, QueueEntries
  <2> HIDE DEF after
  <2>2. after.dnc = (after.status = "dnc") /\ after.status \in Over
    BY <2>1 DEF Over
  <2>3. after.attempts <= Config.retries
    BY <1>0, <2>1
  <2> QED
    BY <2>1, <2>2, <2>3 DEF Sound, after
<1> QED
  BY <1>1, <1>2, <1>3 DEF Results


\* The session of a bootstrap that fails late is taken back.
LEMMA TakeBackDoes ==
    ASSUME TypeOK, NEW d \in Drivers, TakeBack(d)
    PROVE  LET s == driver[d].request
           IN  /\ BeingOpened(d)
               /\ sessions' = [sessions EXCEPT ![s] = None]
               /\ answered' = [answered EXCEPT ![s] =
                      Rejection("queue_transition_failed")]
               /\ Drives(d, "idle", None, None)
               /\ UNCHANGED <<config, queue, today, processors, inTurn, acked,
                              outcomes, crossedSessions, crossedLeads>>
  BY DEF TakeBack, Drives, Idle

\* What is to be saved of a call is sound; the store may refuse it.
LEMMA RecordDoes ==
    ASSUME TypeOK, ConfigInv, CopyInv, NEW d \in Drivers, NEW r \in Results,
           NEW f \in Findings, Record(d, r, f)
    PROVE  LET l == driver[d].entry.lead
               s == driver[d].request
           IN  \E after \in QueueEntries :
                 /\ driver[d].phase = "talking" /\ l \in Leads_
                 /\ sessions[s].status # "active"
                 /\ after.lead = l /\ Sound(after) /\ after.status # "in_progress"
                 /\ \/ /\ queue[l].dnc => after.dnc
                       /\ Drives(d, "saving", after, s) /\ CrossLead(l, d)
                    \/ /\ queue[l].dnc
                       /\ Drives(d, "idle", None, None) /\ UNCHANGED crossedLeads
                 /\ outcomes' = [outcomes EXCEPT ![s] = @ \cup
                        {LeadOutcome([f EXCEPT !.dnc = r = "dnc"])}]
                 /\ UNCHANGED <<config, queue, today, answered, sessions,
                                processors, inTurn, acked, crossedSessions>>
<1> DEFINE entry == driver[d].entry
           l == entry.lead
           after == AfterCall(entry, r)
<1>1. /\ driver[d].phase = "talking" /\ entry \in QueueEntries /\ ~entry.dnc
      /\ entry.attempts < Config.retries /\ sessions[driver[d].request].status # "active"
      /\ driver[d] \in Drivings
  BY DEF Record, CopyInv, TypeOK
<1>2. after \in QueueEntries /\ after.lead = l /\ l \in Leads_
  BY <1>1, AfterCallEntry DEF QueueEntries
<1>3. Sound(after) /\ after.status # "in_progress"
  BY <1>1, AfterCallSound
<1>4. /\ IF Saves(queue[after.lead], after)
         THEN /\ driver' = [driver EXCEPT ![d] = [@ EXCEPT !.phase = "saving",
                                                           !.entry = after]]
              /\ CrossLead(after.lead, d)
         ELSE /\ driver' = [driver EXCEPT ![d] = Idle]
              /\ UNCHANGED crossedLeads
      /\ outcomes' = [outcomes EXCEPT ![driver[d].request] = @ \cup
             {LeadOutcome([f EXCEPT !.dnc = r = "dnc"])}]
      /\ UNCHANGED <<config, queue, today, answered, sessions, processors,
                     inTurn, acked, crossedSessions>>
  BY DEF Record, sessionVars
<1> HIDE DEF after
<1>5. [driver[d] EXCEPT !.phase = "saving", !.entry = after]
          = [phase |-> "saving", entry |-> after, request |-> driver[d].request]
  BY <1>1, Redriven
<1>6. CASE Saves(queue[l], after)
  <2>1. Drives(d, "saving", after, driver[d].request) /\ CrossLead(l, d)
    BY <1>2, <1>4, <1>5, <1>6 DEF Drives
  <2> QED
    BY <1>1, <1>2, <1>3, <1>4, <1>6, <2>1 DEF Saves
<1>7. CASE ~Saves(queue[l], after)
  <2>1. Drives(d, "idle", None, None) /\ UNCHANGED crossedLeads
    BY <1>2, <1>4, <1>7 DEF Drives, Idle
  <2> QED
    BY <1>1, <1>2, <1>3, <1>4, <1>7, <2>1 DEF Saves
<1> QED
  BY <1>6, <1>7

LEMMA SaveEntryDoes ==
    ASSUME TypeOK, CopyInv, NEW d \in Drivers, SaveEntry(d)
    PROVE  LET entry == driver[d].entry
           IN  /\ driver[d].phase = "saving" /\ entry.lead \in Leads_
               /\ entry \in QueueEntries
               /\ Sound(entry) /\ entry.status # "in_progress"
               /\ queue' = [queue EXCEPT ![entry.lead] = entry]
               /\ Drives(d, "idle", None, None)
               /\ UNCHANGED <<config, today, answered, outcomes, crossedLeads,
                              sessions, processors, inTurn, acked, crossedSessions>>
  BY DEF SaveEntry, CopyInv, Drives, Idle, sessionVars, QueueEntries

\* A session that is used is there.
LEMMA UsedSessions ==
    ASSUME TypeOK, SessionInv, NEW s \in SessionIds,
           Created(s) \/ processors[s] # None
    PROVE  sessions[s] # None /\ sessions[s] \in ChatSessions
  BY DEF SessionInv, SessionUsed, TypeOK

\* What goes on of a turn.
Turns(c, t) == inTurn' = [inTurn EXCEPT ![c] = t]

\* A caller begins with the session that is there.
LEMMA BeginTurnDoes ==
    ASSUME TypeOK, SessionInv, NEW c \in Callers, NEW s \in SessionIds,
           NEW n \in 1..MaxTurns, BeginTurn(c, s, n)
    PROVE  \E t \in TurnsUnderWay :
              /\ inTurn[c] = None /\ Turns(c, t)
              /\ processors[s] # None /\ sessions[s].status = "active"
              /\ t.id = s /\ t.sequence = n /\ t.step = "processing"
              /\ t.session = sessions[s] /\ t.session \in ChatSessions
              /\ sessions[s].turns < n
              /\ processors' = [processors EXCEPT ![s] = "used"]
              /\ UNCHANGED <<sessions, acked, outcomes, crossedSessions, config,
                             queue, today, answered, driver, crossedLeads>>
<1> DEFINE t == [id |-> s, session |-> sessions[s], sequence |-> n,
                 step |-> "processing"]
<1>1. /\ inTurn[c] = None /\ Turns(c, t)
      /\ processors[s] # None /\ sessions[s].status = "active"
      /\ n > sessions[s].turns
      /\ processors' = [processors EXCEPT ![s] = "used"]
      /\ UNCHANGED <<sessions, acked, outcomes, crossedSessions, config, queue,
                     today, answered, driver, crossedLeads>>
  BY DEF BeginTurn, campaignVars, Turns
<1>2. sessions[s] \in ChatSessions /\ sessions[s].turns \in Nat
  BY <1>1, UsedSessions DEF ChatSessions
<1>3. t \in TurnsUnderWay /\ t.id = s /\ t.sequence = n /\ t.step = "processing"
      /\ t.session = sessions[s]
  BY <1>2, BoundsAssumption DEF TurnsUnderWay
<1>4. sessions[s].turns < n
  BY <1>1, <1>2
<1> HIDE DEF t
<1> QED
  BY <1>1, <1>2, <1>3, <1>4

\* A turn whose session has the revision it read is answered.
LEMMA CompareTurnDoes ==
    ASSUME TypeOK, TurnInv, NEW c \in Callers, NEW terminal \in BOOLEAN,
           CompareTurn(c, terminal)
    PROVE  \E t, u \in TurnsUnderWay :
              /\ inTurn[c] = t /\ t # None /\ Turns(c, u)
              /\ t.step = "processing" /\ t.sequence \in 1..MaxTurns
              /\ sessions[t.id].revision = t.session.revision
              /\ u.id = t.id /\ u.sequence = t.sequence /\ u.step = "storing"
              /\ u.session = Answered(t.session, t.sequence, terminal)
              /\ CrossSession(t.id)
              /\ UNCHANGED <<sessions, processors, acked, outcomes, config,
                             queue, today, answered, driver, crossedLeads>>
<1> DEFINE t == inTurn[c]
           u == [t EXCEPT !.session = Answered(@, t.sequence, terminal),
                          !.step = "storing"]
<1>1. /\ t # None /\ t.step = "processing" /\ Turns(c, u)
      /\ sessions[t.id].revision = t.session.revision
      /\ CrossSession(t.id)
      /\ UNCHANGED <<sessions, processors, acked, outcomes, config, queue,
                     today, answered, driver, crossedLeads>>
  BY DEF CompareTurn, campaignVars, Turns, Updates
<1>2. t \in TurnsUnderWay
  BY <1>1 DEF TypeOK
<1>3. t.sequence \in 1..MaxTurns /\ t.session \in ChatSessions
  BY <1>1, <1>2 DEF TurnInv, TurnSound, UnderWay, TurnsUnderWay
<1>4. Answered(t.session, t.sequence, terminal) \in ChatSessions
  <2> HIDE DEF t
  <2> QED
    BY <1>3, AnsweredSession
<1>5. /\ u \in TurnsUnderWay /\ u.id = t.id /\ u.sequence = t.sequence
      /\ u.step = "storing"
      /\ u.session = Answered(t.session, t.sequence, terminal)
  <2> HIDE DEF t
  <2> QED
    BY <1>2, <1>4 DEF TurnsUnderWay
<1> HIDE DEF u
<1> QED
  BY <1>1, <1>2, <1>3, <1>5

\* The end of a session is made of the session that is there.
LEMMA TerminateDoes ==
    ASSUME TypeOK, SessionInv, NEW c \in Callers, NEW s \in SessionIds,
           Terminate(c, s)
    PROVE  \E u \in TurnsUnderWay :
              /\ inTurn[c] = None /\ Turns(c, u)
              /\ processors[s] # None /\ sessions[s].status = "active"
              /\ sessions[s] \in ChatSessions
              /\ u.id = s /\ u.sequence = 0 /\ u.step = "storing"
              /\ u.session.lead = sessions[s].lead
              /\ u.session.plan = sessions[s].plan
              /\ u.session.revision = sessions[s].revision + 1
              /\ u.session.turns = sessions[s].turns
              /\ u.session.transcript = sessions[s].transcript
              /\ CrossSession(s)
              /\ UNCHANGED <<sessions, processors, acked, outcomes, config,
                             queue, today, answered, driver, crossedLeads>>
<1> DEFINE after == [sessions[s] EXCEPT !.status = "terminated", !.revision = @ + 1]
           u == [id |-> s, session |-> after, sequence |-> 0, step |-> "storing"]
<1>1. /\ inTurn[c] = None /\ Turns(c, u)
      /\ processors[s] # None /\ sessions[s].status = "active"
      /\ CrossSession(s)
      /\ UNCHANGED <<sessions, processors, acked, outcomes, config, queue,
                     today, answered, driver, crossedLeads>>
  BY DEF Terminate, campaignVars, Turns
<1>2. sessions[s] \in ChatSessions
  BY <1>1, UsedSessions
<1>3. /\ after \in ChatSessions
      /\ after.lead = sessions[s].lead /\ after.plan = sessions[s].plan
      /\ after.revision = sessions[s].revision + 1
      /\ after.turns = sessions[s].turns
      /\ after.transcript = sessions[s].transcript
  BY <1>2, TerminatedSession
<1> HIDE DEF after
<1>4. /\ u \in TurnsUnderWay /\ u.id = s /\ u.sequence = 0 /\ u.step = "storing"
      /\ u.session = after
  BY <1>3, BoundsAssumption DEF TurnsUnderWay
<1> HIDE DEF u
<1> QED
  BY <1>1, <1>2, <1>3, <1>4

LEMMA StoreSessionDoes ==
    ASSUME TypeOK, NEW c \in Callers, StoreSession(c)
    PROVE  \E t \in TurnsUnderWay :
              /\ inTurn[c] = t /\ t # None /\ Turns(c, None)
              /\ t.step = "storing" /\ t.id \in SessionIds
              /\ t.session \in ChatSessions
              /\ sessions' = [sessions EXCEPT ![t.id] = t.session]
              /\ acked' = acked \cup Pending(t)
              /\ outcomes' = [outcomes EXCEPT ![t.id] =
                                 @ \cup Reported(t.session.status = "completed")]
              /\ UNCHANGED <<processors, crossedSessions, config, queue, today,
                             answered, driver, crossedLeads>>
<1>1. inTurn[c] # None /\ inTurn[c] \in TurnsUnderWay
  BY DEF StoreSession, TypeOK
<1>2. inTurn[c].id \in SessionIds /\ inTurn[c].session \in ChatSessions
  BY <1>1 DEF TurnsUnderWay
<1> QED
  BY <1>1, <1>2 DEF StoreSession, Turns, Pending, campaignVars

---------------------------------------------------------------------------
(* Types.                                                                   *)

LEMMA InitTypes ==
    ASSUME Init
    PROVE  TypeOK
<1>1. \A l \in Leads_ : Entry(l, l, "pending", 0, FALSE) \in QueueEntries
  BY ImportAssumption DEF Entry, QueueEntries, LeadQueueStatus
<1> QED
  BY <1>1, ConfigAssumption DEF Init, TypeOK, Idle, Drivings

LEMMA TurnsTypes ==
    ASSUME TypeOK, NEW c \in Callers, NEW t \in {None} \cup TurnsUnderWay, Turns(c, t)
    PROVE  /\ inTurn' \in [Callers -> {None} \cup TurnsUnderWay]
           /\ inTurn'[c] = t /\ \A e \in Callers : e # c => inTurn'[e] = inTurn[e]
  BY DEF TypeOK, Turns

LEMMA CrossTypes ==
    ASSUME TypeOK
    PROVE  /\ \A l \in Leads_ : \A d : CrossLead(l, d) =>
                 /\ crossedLeads' \subseteq Leads_
                 /\ crossedLeads \subseteq crossedLeads'
           /\ \A s \in SessionIds : CrossSession(s) =>
                 /\ crossedSessions' \subseteq SessionIds
                 /\ crossedSessions \subseteq crossedSessions'
  BY DEF CrossLead, CrossSession, TypeOK

LEMMA NextTypes ==
    ASSUME TypeOK, ConfigInv, EntryInv, CopyInv, RequestInv, SessionInv, TurnInv,
           [Next]_vars
    PROVE  TypeOK'
<1>1. CASE UNCHANGED vars
  BY <1>1 DEF vars, TypeOK
<1>2. CASE PauseOrResume
  BY <1>2, PauseKeeps DEF PauseOrResume, TypeOK, sessionVars
<1>3. ASSUME NEW l \in Leads_, MarkDnc(l) PROVE TypeOK'
  <2>1. queue[l] \in QueueEntries
    BY DEF TypeOK
  <2>2. MarkedDnc(queue[l]) \in QueueEntries
    BY <2>1 DEF MarkedDnc, QueueEntries, LeadQueueStatus
  <2>3. crossedLeads' \subseteq Leads_
    BY <1>3, CrossTypes DEF MarkDnc
  <2> QED
    BY <1>3, <2>2, <2>3 DEF MarkDnc, TypeOK, sessionVars
<1>4. ASSUME NEW d \in Drivers, NEW m \in Minutes, NEW e \in Elapsed,
             Select(d, m, e)
      PROVE  TypeOK'
  <2>1. PICK l \in Leads_ : Drives(d, "chosen", queue[l], driver[d].request)
    BY <1>4, SelectDoes
  <2>2. queue[l] \in QueueEntries /\ driver[d].request \in {None} \cup SessionIds
    BY DEF TypeOK, Drivings
  <2>3. driver' \in [Drivers -> Drivings]
    BY <2>1, <2>2, DrivesTypes
  <2> QED
    BY <1>4, <2>3 DEF Select, TypeOK, sessionVars
<1>5. ASSUME NEW d \in Drivers, NEW s \in SessionIds, NEW t \in Troubles,
             Bootstrap(d, s, t)
      PROVE  TypeOK'
  <2> DEFINE l == driver[d].entry.lead
             entry == driver[d].entry
  <2>1. /\ l \in Leads_ /\ entry \in QueueEntries
        /\ UNCHANGED <<config, queue, today, processors, inTurn, acked,
                       outcomes, crossedSessions, crossedLeads>>
        /\ \/ /\ sessions' = [sessions EXCEPT ![s] = NewSession(LeadWith(l))]
              /\ Drives(d, "opened", entry, s)
              /\ UNCHANGED answered
           \/ /\ \E reason \in Refusals :
                    answered' = [answered EXCEPT ![s] = Rejection(reason)]
              /\ Drives(d, "idle", None, None)
              /\ UNCHANGED sessions
    BY <1>5, BootstrapDoes
  <2> HIDE DEF l, entry
  <2>2. driver' \in [Drivers -> Drivings]
    BY <2>1, DrivesTypes
  <2>3. NewSession(LeadWith(l)) \in ChatSessions
    BY <2>1, SessionOfLead
  <2>4. \A reason \in Refusals : Rejection(reason) \in Answers
    BY DEF Rejection, Answers
  <2>5. sessions' \in [SessionIds -> {None} \cup ChatSessions]
    BY <2>1, <2>3 DEF TypeOK
  <2>6. answered' \in [SessionIds -> {None} \cup Answers]
    BY <2>1, <2>4 DEF TypeOK
  <2> QED
    BY <2>1, <2>2, <2>5, <2>6 DEF TypeOK
<1>6. ASSUME NEW d \in Drivers, CompareEntry(d) PROVE TypeOK'
  <2> DEFINE l == driver[d].entry.lead
  <2>1. /\ l \in Leads_ /\ queue[l] \in QueueEntries
        /\ Drives(d, "moving", queue[l], driver[d].request)
        /\ CrossLead(l, d)
        /\ UNCHANGED <<config, queue, today, answered, outcomes,
                       sessions, processors, inTurn, acked, crossedSessions>>
    BY <1>6, CompareEntryDoes
  <2> HIDE DEF l
  <2>2. driver[d].request \in {None} \cup SessionIds
    BY DEF TypeOK, Drivings
  <2>3. driver' \in [Drivers -> Drivings] /\ crossedLeads' \subseteq Leads_
    BY <2>1, <2>2, DrivesTypes, CrossTypes
  <2> QED
    BY <2>1, <2>3 DEF TypeOK
<1>7. ASSUME NEW d \in Drivers, TakeBack(d) PROVE TypeOK'
  <2>1. driver' \in [Drivers -> Drivings]
    BY <1>7, TakeBackDoes, DrivesTypes
  <2>2. Rejection("queue_transition_failed") \in Answers
    BY DEF Rejection, Answers, Refusals
  <2> QED
    BY <1>7, <2>1, <2>2, TakeBackDoes DEF TypeOK
<1>8. ASSUME NEW d \in Drivers, MoveEntry(d) PROVE TypeOK'
  <2> DEFINE l == driver[d].entry.lead
             s == driver[d].request
  <2>1. PICK moved \in QueueEntries, written \in QueueEntries :
            /\ driver[d].phase = "moving"
            /\ l \in Leads_ /\ queue' = [queue EXCEPT ![l] = written]
            /\ answered' = [answered EXCEPT ![s] =
                  [created |-> TRUE, reason |-> None, entry |-> moved]]
            /\ processors' = [processors EXCEPT ![s] = "fresh"]
            /\ today' = today + 1
            /\ Drives(d, "talking", moved, s)
            /\ UNCHANGED <<config, sessions, inTurn, acked, outcomes,
                           crossedSessions, crossedLeads>>
    BY <1>8, MoveEntryDoes
  <2> HIDE DEF l
  <2>2. s \in SessionIds
    BY <2>1 DEF RequestInv
  <2>3. driver' \in [Drivers -> Drivings]
    BY <2>1, <2>2, DrivesTypes
  <2> HIDE DEF s
  <2>4. [created |-> TRUE, reason |-> None, entry |-> moved] \in Answers
    BY DEF Answers
  <2>5. /\ answered' \in [SessionIds -> {None} \cup Answers]
        /\ processors' \in [SessionIds -> {None, "fresh", "used"}]
    BY <2>1, <2>2, <2>4 DEF TypeOK
  <2>6. queue' \in [Leads_ -> QueueEntries] /\ today' \in Nat
    BY <2>1 DEF TypeOK
  <2> QED
    BY <2>1, <2>3, <2>5, <2>6 DEF TypeOK
<1>9. ASSUME NEW d \in Drivers, RetryBootstrap(d) PROVE TypeOK'
  BY <1>9 DEF RetryBootstrap, TypeOK
<1>10. ASSUME NEW c \in Callers, NEW s \in SessionIds, NEW n \in 1..MaxTurns,
             BeginTurn(c, s, n)
      PROVE  TypeOK'
  <2>1. PICK t \in TurnsUnderWay :
              /\ Turns(c, t) /\ processors' = [processors EXCEPT ![s] = "used"]
              /\ UNCHANGED <<sessions, acked, outcomes, crossedSessions, config,
                             queue, today, answered, driver, crossedLeads>>
    BY <1>10, BeginTurnDoes
  <2>2. inTurn' \in [Callers -> {None} \cup TurnsUnderWay]
    BY <2>1, TurnsTypes
  <2> QED
    BY <2>1, <2>2 DEF TypeOK
<1>11. ASSUME NEW c \in Callers, NEW terminal \in BOOLEAN, CompareTurn(c, terminal)
       PROVE  TypeOK'
  <2>1. PICK t, u \in TurnsUnderWay :
              /\ Turns(c, u) /\ CrossSession(t.id)
              /\ UNCHANGED <<sessions, processors, acked, outcomes, config,
                             queue, today, answered, driver, crossedLeads>>
    BY <1>11, CompareTurnDoes
  <2>2. inTurn' \in [Callers -> {None} \cup TurnsUnderWay]
    BY <2>1, TurnsTypes
  <2>3. crossedSessions' \subseteq SessionIds
    BY <2>1, CrossTypes DEF TurnsUnderWay
  <2> QED
    BY <2>1, <2>2, <2>3 DEF TypeOK
<1>12. ASSUME NEW c \in Callers, FailTurn(c) PROVE TypeOK'
  BY <1>12 DEF FailTurn, TypeOK, campaignVars
<1>13. ASSUME NEW c \in Callers, NEW s \in SessionIds, Terminate(c, s) PROVE TypeOK'
  <2>1. PICK u \in TurnsUnderWay :
              /\ Turns(c, u) /\ CrossSession(s)
              /\ UNCHANGED <<sessions, processors, acked, outcomes, config,
                             queue, today, answered, driver, crossedLeads>>
    BY <1>13, TerminateDoes
  <2>2. inTurn' \in [Callers -> {None} \cup TurnsUnderWay]
    BY <2>1, TurnsTypes
  <2>3. crossedSessions' \subseteq SessionIds
    BY <2>1, CrossTypes
  <2> QED
    BY <2>1, <2>2, <2>3 DEF TypeOK
<1>14. ASSUME NEW c \in Callers, StoreSession(c) PROVE TypeOK'
  <2>1. PICK t \in TurnsUnderWay :
              /\ Turns(c, None) /\ t.id \in SessionIds /\ t.session \in ChatSessions
              /\ sessions' = [sessions EXCEPT ![t.id] = t.session]
              /\ acked' = acked \cup Pending(t)
              /\ outcomes' = [outcomes EXCEPT ![t.id] =
                                 @ \cup Reported(t.session.status = "completed")]
              /\ UNCHANGED <<processors, crossedSessions, config, queue, today,
                             answered, driver, crossedLeads>>
    BY <1>14, StoreSessionDoes
  <2>2. inTurn' \in [Callers -> {None} \cup TurnsUnderWay]
    BY <2>1, TurnsTypes
  <2>3. Pending(t) \subseteq SessionIds \X (1..MaxTurns)
    BY BoundsAssumption DEF Pending, TurnsUnderWay
  <2>4. DOMAIN outcomes' = SessionIds /\ outcomes' = [q \in SessionIds |-> outcomes'[q]]
    BY <2>1 DEF TypeOK
  <2>5. sessions' \in [SessionIds -> {None} \cup ChatSessions]
    BY <2>1 DEF TypeOK
  <2> QED
    BY <2>1, <2>2, <2>3, <2>4, <2>5 DEF TypeOK
<1>15. ASSUME NEW d \in Drivers, NEW r \in Results, NEW f \in Findings,
              Record(d, r, f)
       PROVE  TypeOK'
  <2> DEFINE l == driver[d].entry.lead
             s == driver[d].request
             report == LeadOutcome([f EXCEPT !.dnc = r = "dnc"])
  <2>1. PICK after \in QueueEntries :
            /\ l \in Leads_
            /\ \/ Drives(d, "saving", after, s) /\ CrossLead(l, d)
               \/ Drives(d, "idle", None, None) /\ UNCHANGED crossedLeads
            /\ outcomes' = [outcomes EXCEPT ![s] = @ \cup {report}]
            /\ UNCHANGED <<config, queue, today, answered, sessions,
                           processors, inTurn, acked, crossedSessions>>
    BY <1>15, RecordDoes
  <2> HIDE DEF l, report
  <2>2. s \in {None} \cup SessionIds
    BY DEF TypeOK, Drivings
  <2>3. driver' \in [Drivers -> Drivings] /\ crossedLeads' \subseteq Leads_
    <3>1. CASE Drives(d, "saving", after, s) /\ CrossLead(l, d)
      BY <2>1, <2>2, <3>1, DrivesTypes, CrossTypes
    <3>2. CASE Drives(d, "idle", None, None) /\ UNCHANGED crossedLeads
      BY <3>2, DrivesTypes DEF TypeOK
    <3> QED
      BY <2>1, <3>1, <3>2
  <2>4. DOMAIN outcomes' = SessionIds /\ outcomes' = [q \in SessionIds |-> outcomes'[q]]
    BY <2>1 DEF TypeOK
  <2> QED
    BY <2>1, <2>3, <2>4 DEF TypeOK
<1>16. ASSUME NEW d \in Drivers, SaveEntry(d) PROVE TypeOK'
  <2>1. driver' \in [Drivers -> Drivings]
    BY <1>16, SaveEntryDoes, DrivesTypes
  <2> QED
    BY <1>16, <2>1, SaveEntryDoes DEF TypeOK
<1> QED
  BY <1>1, <1>2, <1>3, <1>4, <1>5, <1>6, <1>7, <1>8, <1>9, <1>10, <1>11, <1>12,
     <1>13, <1>14, <1>15, <1>16 DEF Next

---------------------------------------------------------------------------
(* The queue and who is on the phone.                                       *)

LEMMA NextConfig ==
    ASSUME TypeOK, ConfigInv, [Next]_vars
    PROVE  ConfigInv'
<1>1. CASE PauseOrResume
  BY <1>1, PauseKeeps DEF PauseOrResume, ConfigInv, TypeOK
<1>2. CASE UNCHANGED config
  BY <1>2 DEF ConfigInv
<1> QED
  BY <1>1, <1>2 DEF Next, vars, MarkDnc, Select, Bootstrap, CompareEntry, TakeBack,
      MoveEntry, RetryBootstrap, BeginTurn, CompareTurn, FailTurn, Terminate,
      StoreSession, Record, SaveEntry, campaignVars

\* The entries and the copies stay sound.
LEMMA NextEntries ==
    ASSUME TypeOK, ConfigInv, EntryInv, CopyInv, [Next]_vars
    PROVE  EntryInv' /\ CopyInv'
<1>0. queue \in [Leads_ -> QueueEntries]
  BY DEF TypeOK
<1>a. ASSUME NEW l \in Leads_, NEW entry, entry.lead = l, Sound(entry),
             queue' = [queue EXCEPT ![l] = entry]
      PROVE  EntryInv'
  BY <1>0, <1>a DEF EntryInv
<1>b. ASSUME NEW d \in Drivers, NEW phase, NEW entry, NEW request,
             Drives(d, phase, entry, request),
             phase # "idle" => entry \in QueueEntries,
             phase \in {"chosen", "opened", "moving"} =>
                 entry.status \notin Over \cup {"in_progress"},
             phase \in {"chosen", "opened", "moving", "talking"} =>
                 ~entry.dnc /\ entry.attempts < Config.retries,
             phase = "saving" => Sound(entry) /\ entry.status # "in_progress"
      PROVE  CopyInv'
  <2>1. /\ driver'[d].phase = phase /\ driver'[d].entry = entry
        /\ \A e \in Drivers : e # d => driver'[e] = driver[e]
    BY <1>b, DrivesOne
  <2> QED
    BY <1>b, <2>1 DEF CopyInv
<1>1. CASE UNCHANGED <<queue, driver>>
  BY <1>1 DEF EntryInv, CopyInv
<1>2. ASSUME NEW l \in Leads_, MarkDnc(l) PROVE EntryInv' /\ CopyInv'
  <2>1. queue[l] \in QueueEntries /\ queue[l].lead = l /\ Sound(queue[l])
    BY <1>0 DEF EntryInv
  <2>2. /\ MarkedDnc(queue[l]).lead = l
        /\ MarkedDnc(queue[l]).dnc = TRUE /\ MarkedDnc(queue[l]).status = "dnc"
        /\ MarkedDnc(queue[l]).attempts = queue[l].attempts
    BY <2>1 DEF MarkedDnc, QueueEntries
  <2>3. Sound(MarkedDnc(queue[l]))
    BY <2>1, <2>2 DEF Sound, Over
  <2>4. queue' = [queue EXCEPT ![l] = MarkedDnc(queue[l])] /\ UNCHANGED driver
    BY <1>0, <1>2 DEF MarkDnc
  <2> QED
    BY <1>a, <2>2, <2>3, <2>4 DEF CopyInv
<1>3. ASSUME NEW d \in Drivers, NEW m \in Minutes, NEW e \in Elapsed, Select(d, m, e)
      PROVE  EntryInv' /\ CopyInv'
  <2>1. PICK l \in Leads_ : /\ Callable(queue[l], config)
                            /\ Drives(d, "chosen", queue[l], driver[d].request)
    BY <1>3, SelectDoes
  <2>2. /\ queue[l] \in QueueEntries /\ ~queue[l].dnc
        /\ queue[l].status \notin Over \cup {"in_progress"}
        /\ queue[l].attempts < Config.retries
    BY <1>0, <2>1 DEF Callable, ConfigInv, Over
  <2>3. CopyInv'
    BY <1>b, <2>1, <2>2
  <2> QED
    BY <1>3, <2>3 DEF Select, EntryInv
<1>4. ASSUME NEW d \in Drivers, NEW s \in SessionIds, NEW t \in Troubles,
             Bootstrap(d, s, t)
      PROVE  EntryInv' /\ CopyInv'
  <2>1. /\ driver[d].phase = "chosen" /\ UNCHANGED queue
        /\ \/ Drives(d, "opened", driver[d].entry, s)
           \/ Drives(d, "idle", None, None)
    BY <1>4, BootstrapDoes
  <2>2. CopyInv'
    <3>1. CASE Drives(d, "opened", driver[d].entry, s)
      <4>1. /\ driver[d].entry \in QueueEntries /\ ~driver[d].entry.dnc
            /\ driver[d].entry.status \notin Over \cup {"in_progress"}
            /\ driver[d].entry.attempts < Config.retries
        BY <2>1 DEF CopyInv
      <4> QED
        BY <1>b, <3>1, <4>1
    <3>2. CASE Drives(d, "idle", None, None)
      BY <1>b, <3>2
    <3> QED
      BY <2>1, <3>1, <3>2
  <2> QED
    BY <2>1, <2>2 DEF EntryInv
<1>5. ASSUME NEW d \in Drivers, CompareEntry(d) PROVE EntryInv' /\ CopyInv'
  <2> DEFINE l == driver[d].entry.lead
  <2>1. /\ queue[l] \in QueueEntries
        /\ queue[l].status \notin Over \cup {"in_progress"}
        /\ ~queue[l].dnc /\ queue[l].attempts < Config.retries
        /\ Drives(d, "moving", queue[l], driver[d].request)
        /\ UNCHANGED queue
    BY <1>5, CompareEntryDoes
  <2> HIDE DEF l
  <2>2. CopyInv'
    BY <1>b, <2>1
  <2> QED
    BY <2>1, <2>2 DEF EntryInv
<1>6. ASSUME NEW d \in Drivers, TakeBack(d) PROVE EntryInv' /\ CopyInv'
  <2>1. Drives(d, "idle", None, None) /\ UNCHANGED queue
    BY <1>6, TakeBackDoes
  <2>2. CopyInv'
    BY <1>b, <2>1
  <2> QED
    BY <2>1, <2>2 DEF EntryInv
<1>7. ASSUME NEW d \in Drivers, MoveEntry(d) PROVE EntryInv' /\ CopyInv'
  <2> DEFINE l == driver[d].entry.lead
  <2>1. PICK moved \in QueueEntries, written \in QueueEntries :
            /\ l \in Leads_ /\ ~moved.dnc /\ moved.attempts < Config.retries
            /\ written.lead = l /\ Sound(written)
            /\ queue' = [queue EXCEPT ![l] = written]
            /\ Drives(d, "talking", moved, driver[d].request)
    BY <1>7, MoveEntryDoes
  <2> HIDE DEF l
  <2>2. CopyInv'
    BY <1>b, <2>1
  <2> QED
    BY <1>a, <2>1, <2>2
<1>8. ASSUME NEW d \in Drivers, NEW r \in Results, NEW f \in Findings, Record(d, r, f)
      PROVE  EntryInv' /\ CopyInv'
  <2>1. PICK after \in QueueEntries :
            /\ Sound(after) /\ after.status # "in_progress"
            /\ \/ Drives(d, "saving", after, driver[d].request)
               \/ Drives(d, "idle", None, None)
            /\ UNCHANGED queue
    BY <1>8, RecordDoes
  <2>2. CopyInv'
    BY <1>b, <2>1
  <2> QED
    BY <2>1, <2>2 DEF EntryInv
<1>9. ASSUME NEW d \in Drivers, SaveEntry(d) PROVE EntryInv' /\ CopyInv'
  <2>1. /\ driver[d].entry.lead \in Leads_ /\ Sound(driver[d].entry)
        /\ queue' = [queue EXCEPT ![driver[d].entry.lead] = driver[d].entry]
        /\ Drives(d, "idle", None, None)
    BY <1>9, SaveEntryDoes
  <2>2. CopyInv'
    BY <1>b, <2>1
  <2> QED
    BY <1>a, <2>1, <2>2
<1> QED
  BY <1>1, <1>2, <1>3, <1>4, <1>5, <1>6, <1>7, <1>8, <1>9
     DEF Next, vars, PauseOrResume, RetryBootstrap, BeginTurn, CompareTurn, FailTurn,
         Terminate, StoreSession, campaignVars

\* What one lead's ownership is about.
LEMMA OwnedSame ==
    ASSUME NEW l \in Leads_, EntryOwned(l), queue'[l] = queue[l],
           \A d \in Drivers : d \in Writing(l) \cup Calling(l) \/ d \in (Writing(l) \cup Calling(l))'
                                  => driver'[d] = driver[d]
    PROVE  EntryOwned(l)'
<1>1. Writing(l)' = Writing(l)
  BY DEF Writing, Calling
<1>2. Calling(l)' = Calling(l)
  BY DEF Writing, Calling
<1>3. \A d \in Writing(l) : driver'[d] = driver[d]
  BY DEF Writing
<1> QED
  BY <1>1, <1>2, <1>3 DEF EntryOwned

\* A step of a driver that is not about a lead.
LEMMA OwnedElsewhere ==
    ASSUME TypeOK, NEW l \in Leads_, EntryOwned(l), queue'[l] = queue[l],
           NEW d \in Drivers, d \notin Writing(l) \cup Calling(l),
           NEW phase, NEW entry, NEW request, Drives(d, phase, entry, request),
           phase \in {"moving", "talking", "saving"} => entry.lead # l
    PROVE  EntryOwned(l)'
<1>1. /\ driver'[d].phase = phase /\ driver'[d].entry = entry
      /\ \A e \in Drivers : e # d => driver'[e] = driver[e]
  BY DrivesOne
<1>2. d \notin (Writing(l) \cup Calling(l))'
  BY <1>1 DEF Writing, Calling
<1> QED
  BY <1>1, <1>2, OwnedSame

\* The store compares the entry: nobody else is about to write it.
LEMMA OwnedCompared ==
    ASSUME TypeOK, EntryInv, CopyInv, NEW l \in Leads_, EntryOwned(l),
           l \notin crossedLeads', NEW d \in Drivers, CompareEntry(d)
    PROVE  EntryOwned(l)'
<1> DEFINE k == driver[d].entry.lead
<1>1. /\ driver[d].phase = "opened" /\ k \in Leads_ /\ queue[k].lead = k
      /\ Drives(d, "moving", queue[k], driver[d].request)
      /\ CrossLead(k, d) /\ UNCHANGED queue
  BY CompareEntryDoes
<1>2. d \notin Writing(l) \cup Calling(l)
  BY <1>1 DEF Writing, Calling
<1> HIDE DEF k
<1>3. CASE k # l
  BY <1>1, <1>2, <1>3, OwnedElsewhere
<1>4. CASE k = l
  <2>1. Writing(l) = {}
    BY <1>1, <1>2, <1>4 DEF CrossLead
  <2>2. /\ driver'[d].phase = "moving" /\ driver'[d].entry = queue[l]
        /\ \A e \in Drivers : e # d => driver'[e] = driver[e]
    BY <1>1, <1>4, DrivesOne
  <2>3. Writing(l)' = {d}
    BY <1>1, <1>4, <2>1, <2>2 DEF Writing
  <2>4. Calling(l)' = Calling(l)
    BY <1>1, <2>2 DEF Calling
  <2> QED
    BY <1>1, <2>2, <2>3, <2>4 DEF EntryOwned
<1> QED
  BY <1>3, <1>4

\* It writes the entry it compared, and the lead is called.
LEMMA OwnedMoved ==
    ASSUME TypeOK, EntryInv, CopyInv, NEW l \in Leads_, EntryOwned(l),
           NEW d \in Drivers, MoveEntry(d)
    PROVE  EntryOwned(l)'
<1> DEFINE k == driver[d].entry.lead
<1>1. PICK moved \in QueueEntries, written \in QueueEntries :
          /\ driver[d].phase = "moving" /\ k \in Leads_ /\ moved.lead = k
          /\ queue[k] = driver[d].entry => written.status = "in_progress"
          /\ queue' = [queue EXCEPT ![k] = written]
          /\ Drives(d, "talking", moved, driver[d].request)
  BY MoveEntryDoes
<1>2. queue \in [Leads_ -> QueueEntries]
  BY DEF TypeOK
<1>3. CASE k # l
  <2>1. d \notin Writing(l) \cup Calling(l)
    BY <1>1, <1>3 DEF Writing, Calling
  <2>2. queue'[l] = queue[l]
    BY <1>1, <1>2, <1>3
  <2> HIDE DEF k
  <2> QED
    BY <1>1, <1>3, <2>1, <2>2, OwnedElsewhere
<1>4. CASE k = l
  <2>1. d \in Writing(l)
    BY <1>1, <1>4 DEF Writing
  <2>2. Writing(l) = {d} /\ queue[l] = driver[d].entry
    BY <1>1, <2>1 DEF EntryOwned, Writing
  <2>3. Calling(l) = {}
    BY <1>1, <2>2 DEF EntryOwned, CopyInv, Over
  <2>4. /\ driver'[d].phase = "talking" /\ driver'[d].entry = moved
        /\ \A e \in Drivers : e # d => driver'[e] = driver[e]
    BY <1>1, DrivesOne
  <2>5. queue'[l].status = "in_progress"
    BY <1>1, <1>2, <1>4, <2>2
  <2>6. Writing(l)' = {}
    BY <2>2, <2>4 DEF Writing
  <2>7. Calling(l)' = {d}
    BY <1>1, <1>4, <2>3, <2>4 DEF Calling
  <2> QED
    BY <2>5, <2>6, <2>7 DEF EntryOwned
<1> QED
  BY <1>3, <1>4

\* A call is recorded: the store has looked at the entry, or refuses to.
LEMMA OwnedRecorded ==
    ASSUME TypeOK, ConfigInv, EntryInv, CopyInv, NEW l \in Leads_, EntryOwned(l),
           l \notin crossedLeads', NEW d \in Drivers, NEW r \in Results,
           NEW f \in Findings, Record(d, r, f)
    PROVE  EntryOwned(l)'
<1> DEFINE k == driver[d].entry.lead
<1>1. PICK after \in QueueEntries :
          /\ driver[d].phase = "talking" /\ k \in Leads_ /\ after.lead = k
          /\ \/ /\ queue[k].dnc => after.dnc
                /\ Drives(d, "saving", after, driver[d].request)
                /\ CrossLead(k, d)
             \/ /\ queue[k].dnc
                /\ Drives(d, "idle", None, None)
          /\ UNCHANGED queue
  BY RecordDoes
<1>2. CASE k # l
  <2>1. d \notin Writing(l) \cup Calling(l)
    BY <1>1, <1>2 DEF Writing, Calling
  <2> HIDE DEF k
  <2>2. CASE Drives(d, "saving", after, driver[d].request)
    BY <1>1, <1>2, <2>1, <2>2, OwnedElsewhere
  <2>3. CASE Drives(d, "idle", None, None)
    BY <1>1, <1>2, <2>1, <2>3, OwnedElsewhere
  <2> QED
    BY <1>1, <2>2, <2>3
<1>3. CASE k = l
  <2>1. d \in Calling(l) /\ d \notin Writing(l)
    BY <1>1, <1>3 DEF Calling, Writing
  <2>2. Calling(l) = {d}
    BY <2>1 DEF EntryOwned, Calling
  <2>3. CASE /\ queue[k].dnc => after.dnc
             /\ Drives(d, "saving", after, driver[d].request)
             /\ CrossLead(k, d)
    <3>1. Writing(l) = {}
      BY <1>3, <2>1, <2>3 DEF CrossLead
    <3>2. /\ driver'[d].phase = "saving" /\ driver'[d].entry = after
          /\ \A e \in Drivers : e # d => driver'[e] = driver[e]
      BY <2>3, DrivesOne
    <3>3. Writing(l)' = {d}
      BY <1>1, <1>3, <3>1, <3>2 DEF Writing
    <3>4. Calling(l)' = {d}
      BY <1>1, <1>3, <2>2, <3>2 DEF Calling
    <3> QED
      BY <1>1, <1>3, <2>2, <2>3, <3>2, <3>3, <3>4 DEF EntryOwned
  <2>4. CASE queue[k].dnc /\ Drives(d, "idle", None, None)
    <3>1. /\ driver'[d].phase = "idle"
          /\ \A e \in Drivers : e # d => driver'[e] = driver[e]
      BY <2>4, DrivesOne
    <3>2. Writing(l)' = Writing(l) /\ \A e \in Writing(l) : driver'[e] = driver[e]
      BY <1>1, <3>1 DEF Writing
    <3>3. Calling(l)' = {}
      BY <2>2, <3>1 DEF Calling
    <3>4. queue[l].status # "in_progress"
      BY <1>3, <2>4 DEF EntryInv, Sound
    <3> QED
      BY <1>1, <3>2, <3>3, <3>4 DEF EntryOwned
  <2> QED
    BY <1>1, <2>3, <2>4
<1> QED
  BY <1>2, <1>3

\* What was saved is off the phone.
LEMMA OwnedSaved ==
    ASSUME TypeOK, CopyInv, NEW l \in Leads_, EntryOwned(l), NEW d \in Drivers,
           SaveEntry(d)
    PROVE  EntryOwned(l)'
<1> DEFINE entry == driver[d].entry
<1>1. /\ driver[d].phase = "saving" /\ entry.lead \in Leads_
      /\ entry.status # "in_progress"
      /\ queue' = [queue EXCEPT ![entry.lead] = entry]
      /\ Drives(d, "idle", None, None)
  BY SaveEntryDoes
<1>2. queue \in [Leads_ -> QueueEntries]
  BY DEF TypeOK
<1>3. CASE entry.lead # l
  <2>1. d \notin Writing(l) \cup Calling(l)
    BY <1>1, <1>3 DEF Writing, Calling
  <2>2. queue'[l] = queue[l]
    BY <1>1, <1>2, <1>3
  <2> HIDE DEF entry
  <2> QED
    BY <1>1, <2>1, <2>2, OwnedElsewhere
<1>4. CASE entry.lead = l
  <2>1. Writing(l) = {d} /\ Calling(l) = {d}
    BY <1>1, <1>4 DEF EntryOwned, Writing, Calling
  <2>2. /\ driver'[d].phase = "idle"
        /\ \A e \in Drivers : e # d => driver'[e] = driver[e]
    BY <1>1, DrivesOne
  <2>3. Writing(l)' = {} /\ Calling(l)' = {}
    BY <2>1, <2>2 DEF Writing, Calling
  <2>4. queue'[l].status # "in_progress"
    BY <1>1, <1>2, <1>4
  <2> QED
    BY <2>3, <2>4 DEF EntryOwned
<1> QED
  BY <1>3, <1>4

\* An opt-out comes while nobody is about to write the entry.
LEMMA OwnedOptedOut ==
    ASSUME TypeOK, NEW l \in Leads_, EntryOwned(l), l \notin crossedLeads',
           NEW k \in Leads_, MarkDnc(k)
    PROVE  EntryOwned(l)'
<1>1. /\ queue' = [queue EXCEPT ![k] = MarkedDnc(queue[k])] /\ UNCHANGED driver
      /\ CrossLead(k, None) /\ queue \in [Leads_ -> QueueEntries]
  BY DEF MarkDnc, TypeOK
<1>2. Writing(l)' = Writing(l) /\ Calling(l)' = Calling(l)
  BY <1>1 DEF Writing, Calling
<1>3. CASE k # l
  BY <1>1, <1>2, <1>3, OwnedSame
<1>4. CASE k = l
  <2>1. Writing(l) = {}
    BY <1>1, <1>4, NoneAssumption DEF CrossLead, Writing
  <2>2. queue'[l].status = "dnc"
    BY <1>1, <1>4 DEF MarkedDnc, QueueEntries
  <2> QED
    BY <1>1, <1>2, <2>1, <2>2 DEF EntryOwned
<1> QED
  BY <1>3, <1>4

LEMMA CrossedGrow ==
    ASSUME TypeOK, [Next]_vars
    PROVE  crossedLeads \subseteq crossedLeads' /\ crossedSessions \subseteq crossedSessions'
  BY DEF Next, vars, PauseOrResume, MarkDnc, Select, Bootstrap, CompareEntry, TakeBack,
      MoveEntry, RetryBootstrap, BeginTurn, CompareTurn, FailTurn, Terminate,
      StoreSession, Record, SaveEntry, campaignVars, sessionVars, CrossLead, CrossSession

\* One driver at a time calls a lead whose entry nobody wrote across another.
LEMMA NextCalls ==
    ASSUME TypeOK, ConfigInv, EntryInv, CopyInv, CallInv, [Next]_vars
    PROVE  CallInv'
<1> SUFFICES ASSUME NEW l \in Leads_, l \notin crossedLeads'
             PROVE  EntryOwned(l)'
  BY DEF CallInv
<1>0. EntryOwned(l)
  BY CrossedGrow DEF CallInv
<1>1. CASE UNCHANGED <<queue, driver>>
  BY <1>0, <1>1, OwnedSame
<1>2. ASSUME NEW k \in Leads_, MarkDnc(k) PROVE EntryOwned(l)'
  BY <1>0, <1>2, OwnedOptedOut
<1>3. ASSUME NEW d \in Drivers, NEW m \in Minutes, NEW e \in Elapsed, Select(d, m, e)
      PROVE  EntryOwned(l)'
  <2>1. PICK k \in Leads_ : /\ driver[d].phase = "idle"
                            /\ Drives(d, "chosen", queue[k], driver[d].request)
    BY <1>3, SelectDoes
  <2>2. d \notin Writing(l) \cup Calling(l) /\ queue' = queue
    BY <1>3, <2>1 DEF Writing, Calling, Select
  <2> QED
    BY <1>0, <2>1, <2>2, OwnedElsewhere
<1>4. ASSUME NEW d \in Drivers, NEW s \in SessionIds, NEW t \in Troubles,
             Bootstrap(d, s, t)
      PROVE  EntryOwned(l)'
  <2>1. /\ driver[d].phase = "chosen" /\ UNCHANGED queue
        /\ \/ Drives(d, "opened", driver[d].entry, s)
           \/ Drives(d, "idle", None, None)
    BY <1>4, BootstrapDoes
  <2>2. d \notin Writing(l) \cup Calling(l)
    BY <2>1 DEF Writing, Calling
  <2>3. CASE Drives(d, "opened", driver[d].entry, s)
    BY <1>0, <2>1, <2>2, <2>3, OwnedElsewhere
  <2>4. CASE Drives(d, "idle", None, None)
    BY <1>0, <2>1, <2>2, <2>4, OwnedElsewhere
  <2> QED
    BY <2>1, <2>3, <2>4
<1>5. ASSUME NEW d \in Drivers, CompareEntry(d) PROVE EntryOwned(l)'
  BY <1>0, <1>5, OwnedCompared
<1>6. ASSUME NEW d \in Drivers, TakeBack(d) PROVE EntryOwned(l)'
  <2>1. BeingOpened(d) /\ Drives(d, "idle", None, None) /\ UNCHANGED queue
    BY <1>6, TakeBackDoes
  <2>2. /\ driver'[d].phase = "idle" /\ d \notin Calling(l)
        /\ \A e \in Drivers : e # d => driver'[e] = driver[e]
    BY <2>1, DrivesOne DEF BeingOpened, Calling
  <2>3. Writing(l)' = Writing(l) \ {d} /\ Calling(l)' = Calling(l)
    BY <2>2 DEF Writing, Calling
  <2>4. \A e \in Writing(l)' : driver'[e] = driver[e]
    BY <2>2, <2>3 DEF Writing
  <2> QED
    BY <1>0, <2>1, <2>3, <2>4 DEF EntryOwned
<1>7. ASSUME NEW d \in Drivers, MoveEntry(d) PROVE EntryOwned(l)'
  BY <1>0, <1>7, OwnedMoved
<1>8. ASSUME NEW d \in Drivers, NEW r \in Results, NEW f \in Findings, Record(d, r, f)
      PROVE  EntryOwned(l)'
  BY <1>0, <1>8, OwnedRecorded
<1>9. ASSUME NEW d \in Drivers, SaveEntry(d) PROVE EntryOwned(l)'
  BY <1>0, <1>9, OwnedSaved
<1> QED
  BY <1>1, <1>2, <1>3, <1>4, <1>5, <1>6, <1>7, <1>8, <1>9
     DEF Next, vars, PauseOrResume, RetryBootstrap, BeginTurn, CompareTurn, FailTurn,
         Terminate, StoreSession, campaignVars

---------------------------------------------------------------------------
(* Requests and sessions.                                                   *)

\* Requests are used once.
LEMMA NextRequests ==
    ASSUME TypeOK, ConfigInv, EntryInv, CopyInv, RequestInv, SessionInv, TurnInv,
           [Next]_vars
    PROVE  RequestInv'
<1>0. /\ sessions \in [SessionIds -> {None} \cup ChatSessions]
      /\ answered \in [SessionIds -> {None} \cup Answers]
  BY DEF TypeOK
<1>a. ASSUME NEW d \in Drivers, NEW phase, NEW entry, NEW request,
             Drives(d, phase, entry, request),
             phase \in {"idle", "chosen"} => request = None,
             phase \notin {"idle", "chosen"} => request \in SessionIds,
             phase \in {"opened", "moving"} =>
                 /\ answered'[request] = None /\ sessions'[request] # None
                 /\ sessions'[request].lead = entry.lead,
             request # None =>
                 \A e \in Drivers : e # d => driver[e].request # request,
             \A e \in Drivers : e # d /\ BeingOpened(e) =>
                 /\ answered'[driver[e].request] = answered[driver[e].request]
                 /\ sessions'[driver[e].request] = sessions[driver[e].request]
      PROVE  RequestInv'
  <2>1. /\ driver'[d].phase = phase /\ driver'[d].entry = entry
        /\ driver'[d].request = request
        /\ \A e \in Drivers : e # d => driver'[e] = driver[e]
    BY <1>a, DrivesOne
  <2>2. ASSUME NEW e \in Drivers
        PROVE  /\ driver'[e].phase \in {"idle", "chosen"} => driver'[e].request = None
               /\ driver'[e].phase \notin {"idle", "chosen"} =>
                     driver'[e].request \in SessionIds
               /\ driver'[e].phase \in {"opened", "moving"} =>
                     /\ answered'[driver'[e].request] = None
                     /\ sessions'[driver'[e].request] # None
                     /\ sessions'[driver'[e].request].lead = driver'[e].entry.lead
    <3>1. CASE e = d
      BY <1>a, <2>1, <3>1
    <3>2. CASE e # d
      BY <1>a, <2>1, <3>2 DEF RequestInv, BeingOpened
    <3> QED
      BY <3>1, <3>2
  <2>3. \A e, f \in Drivers :
            driver'[e].request = driver'[f].request /\ driver'[e].request # None
                => e = f
    BY <1>a, <2>1 DEF RequestInv
  <2> QED
    BY <2>2, <2>3 DEF RequestInv, BeingOpened
<1>1. CASE UNCHANGED <<driver, answered, sessions>>
  BY <1>1 DEF RequestInv, BeingOpened
<1>2. ASSUME NEW d \in Drivers, NEW m \in Minutes, NEW e \in Elapsed, Select(d, m, e)
      PROVE  RequestInv'
  <2>1. PICK l \in Leads_ : /\ driver[d].phase = "idle"
                            /\ Drives(d, "chosen", queue[l], driver[d].request)
    BY <1>2, SelectDoes
  <2>2. driver[d].request = None /\ UNCHANGED <<answered, sessions>>
    BY <1>2, <2>1 DEF RequestInv, Select, sessionVars
  <2> QED
    BY <1>a, <2>1, <2>2
<1>3. ASSUME NEW d \in Drivers, NEW s \in SessionIds, NEW t \in Troubles,
             Bootstrap(d, s, t)
      PROVE  RequestInv'
  <2> DEFINE entry == driver[d].entry
             l == entry.lead
  <2>1. /\ l \in Leads_ /\ \A e \in Drivers : driver[e].request # s
        /\ \/ /\ sessions' = [sessions EXCEPT ![s] = NewSession(LeadWith(l))]
              /\ Drives(d, "opened", entry, s)
              /\ answered[s] = None /\ UNCHANGED answered
           \/ /\ \E reason \in Refusals :
                    answered' = [answered EXCEPT ![s] = Rejection(reason)]
              /\ Drives(d, "idle", None, None)
              /\ UNCHANGED sessions
    BY <1>3, BootstrapDoes
  <2> HIDE DEF entry
  <2>2. NewSession(LeadWith(l)) # None /\ NewSession(LeadWith(l)).lead = l
    BY <2>1, SessionOfLead, NoneAssumption
  <2>3. CASE /\ sessions' = [sessions EXCEPT ![s] = NewSession(LeadWith(l))]
             /\ Drives(d, "opened", entry, s)
             /\ answered[s] = None /\ UNCHANGED answered
    <3>1. /\ sessions'[s] # None /\ sessions'[s].lead = l
          /\ \A q \in SessionIds : q # s => sessions'[q] = sessions[q]
      BY <1>0, <2>2, <2>3
    <3>2. \A e \in Drivers : BeingOpened(e) =>
              driver[e].request \in SessionIds /\ driver[e].request # s
      BY <2>1 DEF RequestInv, BeingOpened
    <3> HIDE DEF l
    <3> QED
      BY <1>a, <2>1, <2>3, <3>1, <3>2 DEF l
  <2>4. CASE /\ \E reason \in Refusals :
                    answered' = [answered EXCEPT ![s] = Rejection(reason)]
             /\ Drives(d, "idle", None, None)
             /\ UNCHANGED sessions
    <3>1. \A q \in SessionIds : q # s => answered'[q] = answered[q]
      BY <1>0, <2>4
    <3>2. \A e \in Drivers : BeingOpened(e) =>
              driver[e].request \in SessionIds /\ driver[e].request # s
      BY <2>1 DEF RequestInv, BeingOpened
    <3> QED
      BY <1>a, <2>4, <3>1, <3>2
  <2> QED
    BY <2>1, <2>3, <2>4
<1>4. ASSUME NEW d \in Drivers, CompareEntry(d) PROVE RequestInv'
  <2> DEFINE l == driver[d].entry.lead
  <2>1. /\ driver[d].phase = "opened" /\ queue[l].lead = l
        /\ Drives(d, "moving", queue[l], driver[d].request)
        /\ UNCHANGED <<answered, sessions>>
    BY <1>4, CompareEntryDoes
  <2>2. /\ driver[d].request \in SessionIds /\ answered[driver[d].request] = None
        /\ sessions[driver[d].request] # None
        /\ sessions[driver[d].request].lead = l
        /\ driver[d].request # None =>
              \A e \in Drivers : e # d => driver[e].request # driver[d].request
    BY <2>1 DEF RequestInv, BeingOpened
  <2> HIDE DEF l
  <2> QED
    BY <1>a, <2>1, <2>2
<1>5. ASSUME NEW d \in Drivers, NEW s \in SessionIds, s = driver[d].request,
             BeingOpened(d),
             \A q \in SessionIds : q # s => answered'[q] = answered[q]
                                         /\ sessions'[q] = sessions[q]
      PROVE  \A e \in Drivers : e # d /\ BeingOpened(e) =>
                 /\ answered'[driver[e].request] = answered[driver[e].request]
                 /\ sessions'[driver[e].request] = sessions[driver[e].request]
  <2>1. \A e \in Drivers : BeingOpened(e) => driver[e].request \in SessionIds
    BY DEF RequestInv, BeingOpened
  <2>2. \A e \in Drivers : e # d => driver[e].request # s
    BY <1>5, NoneAssumption DEF RequestInv
  <2> QED
    BY <1>5, <2>1, <2>2
<1>6. ASSUME NEW d \in Drivers, TakeBack(d) PROVE RequestInv'
  <2> DEFINE s == driver[d].request
  <2>1. /\ BeingOpened(d)
        /\ sessions' = [sessions EXCEPT ![s] = None]
        /\ answered' = [answered EXCEPT ![s] = Rejection("queue_transition_failed")]
        /\ Drives(d, "idle", None, None)
    BY <1>6, TakeBackDoes
  <2>2. s \in SessionIds
    BY <2>1 DEF RequestInv, BeingOpened
  <2> HIDE DEF s
  <2>3. \A q \in SessionIds : q # s => answered'[q] = answered[q]
                                    /\ sessions'[q] = sessions[q]
    BY <1>0, <2>1
  <2> QED
    BY <1>5, <1>a, <2>1, <2>2, <2>3 DEF s
<1>7. ASSUME NEW d \in Drivers, MoveEntry(d) PROVE RequestInv'
  <2> DEFINE s == driver[d].request
  <2>1. PICK moved \in QueueEntries, written \in QueueEntries :
            /\ driver[d].phase = "moving"
            /\ answered' = [answered EXCEPT ![s] =
                  [created |-> TRUE, reason |-> None, entry |-> moved]]
            /\ Drives(d, "talking", moved, s)
            /\ UNCHANGED sessions
    BY <1>7, MoveEntryDoes
  <2>2. s \in SessionIds /\ BeingOpened(d)
    BY <2>1 DEF RequestInv, BeingOpened
  <2> HIDE DEF s
  <2>3. \A q \in SessionIds : q # s => answered'[q] = answered[q]
                                    /\ sessions'[q] = sessions[q]
    BY <1>0, <2>1
  <2>4. s # None => \A e \in Drivers : e # d => driver[e].request # s
    BY DEF RequestInv, s
  <2>5. \A e \in Drivers : e # d /\ BeingOpened(e) =>
                 /\ answered'[driver[e].request] = answered[driver[e].request]
                 /\ sessions'[driver[e].request] = sessions[driver[e].request]
    BY <1>5, <2>2, <2>3 DEF s
  <2> QED
    BY <1>a, <2>1, <2>2, <2>4, <2>5
<1>8. ASSUME NEW d \in Drivers, NEW r \in Results, NEW f \in Findings, Record(d, r, f)
      PROVE  RequestInv'
  <2> DEFINE s == driver[d].request
  <2>1. PICK after \in QueueEntries :
            /\ driver[d].phase = "talking"
            /\ \/ Drives(d, "saving", after, s)
               \/ Drives(d, "idle", None, None)
            /\ UNCHANGED <<answered, sessions>>
    BY <1>8, RecordDoes
  <2>2. /\ s \in SessionIds
        /\ s # None => \A e \in Drivers : e # d => driver[e].request # s
    BY <2>1 DEF RequestInv
  <2> HIDE DEF s
  <2> QED
    BY <1>a, <2>1, <2>2
<1>9. ASSUME NEW d \in Drivers, SaveEntry(d) PROVE RequestInv'
  <2>1. Drives(d, "idle", None, None) /\ UNCHANGED <<answered, sessions>>
    BY <1>9, SaveEntryDoes
  <2> QED
    BY <1>a, <2>1
<1>10. ASSUME NEW c \in Callers, StoreSession(c) PROVE RequestInv'
  <2>1. PICK t \in TurnsUnderWay :
            /\ inTurn[c] = t /\ t # None /\ t.id \in SessionIds
            /\ sessions' = [sessions EXCEPT ![t.id] = t.session]
            /\ UNCHANGED <<answered, driver>>
    BY <1>10, StoreSessionDoes
  <2>2. answered[t.id] # None
    BY <2>1 DEF SessionInv, SessionUsed, UnderWay, Created
  <2>3. \A e \in Drivers : BeingOpened(e) =>
            sessions'[driver[e].request] = sessions[driver[e].request]
    BY <1>0, <2>1, <2>2 DEF RequestInv, BeingOpened
  <2> QED
    BY <2>1, <2>3 DEF RequestInv, BeingOpened
<1> QED
  BY <1>1, <1>2, <1>3, <1>4, <1>6, <1>7, <1>8, <1>9, <1>10
     DEF Next, vars, PauseOrResume, MarkDnc, RetryBootstrap, BeginTurn, CompareTurn,
         FailTurn, Terminate, sessionVars, campaignVars

\* A session is there while it is opened and once it was answered as created.
LEMMA NextSessions ==
    ASSUME TypeOK, ConfigInv, EntryInv, CopyInv, RequestInv, SessionInv, TurnInv,
           [Next]_vars
    PROVE  SessionInv'
<1> SUFFICES ASSUME NEW q \in SessionIds
             PROVE  SessionUsed(q)'
  BY DEF SessionInv
<1>0. /\ sessions \in [SessionIds -> {None} \cup ChatSessions]
      /\ answered \in [SessionIds -> {None} \cup Answers]
      /\ processors \in [SessionIds -> {None, "fresh", "used"}]
      /\ inTurn \in [Callers -> {None} \cup TurnsUnderWay]
      /\ SessionUsed(q)
  BY DEF TypeOK, SessionInv
<1>a. ASSUME answered'[q] = answered[q], (sessions'[q] # None) <=> (sessions[q] # None),
             OpenedFor(q)' = OpenedFor(q),
             processors'[q] # None => processors[q] # None,
             \A c \in Callers : inTurn'[c] # None /\ inTurn'[c].id = q =>
                 (inTurn[c] # None /\ inTurn[c].id = q) \/ Created(q),
             \A n \in 1..MaxTurns : <<q, n>> \in acked' =>
                 <<q, n>> \in acked \/ Created(q)
      PROVE  SessionUsed(q)'
  <2>1. Created(q)' <=> Created(q)
    BY <1>a DEF Created
  <2>2. \A c \in UnderWay' : inTurn'[c].id = q => Created(q)
    BY <1>0, <1>a DEF UnderWay, SessionUsed
  <2>3. (sessions'[q] # None) <=> (Created(q)' \/ OpenedFor(q)' # {})
    BY <1>0, <1>a, <2>1 DEF SessionUsed
  <2> QED
    BY <1>0, <1>a, <2>1, <2>2, <2>3 DEF SessionUsed
<1>b. ASSUME NEW d \in Drivers, NEW phase, NEW entry, NEW request,
             Drives(d, phase, entry, request),
             d \in OpenedFor(q) <=> (phase \in {"opened", "moving"} /\ request = q)
      PROVE  OpenedFor(q)' = OpenedFor(q)
  <2>1. /\ driver'[d].phase = phase /\ driver'[d].request = request
        /\ \A e \in Drivers : e # d => driver'[e] = driver[e]
    BY <1>b, DrivesOne
  <2> QED
    BY <1>b, <2>1 DEF OpenedFor, BeingOpened
<1>1. CASE UNCHANGED <<sessions, answered, driver, processors, inTurn, acked>>
  <2>1. OpenedFor(q)' = OpenedFor(q)
    BY <1>1 DEF OpenedFor, BeingOpened
  <2> QED
    BY <1>1, <1>a, <2>1
<1>2. ASSUME NEW d \in Drivers, NEW phase, NEW entry, NEW request,
             Drives(d, phase, entry, request),
             d \in OpenedFor(q) <=> (phase \in {"opened", "moving"} /\ request = q),
             UNCHANGED <<sessions, answered, processors, inTurn, acked>>
      PROVE  SessionUsed(q)'
  BY <1>2, <1>a, <1>b
<1>3. ASSUME NEW d \in Drivers, NEW m \in Minutes, NEW e \in Elapsed, Select(d, m, e)
      PROVE  SessionUsed(q)'
  <2>1. PICK l \in Leads_ : /\ driver[d].phase = "idle"
                            /\ Drives(d, "chosen", queue[l], driver[d].request)
    BY <1>3, SelectDoes
  <2>2. d \notin OpenedFor(q)
    BY <2>1 DEF OpenedFor, BeingOpened
  <2>3. UNCHANGED <<sessions, answered, processors, inTurn, acked>>
    BY <1>3 DEF Select, sessionVars
  <2> QED
    BY <1>2, <2>1, <2>2, <2>3
<1>4. ASSUME NEW d \in Drivers, NEW s \in SessionIds, NEW t \in Troubles,
             Bootstrap(d, s, t)
      PROVE  SessionUsed(q)'
  <2> DEFINE entry == driver[d].entry
             l == entry.lead
  <2>1. /\ l \in Leads_ /\ \A e \in Drivers : driver[e].request # s
        /\ driver[d].phase = "chosen" /\ answered[s] = None
        /\ UNCHANGED <<processors, inTurn, acked>>
        /\ \/ /\ sessions[s] = None
              /\ sessions' = [sessions EXCEPT ![s] = NewSession(LeadWith(l))]
              /\ Drives(d, "opened", entry, s)
              /\ UNCHANGED answered
           \/ /\ \E reason \in Refusals :
                    answered' = [answered EXCEPT ![s] = Rejection(reason)]
              /\ Drives(d, "idle", None, None)
              /\ UNCHANGED sessions
    BY <1>4, BootstrapDoes
  <2>2. NewSession(LeadWith(l)) # None
    BY <2>1, SessionOfLead, NoneAssumption
  <2> HIDE DEF l, entry
  <2>3. ~Created(s) /\ OpenedFor(s) = {} /\ d \notin OpenedFor(q)
    BY <2>1 DEF Created, OpenedFor, BeingOpened
  <2>4. CASE q # s
    <3>1. sessions'[q] = sessions[q] /\ answered'[q] = answered[q]
      BY <1>0, <2>1, <2>4
    <3>2. OpenedFor(q)' = OpenedFor(q)
      <4>1. CASE Drives(d, "opened", entry, s)
        BY <1>b, <2>3, <2>4, <4>1
      <4>2. CASE Drives(d, "idle", None, None)
        BY <1>b, <2>3, <2>4, <4>2
      <4> QED
        BY <2>1, <4>1, <4>2
    <3> QED
      BY <1>a, <2>1, <3>1, <3>2
  <2>5. CASE q = s
    <3>1. /\ sessions[s] = None /\ processors[s] = None
          /\ \A c \in UnderWay : inTurn[c].id # s
          /\ \A n \in 1..MaxTurns : <<s, n>> \notin acked
      BY <1>0, <2>3, <2>5 DEF SessionUsed
    <3>2. /\ processors'[s] = None /\ \A c \in UnderWay' : inTurn'[c].id # s
          /\ \A n \in 1..MaxTurns : <<s, n>> \notin acked'
      BY <2>1, <3>1 DEF UnderWay
    <3>3. CASE /\ sessions' = [sessions EXCEPT ![s] = NewSession(LeadWith(l))]
               /\ Drives(d, "opened", entry, s)
      <4>1. sessions'[s] # None
        BY <1>0, <2>2, <3>3
      <4>2. driver'[d].phase = "opened" /\ driver'[d].request = s
        BY <3>3, DrivesOne
      <4>3. d \in OpenedFor(s)'
        BY <4>2 DEF OpenedFor, BeingOpened
      <4> QED
        BY <2>5, <3>2, <4>1, <4>3 DEF SessionUsed
    <3>4. CASE /\ \E reason \in Refusals :
                    answered' = [answered EXCEPT ![s] = Rejection(reason)]
               /\ Drives(d, "idle", None, None)
               /\ UNCHANGED sessions
      <4>1. answered'[s].created = FALSE
        BY <1>0, <3>4 DEF Rejection
      <4>2. ~Created(s)'
        BY <4>1 DEF Created
      <4>3. OpenedFor(s)' = {}
        BY <1>b, <2>3, <2>5, <3>4
      <4> QED
        BY <2>5, <3>1, <3>2, <3>4, <4>2, <4>3 DEF SessionUsed
    <3> QED
      BY <2>1, <3>3, <3>4
  <2> QED
    BY <2>4, <2>5
<1>5. ASSUME NEW d \in Drivers, CompareEntry(d) PROVE SessionUsed(q)'
  <2> DEFINE l == driver[d].entry.lead
  <2>1. /\ driver[d].phase = "opened"
        /\ Drives(d, "moving", queue[l], driver[d].request)
        /\ UNCHANGED <<answered, sessions, processors, inTurn, acked>>
    BY <1>5, CompareEntryDoes
  <2> HIDE DEF l
  <2>2. d \in OpenedFor(q) <=> driver[d].request = q
    BY <2>1 DEF OpenedFor, BeingOpened
  <2> QED
    BY <1>2, <2>1, <2>2
<1>6. ASSUME NEW d \in Drivers, TakeBack(d) PROVE SessionUsed(q)'
  <2> DEFINE s == driver[d].request
  <2>1. /\ BeingOpened(d)
        /\ sessions' = [sessions EXCEPT ![s] = None]
        /\ answered' = [answered EXCEPT ![s] = Rejection("queue_transition_failed")]
        /\ Drives(d, "idle", None, None)
        /\ UNCHANGED <<processors, inTurn, acked>>
    BY <1>6, TakeBackDoes
  <2>2. /\ s \in SessionIds /\ answered[s] = None
        /\ \A e \in Drivers : e # d => driver[e].request # s
    BY <2>1, NoneAssumption DEF RequestInv, BeingOpened
  <2>3. d \in OpenedFor(q) <=> s = q
    BY <2>1 DEF OpenedFor
  <2>4. /\ driver'[d].phase = "idle" /\ \A e \in Drivers : e # d => driver'[e] = driver[e]
    BY <2>1, DrivesOne
  <2>5. CASE q # s
    <3>1. sessions'[q] = sessions[q] /\ answered'[q] = answered[q]
      BY <1>0, <2>1, <2>5
    <3>2. OpenedFor(q)' = OpenedFor(q)
      BY <1>b, <2>1, <2>3, <2>5
    <3> QED
      BY <1>a, <2>1, <3>1, <3>2
  <2>6. CASE q = s
    <3>1. OpenedFor(q)' = {}
      BY <2>2, <2>4, <2>6 DEF OpenedFor, BeingOpened
    <3> HIDE DEF s
    <3>2. sessions'[q] = None /\ answered'[q].created = FALSE
      BY <1>0, <2>1, <2>2, <2>6 DEF Rejection
    <3>3. ~Created(q)' /\ ~Created(q)
      BY <2>2, <2>6, <3>2 DEF Created
    <3>4. /\ processors[q] = None /\ \A c \in UnderWay : inTurn[c].id # q
          /\ \A n \in 1..MaxTurns : <<q, n>> \notin acked
      BY <1>0, <3>3 DEF SessionUsed
    <3>5. /\ processors'[q] = None /\ \A c \in UnderWay' : inTurn'[c].id # q
          /\ \A n \in 1..MaxTurns : <<q, n>> \notin acked'
      BY <2>1, <3>4 DEF UnderWay
    <3> QED
      BY <3>1, <3>2, <3>3, <3>5 DEF SessionUsed
  <2> QED
    BY <2>5, <2>6
<1>7. ASSUME NEW d \in Drivers, MoveEntry(d) PROVE SessionUsed(q)'
  <2> DEFINE s == driver[d].request
  <2>1. PICK moved \in QueueEntries, written \in QueueEntries :
            /\ driver[d].phase = "moving"
            /\ answered' = [answered EXCEPT ![s] =
                  [created |-> TRUE, reason |-> None, entry |-> moved]]
            /\ processors' = [processors EXCEPT ![s] = "fresh"]
            /\ Drives(d, "talking", moved, s)
            /\ UNCHANGED <<sessions, inTurn, acked>>
    BY <1>7, MoveEntryDoes
  <2>2. s \in SessionIds /\ sessions[s] # None
    BY <2>1 DEF RequestInv, BeingOpened
  <2>3. d \in OpenedFor(q) <=> s = q
    BY <2>1 DEF OpenedFor, BeingOpened
  <2> HIDE DEF s
  <2>4. CASE q # s
    <3>1. answered'[q] = answered[q] /\ processors'[q] = processors[q]
      BY <1>0, <2>1, <2>4
    <3>2. OpenedFor(q)' = OpenedFor(q)
      BY <1>b, <2>1, <2>3, <2>4
    <3> QED
      BY <1>a, <2>1, <3>1, <3>2
  <2>5. CASE q = s
    <3> DEFINE yes == [created |-> TRUE, reason |-> None, entry |-> moved]
    <3>1. yes \in Answers /\ yes.created
      BY DEF Answers
    <3>2. answered'[q] = yes
      BY <1>0, <2>1, <2>2, <2>5
    <3> HIDE DEF yes
    <3>3. Created(q)'
      BY <3>1, <3>2, NoneAssumption DEF Created
    <3> QED
      BY <2>1, <2>2, <2>5, <3>3 DEF SessionUsed
  <2> QED
    BY <2>4, <2>5
<1>8. ASSUME NEW d \in Drivers, RetryBootstrap(d) PROVE SessionUsed(q)'
  <2> DEFINE s == driver[d].request
  <2>1. /\ processors[s] = "used" /\ processors' = [processors EXCEPT ![s] = "fresh"]
        /\ UNCHANGED <<sessions, answered, driver, inTurn, acked>>
    BY <1>8 DEF RetryBootstrap
  <2> HIDE DEF s
  <2>2. processors'[q] # None => processors[q] # None
    BY <1>0, <2>1, NoneAssumption
  <2>3. OpenedFor(q)' = OpenedFor(q)
    BY <2>1 DEF OpenedFor, BeingOpened
  <2> QED
    BY <1>a, <2>1, <2>2, <2>3
<1>9. ASSUME NEW d \in Drivers, NEW r \in Results, NEW f \in Findings, Record(d, r, f)
      PROVE  SessionUsed(q)'
  <2> DEFINE s == driver[d].request
  <2>1. PICK after \in QueueEntries :
            /\ driver[d].phase = "talking"
            /\ \/ Drives(d, "saving", after, s)
               \/ Drives(d, "idle", None, None)
            /\ UNCHANGED <<answered, sessions, processors, inTurn, acked>>
    BY <1>9, RecordDoes
  <2>2. d \notin OpenedFor(q)
    BY <2>1 DEF OpenedFor, BeingOpened
  <2> HIDE DEF s
  <2> QED
    BY <1>2, <2>1, <2>2
<1>10. ASSUME NEW d \in Drivers, SaveEntry(d) PROVE SessionUsed(q)'
  <2>1. /\ driver[d].phase = "saving" /\ Drives(d, "idle", None, None)
        /\ UNCHANGED <<answered, sessions, processors, inTurn, acked>>
    BY <1>10, SaveEntryDoes
  <2>2. d \notin OpenedFor(q)
    BY <2>1 DEF OpenedFor, BeingOpened
  <2> QED
    BY <1>2, <2>1, <2>2
<1>c. ASSUME UNCHANGED driver PROVE OpenedFor(q)' = OpenedFor(q)
  BY <1>c DEF OpenedFor, BeingOpened
<1>d. ASSUME NEW c \in Callers, NEW t \in {None} \cup TurnsUnderWay, Turns(c, t),
             t # None => Created(t.id)
      PROVE  \A e \in Callers : inTurn'[e] # None /\ inTurn'[e].id = q =>
                 (inTurn[e] # None /\ inTurn[e].id = q) \/ Created(q)
  BY <1>d, TurnsTypes
<1>11. ASSUME NEW c \in Callers, NEW s \in SessionIds, NEW n \in 1..MaxTurns,
             BeginTurn(c, s, n)
      PROVE  SessionUsed(q)'
  <2>1. PICK t \in TurnsUnderWay :
            /\ Turns(c, t) /\ processors[s] # None /\ t.id = s
            /\ processors' = [processors EXCEPT ![s] = "used"]
            /\ UNCHANGED <<sessions, acked, answered, driver>>
    BY <1>11, BeginTurnDoes
  <2>2. Created(s)
    BY <2>1 DEF SessionInv, SessionUsed
  <2>3. processors'[q] # None => processors[q] # None
    BY <1>0, <2>1
  <2> QED
    BY <1>a, <1>c, <1>d, <2>1, <2>2, <2>3
<1>12. ASSUME NEW c \in Callers, NEW terminal \in BOOLEAN, CompareTurn(c, terminal)
       PROVE  SessionUsed(q)'
  <2>1. PICK t, u \in TurnsUnderWay :
            /\ inTurn[c] = t /\ t # None /\ Turns(c, u) /\ u.id = t.id
            /\ UNCHANGED <<sessions, processors, acked, answered, driver>>
    BY <1>12, CompareTurnDoes
  <2>2. Created(u.id)
    BY <2>1 DEF SessionInv, SessionUsed, UnderWay, TurnsUnderWay
  <2> QED
    BY <1>a, <1>c, <1>d, <2>1, <2>2
<1>13. ASSUME NEW c \in Callers, FailTurn(c) PROVE SessionUsed(q)'
  <2>1. /\ Turns(c, None)
        /\ UNCHANGED <<sessions, processors, acked, answered, driver>>
    BY <1>13 DEF FailTurn, Turns, campaignVars
  <2> QED
    BY <1>a, <1>c, <1>d, <2>1
<1>14. ASSUME NEW c \in Callers, NEW s \in SessionIds, Terminate(c, s)
       PROVE  SessionUsed(q)'
  <2>1. PICK u \in TurnsUnderWay :
            /\ Turns(c, u) /\ processors[s] # None /\ u.id = s
            /\ UNCHANGED <<sessions, processors, acked, answered, driver>>
    BY <1>14, TerminateDoes
  <2>2. Created(s)
    BY <2>1 DEF SessionInv, SessionUsed
  <2> QED
    BY <1>a, <1>c, <1>d, <2>1, <2>2
<1>15. ASSUME NEW c \in Callers, StoreSession(c) PROVE SessionUsed(q)'
  <2>1. PICK t \in TurnsUnderWay :
            /\ inTurn[c] = t /\ t # None /\ Turns(c, None) /\ t.id \in SessionIds
            /\ t.session \in ChatSessions
            /\ sessions' = [sessions EXCEPT ![t.id] = t.session]
            /\ acked' = acked \cup Pending(t)
            /\ UNCHANGED <<processors, answered, driver>>
    BY <1>15, StoreSessionDoes
  <2>2. Created(t.id) /\ sessions[t.id] # None
    BY <2>1, UsedSessions DEF SessionInv, SessionUsed, UnderWay
  <2>3. (sessions'[q] # None) <=> (sessions[q] # None)
    BY <1>0, <2>1, <2>2, NoneAssumption
  <2>4. \A n \in 1..MaxTurns : <<q, n>> \in acked' => <<q, n>> \in acked \/ Created(q)
    BY <2>1, <2>2 DEF Pending
  <2> QED
    BY <1>a, <1>c, <1>d, <2>1, <2>3, <2>4
<1> QED
  BY <1>1, <1>3, <1>4, <1>5, <1>6, <1>7, <1>8, <1>9, <1>10, <1>11, <1>12, <1>13,
     <1>14, <1>15
     DEF Next, vars, PauseOrResume, MarkDnc, sessionVars

---------------------------------------------------------------------------
(* Transcripts.                                                             *)

\* A session that nobody has a turn of is opened, or taken back.
Unused(s) == answered[s] = None /\ UNCHANGED <<acked, inTurn, crossedSessions>>

Opens(s, l) ==
    /\ Unused(s) /\ Policy # None /\ sessions[s] = None
    /\ sessions' = [sessions EXCEPT ![s] = NewSession(LeadWith(l))]

Closes(s) == Unused(s) /\ sessions' = [sessions EXCEPT ![s] = None]

\* A caller stores what it made of a session.
Stores(c, t) ==
    /\ inTurn[c] = t /\ t # None /\ t.step = "storing" /\ t.id \in SessionIds
    /\ t.session \in ChatSessions /\ sessions[t.id] \in ChatSessions
    /\ sessions' = [sessions EXCEPT ![t.id] = t.session]
    /\ acked' = acked \cup Pending(t) /\ Turns(c, None)
    /\ UNCHANGED crossedSessions

\* Every step leaves the sessions alone, or opens, takes back or stores one.
LEMMA SessionSteps ==
    ASSUME TypeOK, ConfigInv, EntryInv, CopyInv, RequestInv, SessionInv, TurnInv,
           [Next]_vars
    PROVE  \/ UNCHANGED <<sessions, acked>>
           \/ \E s \in SessionIds, l \in Leads_ : Opens(s, l)
           \/ \E s \in SessionIds : Closes(s)
           \/ \E c \in Callers, t \in TurnsUnderWay : Stores(c, t)
<1>1. ASSUME NEW d \in Drivers, NEW s \in SessionIds, NEW t \in Troubles,
             Bootstrap(d, s, t)
      PROVE  UNCHANGED <<sessions, acked>> \/ \E l \in Leads_ : Opens(s, l)
  <2> DEFINE l == driver[d].entry.lead
  <2>1. /\ l \in Leads_ /\ answered[s] = None
        /\ UNCHANGED <<inTurn, acked, crossedSessions>>
        /\ \/ /\ Policy # None /\ sessions[s] = None
              /\ sessions' = [sessions EXCEPT ![s] = NewSession(LeadWith(l))]
           \/ UNCHANGED sessions
    BY <1>1, BootstrapDoes
  <2> HIDE DEF l
  <2> QED
    BY <2>1 DEF Opens, Unused
<1>2. ASSUME NEW d \in Drivers, TakeBack(d)
      PROVE  \E s \in SessionIds : Closes(s)
  <2>1. /\ BeingOpened(d) /\ UNCHANGED <<inTurn, acked, crossedSessions>>
        /\ sessions' = [sessions EXCEPT ![driver[d].request] = None]
    BY <1>2, TakeBackDoes
  <2>2. driver[d].request \in SessionIds /\ answered[driver[d].request] = None
    BY <2>1 DEF RequestInv, BeingOpened
  <2> QED
    BY <2>1, <2>2 DEF Closes, Unused
<1>3. ASSUME NEW c \in Callers, StoreSession(c)
      PROVE  \E t \in TurnsUnderWay : Stores(c, t)
  <2>1. PICK t \in TurnsUnderWay :
            /\ inTurn[c] = t /\ t # None /\ Turns(c, None)
            /\ t.step = "storing" /\ t.id \in SessionIds
            /\ t.session \in ChatSessions
            /\ sessions' = [sessions EXCEPT ![t.id] = t.session]
            /\ acked' = acked \cup Pending(t)
            /\ UNCHANGED crossedSessions
    BY <1>3, StoreSessionDoes
  <2>2. Created(t.id)
    BY <2>1 DEF SessionInv, SessionUsed, UnderWay
  <2>3. sessions[t.id] \in ChatSessions
    BY <2>1, <2>2, UsedSessions
  <2> QED
    BY <2>1, <2>3 DEF Stores
<1>4. CASE UNCHANGED <<sessions, acked>>
  BY <1>4
<1> QED
  BY <1>1, <1>2, <1>3, <1>4 DEF Next, vars, PauseOrResume, MarkDnc, Select,
      CompareEntry, MoveEntry, RetryBootstrap, BeginTurn, CompareTurn, FailTurn,
      Terminate, Record, SaveEntry, sessionVars

\* Every caller goes on, stores, or leaves the sessions alone: it begins with the
\* session that is there, makes the next one of it, or lets it be.
Begins(c, s, n, t) ==
    /\ inTurn[c] = None /\ Turns(c, t) /\ Created(s)
    /\ t.id = s /\ t.sequence = n /\ t.step = "processing"
    /\ t.session = sessions[s] /\ t.session \in ChatSessions
    /\ t.session.status = "active" /\ t.session.turns < n
    /\ UNCHANGED <<sessions, acked, crossedSessions>>

Compares(c, t, u, terminal) ==
    /\ inTurn[c] = t /\ t # None /\ Turns(c, u)
    /\ t.step = "processing" /\ t.sequence \in 1..MaxTurns
    /\ sessions[t.id].revision = t.session.revision
    /\ u.id = t.id /\ u.sequence = t.sequence /\ u.step = "storing"
    /\ u.session = Answered(t.session, t.sequence, terminal)
    /\ CrossSession(t.id) /\ UNCHANGED <<sessions, acked>>

Ends(c, s, u) ==
    /\ inTurn[c] = None /\ Turns(c, u) /\ Created(s)
    /\ sessions[s].status = "active" /\ sessions[s] \in ChatSessions
    /\ u.id = s /\ u.sequence = 0 /\ u.step = "storing"
    /\ u.session.lead = sessions[s].lead /\ u.session.plan = sessions[s].plan
    /\ u.session.revision = sessions[s].revision + 1
    /\ u.session.turns = sessions[s].turns
    /\ u.session.transcript = sessions[s].transcript
    /\ CrossSession(s) /\ UNCHANGED <<sessions, acked>>

Fails(c) == Turns(c, None) /\ UNCHANGED <<sessions, acked, crossedSessions>>

LEMMA CallerSteps ==
    ASSUME TypeOK, ConfigInv, EntryInv, CopyInv, RequestInv, SessionInv, TurnInv,
           [Next]_vars
    PROVE  \/ UNCHANGED <<inTurn, crossedSessions>>
           \/ \E c \in Callers, t \in TurnsUnderWay : Stores(c, t)
           \/ \E c \in Callers, s \in SessionIds, n \in 1..MaxTurns,
                 t \in TurnsUnderWay : Begins(c, s, n, t)
           \/ \E c \in Callers, t, u \in TurnsUnderWay, terminal \in BOOLEAN :
                 Compares(c, t, u, terminal)
           \/ \E c \in Callers, s \in SessionIds, u \in TurnsUnderWay : Ends(c, s, u)
           \/ \E c \in Callers : Fails(c)
<1>1. ASSUME NEW c \in Callers, NEW s \in SessionIds, NEW n \in 1..MaxTurns,
             BeginTurn(c, s, n)
      PROVE  \E t \in TurnsUnderWay : Begins(c, s, n, t)
  <2>1. PICK t \in TurnsUnderWay :
            /\ inTurn[c] = None /\ Turns(c, t)
            /\ processors[s] # None /\ sessions[s].status = "active"
            /\ t.id = s /\ t.sequence = n /\ t.step = "processing"
            /\ t.session = sessions[s] /\ t.session \in ChatSessions
            /\ sessions[s].turns < n
            /\ UNCHANGED <<sessions, acked, crossedSessions>>
    BY <1>1, BeginTurnDoes
  <2>2. Created(s)
    BY <2>1 DEF SessionInv, SessionUsed
  <2> QED
    BY <2>1, <2>2 DEF Begins
<1>2. ASSUME NEW c \in Callers, NEW terminal \in BOOLEAN, CompareTurn(c, terminal)
      PROVE  \E t, u \in TurnsUnderWay : Compares(c, t, u, terminal)
  BY <1>2, CompareTurnDoes DEF Compares
<1>3. ASSUME NEW c \in Callers, NEW s \in SessionIds, Terminate(c, s)
      PROVE  \E u \in TurnsUnderWay : Ends(c, s, u)
  <2>1. PICK u \in TurnsUnderWay :
            /\ inTurn[c] = None /\ Turns(c, u)
            /\ processors[s] # None /\ sessions[s].status = "active"
            /\ sessions[s] \in ChatSessions
            /\ u.id = s /\ u.sequence = 0 /\ u.step = "storing"
            /\ u.session.lead = sessions[s].lead
            /\ u.session.plan = sessions[s].plan
            /\ u.session.revision = sessions[s].revision + 1
            /\ u.session.turns = sessions[s].turns
            /\ u.session.transcript = sessions[s].transcript
            /\ CrossSession(s) /\ UNCHANGED <<sessions, acked>>
    BY <1>3, TerminateDoes
  <2>2. Created(s)
    BY <2>1 DEF SessionInv, SessionUsed
  <2> QED
    BY <2>1, <2>2 DEF Ends
<1>4. ASSUME NEW c \in Callers, FailTurn(c) PROVE Fails(c)
  BY <1>4 DEF FailTurn, Fails, Turns
<1>5. ASSUME NEW c \in Callers, StoreSession(c)
      PROVE  \E t \in TurnsUnderWay : Stores(c, t)
  <2>1. PICK t \in TurnsUnderWay :
            /\ inTurn[c] = t /\ t # None /\ Turns(c, None)
            /\ t.step = "storing" /\ t.id \in SessionIds
            /\ t.session \in ChatSessions
            /\ sessions' = [sessions EXCEPT ![t.id] = t.session]
            /\ acked' = acked \cup Pending(t)
            /\ UNCHANGED crossedSessions
    BY <1>5, StoreSessionDoes
  <2>2. Created(t.id)
    BY <2>1 DEF SessionInv, SessionUsed, UnderWay
  <2>3. sessions[t.id] \in ChatSessions
    BY <2>1, <2>2, UsedSessions
  <2> QED
    BY <2>1, <2>3 DEF Stores
<1>6. CASE UNCHANGED <<inTurn, crossedSessions>>
  BY <1>6
<1>7. UNCHANGED <<inTurn, crossedSessions>> \/ ~UNCHANGED <<inTurn, crossedSessions>>
  OBVIOUS
<1> QED
  BY <1>1, <1>2, <1>3, <1>4, <1>5, <1>6, <1>7 DEF Next, vars, PauseOrResume, MarkDnc,
      Select, Bootstrap, CompareEntry, TakeBack, MoveEntry, RetryBootstrap, Record,
      SaveEntry, sessionVars

\* A turn under way has its session.
LEMMA TurnHasSession ==
    ASSUME TypeOK, SessionInv, NEW c \in UnderWay
    PROVE  /\ inTurn[c] \in TurnsUnderWay /\ inTurn[c].id \in SessionIds
           /\ inTurn[c].session \in ChatSessions
           /\ Created(inTurn[c].id) /\ answered[inTurn[c].id] # None
           /\ sessions[inTurn[c].id] # None /\ sessions[inTurn[c].id] \in ChatSessions
<1>1. inTurn[c] \in TurnsUnderWay /\ inTurn[c].id \in SessionIds
      /\ inTurn[c].session \in ChatSessions
  BY DEF TypeOK, UnderWay, TurnsUnderWay
<1>2. Created(inTurn[c].id)
  BY <1>1 DEF SessionInv, SessionUsed
<1> QED
  BY <1>1, <1>2, UsedSessions DEF Created

\* A session that has turns stays one of the same call.
LEMMA SameCall ==
    ASSUME TypeOK, ConfigInv, EntryInv, CopyInv, RequestInv, SessionInv, TurnInv,
           [Next]_vars, NEW q \in SessionIds, Created(q)
    PROVE  /\ sessions'[q].lead = sessions[q].lead
           /\ sessions'[q].plan = sessions[q].plan
           /\ acked \subseteq acked'
<1>0. sessions \in [SessionIds -> {None} \cup ChatSessions]
  BY DEF TypeOK
<1>1. CASE UNCHANGED <<sessions, acked>>
  BY <1>1
<1>2. ASSUME NEW s \in SessionIds, NEW l \in Leads_, Opens(s, l)
      PROVE  sessions'[q] = sessions[q] /\ acked' = acked
  BY <1>0, <1>2 DEF Opens, Unused, Created
<1>3. ASSUME NEW s \in SessionIds, Closes(s)
      PROVE  sessions'[q] = sessions[q] /\ acked' = acked
  BY <1>0, <1>3 DEF Closes, Unused, Created
<1>4. ASSUME NEW c \in Callers, NEW t \in TurnsUnderWay, Stores(c, t)
      PROVE  /\ sessions'[q].lead = sessions[q].lead
             /\ sessions'[q].plan = sessions[q].plan
             /\ acked \subseteq acked'
  <2>1. TurnSound(t)
    BY <1>4 DEF Stores, TurnInv, UnderWay
  <2>2. sessions'[q] = IF q = t.id THEN t.session ELSE sessions[q]
    BY <1>0, <1>4 DEF Stores
  <2> QED
    BY <1>4, <2>1, <2>2 DEF Stores, TurnSound
<1> QED
  BY <1>1, <1>2, <1>3, <1>4, SessionSteps

\* One more turn keeps a transcript rising.
LEMMA AnsweredRising ==
    ASSUME NEW session \in ChatSessions, Rising(session), NEW n \in 1..MaxTurns,
           session.turns < n, NEW terminal \in BOOLEAN
    PROVE  Rising(Answered(session, n, terminal))
<1> DEFINE t == session.transcript
           u == Append(t, n)
<1>1. /\ Answered(session, n, terminal).transcript = u
      /\ Answered(session, n, terminal).turns = n
  BY AnsweredSession
<1>2. t \in Seq(1..MaxTurns) /\ session.turns \in Nat
  BY DEF ChatSessions
<1>3. /\ \A i \in 1..Len(t) : t[i] <= session.turns
      /\ \A i \in 1..(Len(t) - 1) : t[i] < t[i + 1]
  BY DEF Rising
<1> HIDE DEF t
<1>4. /\ Len(u) = Len(t) + 1 /\ u[Len(t) + 1] = n
      /\ \A i \in 1..Len(t) : u[i] = t[i] /\ u[i] \in Nat
  <2> DEFINE S == 1..MaxTurns
  <2>0. t \in Seq(S) /\ n \in S
    BY <1>2
  <2>1. /\ Len(u) = Len(t) + 1 /\ u[Len(t) + 1] = n
        /\ \A i \in 1..Len(t) : u[i] = t[i] /\ t[i] \in S
    <3> HIDE DEF S
    <3> QED
      BY <2>0, SequenceParts, AppendedParts
  <2> HIDE DEF u
  <2> QED
    BY <2>1
<1> HIDE DEF u
<1>5. Len(t) \in Nat
  BY <1>2
<1>6. \A i \in 1..Len(u) : u[i] <= n
  <2>1. SUFFICES ASSUME NEW i \in 1..Len(u) PROVE u[i] <= n
    OBVIOUS
  <2>2. CASE i = Len(t) + 1
    BY <1>4, <2>2
  <2>3. CASE i # Len(t) + 1
    <3>1. i \in 1..Len(t)
      BY <1>4, <1>5, <2>3
    <3> QED
      BY <1>2, <1>3, <1>4, <3>1
  <2> QED
    BY <2>2, <2>3
<1>7. \A i \in 1..(Len(u) - 1) : u[i] < u[i + 1]
  <2>1. SUFFICES ASSUME NEW i \in 1..Len(t) PROVE u[i] < u[i + 1]
    BY <1>4, <1>5
  <2>2. CASE i = Len(t)
    BY <1>2, <1>3, <1>4, <2>2
  <2>3. CASE i # Len(t)
    <3>1. i \in 1..(Len(t) - 1) /\ i + 1 \in 1..Len(t)
      BY <1>5, <2>3
    <3> QED
      BY <1>3, <1>4, <3>1
  <2> QED
    BY <2>2, <2>3
<1> QED
  BY <1>1, <1>4, <1>5, <1>6, <1>7 DEF Rising

\* What an appended transcript holds.
LEMMA AnsweredHolds ==
    ASSUME NEW session \in ChatSessions, NEW n \in 1..MaxTurns,
           NEW terminal \in BOOLEAN
    PROVE  LET u == Answered(session, n, terminal).transcript
               t == session.transcript
           IN  /\ \A i \in 1..Len(u) : u[i] = n \/ \E j \in 1..Len(t) : u[i] = t[j]
               /\ \E i \in 1..Len(u) : u[i] = n
               /\ \A j \in 1..Len(t) : \E i \in 1..Len(u) : u[i] = t[j]
<1> DEFINE t == session.transcript
           S == 1..MaxTurns
<1>1. Answered(session, n, terminal).transcript = Append(t, n)
  BY AnsweredSession
<1>2. t \in Seq(S) /\ n \in S
  BY DEF ChatSessions
<1>3. /\ Len(t) \in Nat /\ Len(Append(t, n)) = Len(t) + 1
      /\ Append(t, n)[Len(t) + 1] = n
      /\ \A i \in 1..Len(t) : Append(t, n)[i] = t[i]
  <2> HIDE DEF S, t
  <2> QED
    BY <1>2, SequenceParts, AppendedParts
<1> DEFINE u == Append(t, n)
<1> HIDE DEF t, u
<1>4. \A i \in 1..Len(u) : i = Len(t) + 1 \/ i \in 1..Len(t)
  BY <1>3 DEF u
<1>5. Len(t) + 1 \in 1..Len(u) /\ \A j \in 1..Len(t) : j \in 1..Len(u)
  BY <1>3 DEF u
<1>6. /\ \A i \in 1..Len(u) : u[i] = n \/ \E j \in 1..Len(t) : u[i] = t[j]
      /\ \E i \in 1..Len(u) : u[i] = n
      /\ \A j \in 1..Len(t) : \E i \in 1..Len(u) : u[i] = t[j]
  BY <1>3, <1>4, <1>5 DEF u
<1> QED
  BY <1>1, <1>6 DEF t, u

LEMMA NextRising ==
    ASSUME TypeOK, ConfigInv, EntryInv, CopyInv, RequestInv, SessionInv, TurnInv,
           RisingInv, [Next]_vars
    PROVE  RisingInv'
<1> SUFFICES ASSUME NEW q \in SessionIds, sessions'[q] # None
             PROVE  Rising(sessions'[q]) /\ HoldsOnly(q, sessions'[q], acked')
  BY DEF RisingInv
<1>0. sessions \in [SessionIds -> {None} \cup ChatSessions]
  BY DEF TypeOK
<1>1. ASSUME sessions'[q] = sessions[q], acked \subseteq acked'
      PROVE  Rising(sessions'[q]) /\ HoldsOnly(q, sessions'[q], acked')
  BY <1>1 DEF RisingInv, HoldsOnly
<1>2. ASSUME NEW s \in SessionIds, NEW l \in Leads_, Opens(s, l)
      PROVE  Rising(sessions'[q]) /\ HoldsOnly(q, sessions'[q], acked')
  <2>1. /\ sessions'[q] = IF q = s THEN NewSession(LeadWith(l)) ELSE sessions[q]
        /\ acked' = acked
    BY <1>0, <1>2 DEF Opens, Unused
  <2>2. Rising(NewSession(LeadWith(l))) /\ HoldsOnly(s, NewSession(LeadWith(l)), acked)
    BY DEF Rising, HoldsOnly, NewSession
  <2> QED
    BY <1>1, <2>1, <2>2
<1>3. ASSUME NEW s \in SessionIds, Closes(s)
      PROVE  Rising(sessions'[q]) /\ HoldsOnly(q, sessions'[q], acked')
  BY <1>0, <1>1, <1>3 DEF Closes, Unused
<1>4. ASSUME NEW c \in Callers, NEW t \in TurnsUnderWay, Stores(c, t)
      PROVE  Rising(sessions'[q]) /\ HoldsOnly(q, sessions'[q], acked')
  <2>1. TurnSound(t)
    BY <1>4 DEF Stores, TurnInv, UnderWay
  <2>2. /\ sessions'[q] = IF q = t.id THEN t.session ELSE sessions[q]
        /\ acked' = acked \cup Pending(t) /\ t.step = "storing"
    BY <1>0, <1>4 DEF Stores
  <2>3. Rising(t.session) /\ HoldsOnly(t.id, t.session, acked \cup Pending(t))
    BY <2>1, <2>2 DEF TurnSound
  <2> QED
    BY <1>1, <2>2, <2>3
<1>5. CASE UNCHANGED <<sessions, acked>>
  BY <1>1, <1>5
<1> QED
  BY <1>2, <1>3, <1>4, <1>5, SessionSteps

\* What callers make of the sessions they read is of the same call and rises.
LEMMA NextTurns ==
    ASSUME TypeOK, ConfigInv, EntryInv, CopyInv, RequestInv, SessionInv, TurnInv,
           RisingInv, [Next]_vars
    PROVE  TurnInv'
<1> SUFFICES ASSUME NEW e \in Callers, inTurn'[e] # None
             PROVE  TurnSound(inTurn[e])'
  BY DEF TurnInv, UnderWay
<1>0. inTurn \in [Callers -> {None} \cup TurnsUnderWay]
  BY DEF TypeOK
<1>1. CASE inTurn'[e] = inTurn[e]
  <2>1. e \in UnderWay
    BY <1>1 DEF UnderWay
  <2> DEFINE q == inTurn[e].id
  <2>2. TurnSound(inTurn[e]) /\ q \in SessionIds /\ Created(q)
    BY <2>1, TurnHasSession DEF TurnInv
  <2>3. /\ sessions'[q].lead = sessions[q].lead
        /\ sessions'[q].plan = sessions[q].plan
        /\ acked \subseteq acked'
    BY <2>2, SameCall
  <2> QED
    BY <1>1, <2>2, <2>3 DEF TurnSound, HoldsOnly
<1>2. ASSUME NEW c \in Callers, NEW s \in SessionIds, NEW n \in 1..MaxTurns,
             NEW t \in TurnsUnderWay, Begins(c, s, n, t), e = c
      PROVE  TurnSound(inTurn[e])'
  <2>1. inTurn'[e] = t
    BY <1>0, <1>2 DEF Begins, Turns
  <2>2. Rising(t.session) /\ HoldsOnly(s, t.session, acked)
    BY <1>2, UsedSessions DEF Begins, RisingInv
  <2>3. /\ t.session.lead = sessions'[t.id].lead
        /\ t.session.plan = sessions'[t.id].plan
        /\ t.sequence \in 1..MaxTurns /\ t.step = "processing"
        /\ t.session.status = "active" /\ t.session.turns < t.sequence
        /\ t.id = s /\ acked' = acked
    BY <1>2 DEF Begins
  <2> QED
    BY <2>1, <2>2, <2>3 DEF TurnSound
<1>3. ASSUME NEW c \in Callers, NEW t \in TurnsUnderWay, NEW u \in TurnsUnderWay,
             NEW terminal \in BOOLEAN, Compares(c, t, u, terminal), e = c
      PROVE  TurnSound(inTurn[e])'
  <2>1. inTurn'[e] = u
    BY <1>0, <1>3 DEF Compares, Turns
  <2>2. TurnSound(t)
    BY <1>3 DEF Compares, TurnInv, UnderWay
  <2>3. /\ t.session \in ChatSessions /\ t.sequence \in 1..MaxTurns
        /\ t.session.turns < t.sequence /\ Rising(t.session)
        /\ HoldsOnly(t.id, t.session, acked)
        /\ t.session.lead = sessions[t.id].lead /\ t.session.plan = sessions[t.id].plan
    BY <1>3, <2>2 DEF Compares, TurnSound, TurnsUnderWay
  <2>4. /\ u.session = Answered(t.session, t.sequence, terminal)
        /\ u.id = t.id /\ u.sequence = t.sequence /\ u.step = "storing"
        /\ UNCHANGED <<sessions, acked>>
    BY <1>3 DEF Compares
  <2> DEFINE v == t.session
             n == t.sequence
  <2>5. v \in ChatSessions /\ n \in 1..MaxTurns
    BY <2>3
  <2>6. Rising(u.session)
    <3>1. v.turns < n /\ Rising(v)
      BY <2>3
    <3> HIDE DEF v, n
    <3>2. Rising(Answered(v, n, terminal))
      BY <2>5, <3>1, AnsweredRising
    <3> QED
      BY <2>4, <3>2 DEF v, n
  <2>7. /\ u.session.lead = t.session.lead /\ u.session.plan = t.session.plan
    <3> HIDE DEF v, n
    <3>1. /\ Answered(v, n, terminal).lead = v.lead
          /\ Answered(v, n, terminal).plan = v.plan
      BY <2>5, AnsweredSession
    <3> QED
      BY <2>4, <3>1 DEF v, n
  <2>8. HoldsOnly(u.id, u.session, acked \cup Pending(u))
    <3> DEFINE w == u.session.transcript
    <3>1. \A i \in 1..Len(w) : w[i] = n \/ \E j \in 1..Len(v.transcript) :
                                               w[i] = v.transcript[j]
      <4> HIDE DEF v, n
      <4>1. LET x == Answered(v, n, terminal).transcript
            IN  \A i \in 1..Len(x) : x[i] = n \/ \E j \in 1..Len(v.transcript) :
                                                    x[i] = v.transcript[j]
        BY <2>5, AnsweredHolds
      <4> QED
        BY <2>4, <4>1 DEF v, n
    <3>2. <<u.id, n>> \in Pending(u)
      BY <2>3, <2>4 DEF Pending
    <3>3. \A j \in 1..Len(v.transcript) : <<u.id, v.transcript[j]>> \in acked
      BY <2>3, <2>4 DEF HoldsOnly
    <3> HIDE DEF v, n, w
    <3>4. \A i \in 1..Len(w) : <<u.id, w[i]>> \in acked \cup Pending(u)
      BY <3>1, <3>2, <3>3
    <3> QED
      BY <3>4 DEF HoldsOnly, w
  <2> HIDE DEF v, n
  <2>9. HoldsOnly(u.id, u.session, acked' \cup Pending(u))
    BY <2>4, <2>8
  <2> QED
    BY <2>1, <2>3, <2>4, <2>6, <2>7, <2>9 DEF TurnSound
<1>4. ASSUME NEW c \in Callers, NEW s \in SessionIds, NEW u \in TurnsUnderWay,
             Ends(c, s, u), e = c
      PROVE  TurnSound(inTurn[e])'
  <2>1. inTurn'[e] = u
    BY <1>0, <1>4 DEF Ends, Turns
  <2>2. Rising(sessions[s]) /\ HoldsOnly(s, sessions[s], acked)
    BY <1>4, UsedSessions DEF Ends, RisingInv
  <2>3. /\ u.session.lead = sessions'[u.id].lead
        /\ u.session.plan = sessions'[u.id].plan
        /\ u.step = "storing" /\ u.id = s /\ acked' = acked
        /\ u.session.turns = sessions[s].turns
        /\ u.session.transcript = sessions[s].transcript
    BY <1>4 DEF Ends
  <2>4. Rising(u.session) /\ HoldsOnly(u.id, u.session, acked' \cup Pending(u))
    BY <2>2, <2>3 DEF Rising, HoldsOnly
  <2> QED
    BY <2>1, <2>3, <2>4 DEF TurnSound
<1>5. ASSUME NEW c \in Callers, NEW t, Turns(c, t), e # c
      PROVE  inTurn'[e] = inTurn[e]
  BY <1>0, <1>5 DEF Turns
<1>6. ASSUME NEW c \in Callers, Turns(c, None), e = c
      PROVE  FALSE
  BY <1>0, <1>6 DEF Turns
<1>7. ASSUME UNCHANGED <<inTurn, crossedSessions>> PROVE inTurn'[e] = inTurn[e]
  BY <1>7
<1>8. ASSUME NEW c \in Callers, NEW t \in TurnsUnderWay, Stores(c, t)
      PROVE  inTurn'[e] = inTurn[e]
  BY <1>5, <1>6, <1>8 DEF Stores
<1>9. ASSUME NEW c \in Callers, Fails(c)
      PROVE  inTurn'[e] = inTurn[e]
  BY <1>5, <1>6, <1>9 DEF Fails
<1>10. ASSUME NEW c \in Callers, NEW s \in SessionIds, NEW n \in 1..MaxTurns,
              NEW t \in TurnsUnderWay, Begins(c, s, n, t)
       PROVE  TurnSound(inTurn[e])'
  BY <1>1, <1>2, <1>5, <1>10 DEF Begins
<1>11. ASSUME NEW c \in Callers, NEW t \in TurnsUnderWay, NEW u \in TurnsUnderWay,
              NEW terminal \in BOOLEAN, Compares(c, t, u, terminal)
       PROVE  TurnSound(inTurn[e])'
  BY <1>1, <1>3, <1>5, <1>11 DEF Compares
<1>12. ASSUME NEW c \in Callers, NEW s \in SessionIds, NEW u \in TurnsUnderWay,
              Ends(c, s, u)
       PROVE  TurnSound(inTurn[e])'
  BY <1>1, <1>4, <1>5, <1>12 DEF Ends
<1> QED
  BY <1>1, <1>7, <1>8, <1>9, <1>10, <1>11, <1>12, CallerSteps

\* Where no two callers stored across each other, no answered turn is missing.
LEMMA NextExact ==
    ASSUME TypeOK, ConfigInv, EntryInv, CopyInv, RequestInv, SessionInv, TurnInv,
           ExactInv, [Next]_vars
    PROVE  ExactInv'
<1> DEFINE Exact(q) == /\ Complete(q)
                       /\ \A c, e \in Storing(q) : c = e
                       /\ \A c \in UnderWay :
                             inTurn[c].id = q => Current(inTurn[c], sessions[q])
<1> SUFFICES ASSUME NEW q \in SessionIds, q \notin crossedSessions'
             PROVE  Exact(q)'
  BY DEF ExactInv
<1>0. /\ sessions \in [SessionIds -> {None} \cup ChatSessions]
      /\ inTurn \in [Callers -> {None} \cup TurnsUnderWay]
      /\ q \notin crossedSessions /\ Exact(q)
  BY CrossedGrow DEF TypeOK, ExactInv
<1>a. ASSUME \A n \in 1..MaxTurns : <<q, n>> \in acked' => <<q, n>> \in acked,
             sessions'[q] = sessions[q]
      PROVE  Complete(q)'
  BY <1>0, <1>a DEF Complete
<1>b. ASSUME NEW c \in Callers, NEW t, Turns(c, t)
      PROVE  inTurn'[c] = t /\ \A e \in Callers : e # c => inTurn'[e] = inTurn[e]
  BY <1>0, <1>b DEF Turns
<1>1. ASSUME UNCHANGED inTurn, sessions'[q] = sessions[q],
             \A n \in 1..MaxTurns : <<q, n>> \in acked' => <<q, n>> \in acked
      PROVE  Exact(q)'
  <2>1. Storing(q)' = Storing(q) /\ UnderWay' = UnderWay
    BY <1>1 DEF Storing, UnderWay
  <2> QED
    BY <1>0, <1>1, <1>a, <2>1
<1>2. ASSUME UNCHANGED <<inTurn, crossedSessions>> PROVE Exact(q)'
  <2>1. CASE UNCHANGED <<sessions, acked>>
    BY <1>1, <1>2, <2>1
  <2>2. ASSUME NEW s \in SessionIds, Unused(s),
               \A p \in SessionIds : p # s => sessions'[p] = sessions[p]
        PROVE  Exact(q)'
    <3>1. CASE q # s
      BY <1>1, <2>2, <3>1 DEF Unused
    <3>2. CASE q = s
      <4>1. ~Created(q)
        BY <2>2, <3>2 DEF Unused, Created
      <4>2. /\ \A c \in UnderWay : inTurn[c].id # q
            /\ \A n \in 1..MaxTurns : <<q, n>> \notin acked
        BY <4>1 DEF SessionInv, SessionUsed
      <4>3. UnderWay' = UnderWay /\ acked' = acked /\ inTurn' = inTurn
        BY <2>2 DEF Unused, UnderWay
      <4>4. Storing(q)' = {} /\ Complete(q)'
        BY <4>2, <4>3 DEF Storing, Complete
      <4> QED
        BY <4>2, <4>3, <4>4
    <3> QED
      BY <3>1, <3>2
  <2>3. ASSUME NEW s \in SessionIds, NEW l \in Leads_, Opens(s, l) PROVE Exact(q)'
    BY <1>0, <2>2, <2>3 DEF Opens
  <2>4. ASSUME NEW s \in SessionIds, Closes(s) PROVE Exact(q)'
    BY <1>0, <2>2, <2>4 DEF Closes
  <2>5. ASSUME NEW c \in Callers, NEW t \in TurnsUnderWay, Stores(c, t)
        PROVE  FALSE
    BY <1>2, <1>b, <2>5 DEF Stores
  <2> QED
    BY <2>1, <2>3, <2>4, <2>5, SessionSteps
<1>c. ASSUME NEW c \in Callers, NEW t, Turns(c, t), sessions'[q] = sessions[q],
             \A n \in 1..MaxTurns : <<q, n>> \in acked' => <<q, n>> \in acked,
             t # None => t.id # q \/ Current(t, sessions[q]),
             t # None /\ t.id = q /\ t.step = "storing" => Storing(q) = {}
      PROVE  Exact(q)'
  <2>1. inTurn'[c] = t /\ \A e \in Callers : e # c => inTurn'[e] = inTurn[e]
    BY <1>b, <1>c
  <2>2. \A e \in Storing(q)' : e = c \/ e \in Storing(q)
    BY <2>1 DEF Storing, UnderWay
  <2>3. c \in Storing(q)' => Storing(q) = {}
    BY <1>c, <2>1 DEF Storing, UnderWay
  <2>4. \A d, e \in Storing(q)' : d = e
    BY <1>0, <2>2, <2>3
  <2>5. ASSUME NEW e \in UnderWay', inTurn'[e].id = q
        PROVE  Current(inTurn'[e], sessions'[q])
    <3>1. e \in Callers /\ inTurn'[e] # None
      BY DEF UnderWay
    <3>2. CASE e = c
      BY <1>c, <2>1, <2>5, <3>1, <3>2
    <3>3. CASE e # c
      BY <1>0, <1>c, <2>1, <2>5, <3>1, <3>3 DEF UnderWay
    <3> QED
      BY <3>2, <3>3
  <2>6. \A e \in UnderWay' : inTurn'[e].id = q => Current(inTurn'[e], sessions'[q])
    BY <2>5
  <2> QED
    BY <1>c, <1>a, <2>4, <2>6
<1>3. ASSUME NEW c \in Callers, NEW s \in SessionIds, NEW n \in 1..MaxTurns,
             NEW t \in TurnsUnderWay, Begins(c, s, n, t)
      PROVE  Exact(q)'
  <2>1. /\ Turns(c, t) /\ t.id = s /\ t.step = "processing"
        /\ t.session = sessions[s] /\ t.session \in ChatSessions
        /\ UNCHANGED <<sessions, acked>>
    BY <1>3 DEF Begins
  <2>2. t.session.revision <= t.session.revision
    BY <2>1 DEF ChatSessions
  <2>3. t.id # q \/ Current(t, sessions[q])
    BY <2>1, <2>2 DEF Current
  <2> QED
    BY <1>c, <2>1, <2>3
<1>4. ASSUME NEW c \in Callers, NEW t \in TurnsUnderWay, NEW u \in TurnsUnderWay,
             NEW terminal \in BOOLEAN, Compares(c, t, u, terminal)
      PROVE  Exact(q)'
  <2>1. /\ inTurn[c] = t /\ t # None /\ Turns(c, u)
        /\ t.step = "processing" /\ t.sequence \in 1..MaxTurns
        /\ sessions[t.id].revision = t.session.revision
        /\ u.id = t.id /\ u.sequence = t.sequence /\ u.step = "storing"
        /\ u.session = Answered(t.session, t.sequence, terminal)
        /\ CrossSession(t.id) /\ UNCHANGED <<sessions, acked>>
    BY <1>4 DEF Compares
  <2>2. u.id = q => Storing(q) = {}
    BY <1>0, <2>1 DEF CrossSession
  <2>3. u.id # q \/ Current(u, sessions[q])
    <3>1. SUFFICES ASSUME t.id = q PROVE Follows(u, sessions[q])
      BY <2>1 DEF Current
    <3>2. c \in UnderWay /\ inTurn[c] = t
      BY <2>1 DEF UnderWay
    <3>3. t.session = sessions[q]
      BY <1>0, <2>1, <3>1, <3>2 DEF Current
    <3>4. t.session.status = "active" /\ t.session \in ChatSessions
      BY <2>1, <3>2 DEF TurnInv, TurnSound, TurnsUnderWay
    <3> DEFINE v == t.session
               n == t.sequence
    <3>5. v \in ChatSessions /\ n \in 1..MaxTurns
      BY <2>1, <3>4
    <3>6. /\ u.session.revision = v.revision + 1
          /\ u.session.transcript = Append(v.transcript, n)
      <4> HIDE DEF v, n
      <4>1. /\ Answered(v, n, terminal).revision = v.revision + 1
            /\ Answered(v, n, terminal).transcript = Append(v.transcript, n)
        BY <3>5, AnsweredSession
      <4> QED
        BY <2>1, <4>1 DEF v, n
    <3>7. u.sequence # 0
      BY <2>1
    <3> QED
      BY <2>1, <3>3, <3>4, <3>6, <3>7 DEF Follows
  <2> QED
    BY <1>c, <2>1, <2>2, <2>3
<1>5. ASSUME NEW c \in Callers, NEW s \in SessionIds, NEW u \in TurnsUnderWay,
             Ends(c, s, u)
      PROVE  Exact(q)'
  <2>1. /\ Turns(c, u) /\ sessions[s].status = "active"
        /\ u.id = s /\ u.sequence = 0 /\ u.step = "storing"
        /\ u.session.revision = sessions[s].revision + 1
        /\ u.session.transcript = sessions[s].transcript
        /\ CrossSession(s) /\ UNCHANGED <<sessions, acked>>
    BY <1>5 DEF Ends
  <2>2. u.id = q => Storing(q) = {}
    BY <1>0, <2>1 DEF CrossSession
  <2>3. u.id # q \/ Current(u, sessions[q])
    BY <2>1 DEF Current, Follows
  <2> QED
    BY <1>c, <2>1, <2>2, <2>3
<1>6. ASSUME NEW c \in Callers, Fails(c) PROVE Exact(q)'
  BY <1>6, <1>c DEF Fails
<1>7. ASSUME NEW c \in Callers, NEW t \in TurnsUnderWay, Stores(c, t)
      PROVE  Exact(q)'
  <2>1. /\ inTurn[c] = t /\ t # None /\ t.step = "storing" /\ t.id \in SessionIds
        /\ t.session \in ChatSessions /\ sessions[t.id] \in ChatSessions
        /\ sessions' = [sessions EXCEPT ![t.id] = t.session]
        /\ acked' = acked \cup Pending(t) /\ Turns(c, None)
    BY <1>7 DEF Stores
  <2>2. CASE t.id # q
    <3>1. sessions'[q] = sessions[q]
      BY <1>0, <2>1, <2>2
    <3>2. \A n \in 1..MaxTurns : <<q, n>> \in acked' => <<q, n>> \in acked
      BY <2>1, <2>2 DEF Pending
    <3> QED
      BY <1>c, <2>1, <3>1, <3>2
  <2>3. CASE t.id = q
    <3>1. c \in UnderWay /\ c \in Storing(q)
      BY <2>1, <2>3 DEF UnderWay, Storing
    <3>2. Follows(t, sessions[q])
      BY <1>0, <2>1, <2>3, <3>1 DEF Current
    <3>3. sessions'[q] = t.session
      BY <1>0, <2>1, <2>3
    <3>4. inTurn'[c] = None /\ \A e \in Callers : e # c => inTurn'[e] = inTurn[e]
      BY <1>b, <2>1
    <3>5. Storing(q)' = {}
      BY <1>0, <3>1, <3>4 DEF Storing, UnderWay
    <3>6. ASSUME NEW e \in UnderWay', inTurn'[e].id = q
          PROVE  Current(inTurn'[e], sessions'[q])
      <4>1. e \in Callers /\ e # c /\ inTurn'[e] = inTurn[e] /\ e \in UnderWay
        BY <3>4 DEF UnderWay
      <4>2. Current(inTurn[e], sessions[q]) /\ inTurn[e] \in TurnsUnderWay
        BY <1>0, <3>6, <4>1 DEF UnderWay
      <4>3. inTurn[e].step = "processing"
        BY <1>0, <3>1, <3>6, <4>1, <4>2 DEF Storing, TurnsUnderWay
      <4>4. inTurn[e].session.revision <= sessions[q].revision
        BY <4>2, <4>3 DEF Current
      <4>5. /\ inTurn[e].session.revision \in Nat /\ sessions[q].revision \in Nat
            /\ t.session.revision = sessions[q].revision + 1
        BY <2>1, <2>3, <3>2, <4>2 DEF Follows, TurnsUnderWay, ChatSessions
      <4>6. /\ inTurn[e].session.revision <= t.session.revision
            /\ inTurn[e].session.revision # t.session.revision
        BY <4>4, <4>5
      <4> QED
        BY <3>3, <4>1, <4>3, <4>6 DEF Current
    <3>7. Complete(q)'
      <4> DEFINE old == sessions[q].transcript
                 new == t.session.transcript
                 S == 1..MaxTurns
      <4>1. new = IF t.sequence = 0 THEN old ELSE Append(old, t.sequence)
        BY <3>2 DEF Follows
      <4>2. old \in Seq(S) /\ (t.sequence # 0 => t.sequence \in S)
        BY <2>1, <2>3, BoundsAssumption DEF ChatSessions, TurnsUnderWay
      <4>3. /\ \A i \in 1..Len(old) : \E j \in 1..Len(new) : new[j] = old[i]
            /\ t.sequence # 0 => \E j \in 1..Len(new) : new[j] = t.sequence
        <5>1. CASE t.sequence = 0
          BY <4>1, <5>1
        <5>2. CASE t.sequence # 0
          <6>1. /\ Len(old) \in Nat /\ Len(new) = Len(old) + 1
                /\ new[Len(old) + 1] = t.sequence
                /\ \A i \in 1..Len(old) : new[i] = old[i]
            <7> HIDE DEF S, old, new
            <7> QED
              BY <4>1, <4>2, <5>2, SequenceParts, AppendedParts
          <6> HIDE DEF old, new
          <6> QED
            BY <6>1
        <5> QED
          BY <5>1, <5>2
      <4>4. \A n \in S : <<q, n>> \in acked => \E i \in 1..Len(old) : old[i] = n
        BY <1>0 DEF Complete
      <4>5. \A n \in S : <<q, n>> \in acked' => <<q, n>> \in acked \/
                                                  (t.sequence # 0 /\ n = t.sequence)
        BY <2>1, <2>3 DEF Pending
      <4> HIDE DEF old, new, S
      <4>6. \A n \in S : <<q, n>> \in acked' => \E j \in 1..Len(new) : new[j] = n
        BY <4>3, <4>4, <4>5
      <4> QED
        BY <3>3, <4>6 DEF Complete, new, S
    <3>8. \A e \in UnderWay' : inTurn'[e].id = q => Current(inTurn'[e], sessions'[q])
      BY <3>6
    <3> QED
      BY <3>5, <3>7, <3>8
  <2> QED
    BY <2>2, <2>3
<1> HIDE DEF Exact
<1> QED
  BY <1>2, <1>3, <1>4, <1>5, <1>6, <1>7, CallerSteps

\* Every call that goes on has somebody on the phone.
LEMMA NextDriven ==
    ASSUME TypeOK, ConfigInv, EntryInv, CopyInv, RequestInv, SessionInv, TurnInv,
           ExactInv, DrivenInv, [Next]_vars
    PROVE  DrivenInv'
<1> DEFINE Driven(s, lead, dr) ==
        \E d \in Drivers : /\ dr[d].phase = "talking" /\ dr[d].request = s
                           /\ dr[d].entry.lead = lead
<1> SUFFICES ASSUME NEW q \in SessionIds, q \notin crossedSessions', Created(q)',
                    sessions'[q].status = "active"
             PROVE  Driven(q, sessions'[q].lead, driver')
  BY DEF DrivenInv
<1>0. /\ sessions \in [SessionIds -> {None} \cup ChatSessions]
      /\ answered \in [SessionIds -> {None} \cup Answers]
      /\ q \notin crossedSessions
  BY CrossedGrow DEF TypeOK
<1>1. CASE Created(q)
  <2>1. sessions'[q].lead = sessions[q].lead
    BY <1>1, SameCall
  <2>2. sessions[q].status = "active"
    <3>1. CASE sessions'[q] = sessions[q]
      BY <3>1
    <3>2. ASSUME NEW s \in SessionIds, NEW l \in Leads_, Opens(s, l)
          PROVE  sessions'[q] = sessions[q]
      BY <1>0, <1>1, <3>2 DEF Opens, Unused, Created
    <3>3. ASSUME NEW s \in SessionIds, Closes(s)
          PROVE  sessions'[q] = sessions[q]
      BY <1>0, <1>1, <3>3 DEF Closes, Unused, Created
    <3>4. ASSUME NEW c \in Callers, NEW t \in TurnsUnderWay, Stores(c, t), t.id = q
          PROVE  sessions[q].status = "active"
      <4>1. /\ c \in UnderWay /\ inTurn[c] = t /\ t.step = "storing"
        BY <3>4 DEF Stores, UnderWay
      <4>2. Current(t, sessions[q])
        BY <1>0, <3>4, <4>1 DEF ExactInv
      <4> QED
        BY <4>1, <4>2 DEF Current, Follows
    <3>5. ASSUME NEW c \in Callers, NEW t \in TurnsUnderWay, Stores(c, t), t.id # q
          PROVE  sessions'[q] = sessions[q]
      BY <1>0, <3>5 DEF Stores
    <3> QED
      BY <3>1, <3>2, <3>3, <3>4, <3>5, SessionSteps
  <2>3. PICK d \in Drivers : /\ driver[d].phase = "talking"
                             /\ driver[d].request = q
                             /\ driver[d].entry.lead = sessions[q].lead
    BY <1>0, <1>1, <2>2 DEF DrivenInv
  <2>4. driver'[d] = driver[d]
    <3>a. ASSUME NEW e \in Drivers, NEW phase, NEW entry, NEW request,
                 Drives(e, phase, entry, request), driver[e].phase # "talking"
          PROVE  driver'[d] = driver[d]
      BY <2>3, <3>a, DrivesOne
    <3>1. ASSUME NEW e \in Drivers, NEW m \in Minutes, NEW g \in Elapsed,
                 Select(e, m, g)
          PROVE  driver'[d] = driver[d]
      BY <3>1, <3>a, SelectDoes
    <3>2. ASSUME NEW e \in Drivers, NEW s \in SessionIds, NEW t \in Troubles,
                 Bootstrap(e, s, t)
          PROVE  driver'[d] = driver[d]
      <4>1. /\ driver[e].phase = "chosen"
            /\ \/ Drives(e, "opened", driver[e].entry, s)
               \/ Drives(e, "idle", None, None)
        BY <3>2, BootstrapDoes
      <4> QED
        BY <3>a, <4>1
    <3>3. ASSUME NEW e \in Drivers, CompareEntry(e) PROVE driver'[d] = driver[d]
      <4>1. /\ driver[e].phase = "opened"
            /\ Drives(e, "moving", queue[driver[e].entry.lead], driver[e].request)
        BY <3>3, CompareEntryDoes
      <4> QED
        BY <3>a, <4>1
    <3>4. ASSUME NEW e \in Drivers, TakeBack(e) PROVE driver'[d] = driver[d]
      <4>1. BeingOpened(e) /\ Drives(e, "idle", None, None)
        BY <3>4, TakeBackDoes
      <4> QED
        BY <3>a, <4>1 DEF BeingOpened
    <3>5. ASSUME NEW e \in Drivers, MoveEntry(e) PROVE driver'[d] = driver[d]
      <4>1. PICK moved \in QueueEntries, written \in QueueEntries :
                /\ driver[e].phase = "moving"
                /\ Drives(e, "talking", moved, driver[e].request)
        BY <3>5, MoveEntryDoes
      <4> QED
        BY <3>a, <4>1
    <3>6. ASSUME NEW e \in Drivers, NEW r \in Results, NEW f \in Findings,
                 Record(e, r, f)
          PROVE  driver'[d] = driver[d]
      <4>1. PICK after \in QueueEntries :
                /\ sessions[driver[e].request].status # "active"
                /\ \/ Drives(e, "saving", after, driver[e].request)
                   \/ Drives(e, "idle", None, None)
        BY <3>6, RecordDoes
      <4>2. e # d
        BY <2>2, <2>3, <4>1
      <4> QED
        BY <4>1, <4>2, DrivesOne
    <3>7. ASSUME NEW e \in Drivers, SaveEntry(e) PROVE driver'[d] = driver[d]
      <4>1. driver[e].phase = "saving" /\ Drives(e, "idle", None, None)
        BY <3>7, SaveEntryDoes
      <4> QED
        BY <3>a, <4>1
    <3>8. CASE UNCHANGED driver
      BY <3>8
    <3> QED
      BY <3>1, <3>2, <3>3, <3>4, <3>5, <3>6, <3>7, <3>8 DEF Next, vars,
          PauseOrResume, MarkDnc, RetryBootstrap, BeginTurn, CompareTurn, FailTurn,
          Terminate, StoreSession, campaignVars
  <2> QED
    BY <2>1, <2>3, <2>4
<1>2. CASE ~Created(q)
  <2>1. answered'[q] # answered[q]
    BY <1>2 DEF Created
  <2>2. ASSUME NEW d \in Drivers, NEW s \in SessionIds, NEW t \in Troubles,
               Bootstrap(d, s, t)
        PROVE  FALSE
    <3>1. UNCHANGED answered \/ \E reason \in Refusals :
              answered' = [answered EXCEPT ![s] = Rejection(reason)]
      BY <2>2, BootstrapDoes
    <3>2. answered'[q].created = FALSE
      BY <1>0, <2>1, <3>1 DEF Rejection
    <3> QED
      BY <3>2 DEF Created
  <2>3. ASSUME NEW d \in Drivers, TakeBack(d) PROVE FALSE
    <3>1. answered' = [answered EXCEPT ![driver[d].request] =
                           Rejection("queue_transition_failed")]
      BY <2>3, TakeBackDoes
    <3>2. answered'[q].created = FALSE
      BY <1>0, <2>1, <3>1 DEF Rejection
    <3> QED
      BY <3>2 DEF Created
  <2>4. ASSUME NEW d \in Drivers, MoveEntry(d)
        PROVE  Driven(q, sessions'[q].lead, driver')
    <3> DEFINE s == driver[d].request
               l == driver[d].entry.lead
    <3>1. PICK moved \in QueueEntries, written \in QueueEntries :
              /\ driver[d].phase = "moving" /\ moved.lead = l
              /\ answered' = [answered EXCEPT ![s] =
                    [created |-> TRUE, reason |-> None, entry |-> moved]]
              /\ Drives(d, "talking", moved, s)
              /\ UNCHANGED sessions
      BY <2>4, MoveEntryDoes
    <3>2. s = q
      BY <1>0, <2>1, <3>1
    <3>3. sessions[q].lead = l
      BY <3>1, <3>2 DEF RequestInv, BeingOpened
    <3> HIDE DEF s, l
    <3>4. /\ driver'[d].phase = "talking" /\ driver'[d].entry = moved
          /\ driver'[d].request = s
      BY <3>1, DrivesOne
    <3> QED
      BY <3>1, <3>2, <3>3, <3>4
  <2>5. \/ UNCHANGED answered \/ \E d \in Drivers : TakeBack(d) \/ MoveEntry(d)
        \/ \E d \in Drivers, s \in SessionIds, t \in Troubles : Bootstrap(d, s, t)
    BY DEF Next, vars, PauseOrResume, MarkDnc, Select, CompareEntry, RetryBootstrap,
        BeginTurn, CompareTurn, FailTurn, Terminate, StoreSession, Record,
        SaveEntry, campaignVars
  <2> HIDE DEF Driven
  <2> QED
    BY <2>1, <2>2, <2>3, <2>4, <2>5
<1> QED
  BY <1>1, <1>2

\* A call keeps the plan it was begun with.
LEMMA NextPlan ==
    ASSUME TypeOK, ConfigInv, EntryInv, CopyInv, RequestInv, SessionInv, TurnInv,
           PlanInv, [Next]_vars
    PROVE  PlanInv'
<1> SUFFICES ASSUME NEW q \in SessionIds, sessions'[q] # None
             PROVE  /\ Policy # None
                    /\ sessions'[q].plan = PlanFor(LeadWith(sessions'[q].lead))
  BY DEF PlanInv
<1>0. sessions \in [SessionIds -> {None} \cup ChatSessions]
  BY DEF TypeOK
<1> DEFINE Planned(session) == /\ Policy # None
                               /\ session.plan = PlanFor(LeadWith(session.lead))
<1>1. CASE sessions'[q] = sessions[q]
  BY <1>1 DEF PlanInv
<1>2. ASSUME NEW s \in SessionIds, NEW l \in Leads_, Opens(s, l), q = s
      PROVE  Planned(sessions'[q])
  <2>1. /\ NewSession(LeadWith(l)).lead = l
        /\ NewSession(LeadWith(l)).plan = PlanFor(LeadWith(l))
    BY SessionOfLead
  <2>2. sessions'[q] = NewSession(LeadWith(l)) /\ Policy # None
    BY <1>0, <1>2 DEF Opens
  <2> QED
    BY <2>1, <2>2
<1>3. ASSUME NEW s \in SessionIds, Closes(s)
      PROVE  sessions'[q] = sessions[q]
  BY <1>0, <1>3 DEF Closes
<1>4. ASSUME NEW c \in Callers, NEW t \in TurnsUnderWay, Stores(c, t), t.id = q
      PROVE  Planned(sessions'[q])
  <2>1. TurnSound(t) /\ sessions[q] # None
    BY <1>4, NoneAssumption DEF Stores, TurnInv, UnderWay
  <2>2. sessions'[q] = t.session
    BY <1>0, <1>4 DEF Stores
  <2> QED
    BY <1>4, <2>1, <2>2 DEF TurnSound, PlanInv
<1>5. ASSUME NEW s \in SessionIds, NEW session, q # s,
             sessions' = [sessions EXCEPT ![s] = session]
      PROVE  sessions'[q] = sessions[q]
  BY <1>0, <1>5
<1> QED
  BY <1>1, <1>2, <1>3, <1>4, <1>5, SessionSteps DEF Opens, Stores

---------------------------------------------------------------------------
(* Plans.                                                                   *)

FactKeys == {"website.presence", "business.category", "contact.name",
             "contact.email", "location.city", "location.state",
             "location.country", "location.address"}

\* The order of the facts is one of the facts.
LEMMA FactOrdered ==
    /\ DOMAIN FactOrder = 1..8
    /\ \A i \in 1..8 : FactOrder[i] \in FactKeys
    /\ \A key \in FactKeys : \E i \in 1..8 : FactOrder[i] = key
    /\ \A key \in FactKeys \ {"website.presence"} :
          key \in {FactOrder[i] : i \in 2..8}
<1>1. /\ DOMAIN FactOrder = 1..8
      /\ FactOrder[1] = "website.presence" /\ FactOrder[2] = "business.category"
      /\ FactOrder[3] = "contact.name" /\ FactOrder[4] = "contact.email"
      /\ FactOrder[5] = "location.city" /\ FactOrder[6] = "location.state"
      /\ FactOrder[7] = "location.country" /\ FactOrder[8] = "location.address"
  BY DEF FactOrder
<1>2. \A i \in 1..8 : i \in {1, 2, 3, 4, 5, 6, 7, 8}
  OBVIOUS
<1> QED
  BY <1>1, <1>2 DEF FactKeys

\* The field of the lead that a fact is about.
LEMMA FactFields ==
    /\ FactField["business.category"] = "category"
    /\ FactField["contact.name"] = "contact_name"
    /\ FactField["contact.email"] = "email"
    /\ FactField["location.city"] = "city"
    /\ FactField["location.state"] = "state"
    /\ FactField["location.country"] = "country"
    /\ FactField["location.address"] = "address"
<1>1. \A key \in FactKeys \ {"website.presence"} :
          key \in {FactOrder[i] : i \in 2..8}
  BY FactOrdered
<1> QED
  BY <1>1 DEF FactField, FactKeys

\* A provider says something else of a field than the file.
Contradicts(found, lead, f) ==
    /\ f \in LeadFields \ {"contact_name"} /\ found # None
    /\ (found # None =>
           /\ found.success /\ lead.fields[f] # None
           /\ found.fields[f] \notin {None, lead.fields[f]})

\* What is known was said and is not contradicted; what is contradicted conflicts.
LEMMA ReconciledStates ==
    ASSUME NEW lead, NEW found, NEW f \in LeadFields
    PROVE  LET state == Reconciled(lead, found).fields[f].state
           IN  /\ state = "known" =>
                    lead.fields[f] # None /\ ~Contradicts(found, lead, f)
               /\ Contradicts(found, lead, f) => state = "conflicting"
<1> DEFINE context == Reconciled(lead, found)
           said == lead.fields[f]
           heard == IF found = None \/ f = "contact_name" THEN None
                    ELSE IF found.success THEN found.fields[f] ELSE None
<1>1. context.fields[f] = ReconciledField(said, heard)
  BY DEF Reconciled
<1>2. ReconciledField(said, heard).state =
          IF said # None
          THEN IF heard \in {None, said} THEN "known" ELSE "conflicting"
          ELSE IF heard # None THEN "unverified" ELSE "unknown"
  <2> HIDE DEF said, heard
  <2> QED
    BY DEF ReconciledField, Field
<1>3. Contradicts(found, lead, f) => said # None /\ heard \notin {None, said}
  BY DEF Contradicts
<1> HIDE DEF context, said, heard
<1>4. /\ context.fields[f].state = "known" =>
            said # None /\ ~Contradicts(found, lead, f)
      /\ Contradicts(found, lead, f) => context.fields[f].state = "conflicting"
  BY <1>1, <1>2, <1>3
<1> QED
  BY <1>4 DEF context, said

\* The facts known of a lead.
LEMMA KnownFacts ==
    ASSUME NEW lead, NEW found, NEW key,
           key \in Facts(Reconciled(lead, found), "known"),
           key # "website.presence"
    PROVE  /\ FactField[key] \in LeadFields
           /\ lead.fields[FactField[key]] # None
           /\ ~Contradicts(found, lead, FactField[key])
<1>1. key \in FactKeys /\ FactState(Reconciled(lead, found), key) = "known"
  BY FactOrdered DEF Facts
<1>2. FactField[key] \in LeadFields
  BY <1>1, FactFields DEF FactKeys, LeadFields
<1>3. Reconciled(lead, found).fields[FactField[key]].state = "known"
  BY <1>1 DEF FactState
<1> QED
  BY <1>2, <1>3, ReconciledStates

\* A contradicted field is a fact in conflict.
LEMMA ConflictingFacts ==
    ASSUME NEW lead, NEW found, NEW f, Contradicts(found, lead, f)
    PROVE  Facts(Reconciled(lead, found), "conflicting") # {}
<1>1. f \in LeadFields \ {"contact_name"}
  BY DEF Contradicts
<1>2. PICK key \in FactKeys : key # "website.presence" /\ FactField[key] = f
  BY <1>1, FactFields DEF LeadFields, FactKeys
<1>3. FactState(Reconciled(lead, found), key) = "conflicting"
  BY <1>1, <1>2, ReconciledStates DEF FactState
<1> QED
  BY <1>2, <1>3, FactOrdered DEF Facts

\* Targets are ranked, the facts first.
LEMMA TargetsRanked ==
    ASSUME Policy # None, NEW context, NEW t \in Targets(context, Policy, Services)
    PROVE  t.priority \in DOMAIN PriorityRank /\ t.order \in Nat
<1> DEFINE Ranks == {"critical", "high", "normal", "low"}
<1>0. DOMAIN PriorityRank = Ranks
  BY DEF PriorityRank
<1>1. \A key \in DOMAIN Policy.override : Policy.override[key] \in Ranks
  BY <1>0, PolicyAssumption
<1>2. CASE t \in FactTargets(context, Policy, Services)
  <2>1. PICK i \in DOMAIN FactOrder :
            /\ PriorityOf(context, Policy, Services, FactOrder[i]) # None
            /\ t = Target(FactOrder[i],
                          PriorityOf(context, Policy, Services, FactOrder[i]), i)
    BY <1>2 DEF FactTargets
  <2> DEFINE key == FactOrder[i]
             priority == PriorityOf(context, Policy, Services, key)
  <2>2. priority \in Ranks \cup {None}
    <3> HIDE DEF key
    <3> QED
      BY <1>1 DEF PriorityOf
  <2>3. t.priority = priority /\ t.order = i
    BY <2>1 DEF Target
  <2> QED
    BY <1>0, <2>1, <2>2, <2>3, FactOrdered
<1>3. CASE t \in BeyondTargets(Policy)
  <2>1. PICK i \in FirstAsked(Policy) :
            t = Target(Asked(Policy)[i], BeyondPriority(Policy, Asked(Policy)[i]),
                       999 + i)
    BY <1>3 DEF BeyondTargets
  <2>2. i \in Nat
    <3>1. Policy.required \in Seq(STRING) /\ Policy.optional \in Seq(STRING)
      BY PolicyAssumption
    <3> DEFINE asked == Policy.required \o Policy.optional
    <3>2. asked \in Seq(STRING)
      BY <3>1
    <3>3. i \in DOMAIN asked
      BY <2>1 DEF Asked, FirstAsked
    <3> HIDE DEF asked
    <3>4. DOMAIN asked = 1..Len(asked) /\ Len(asked) \in Nat
      BY <3>2
    <3> QED
      BY <3>3, <3>4
  <2> DEFINE key == Asked(Policy)[i]
  <2>3. t = Target(key, BeyondPriority(Policy, key), 999 + i)
    BY <2>1
  <2> HIDE DEF key
  <2>4. BeyondPriority(Policy, key) \in Ranks
    BY <1>1 DEF BeyondPriority
  <2> QED
    BY <1>0, <2>2, <2>3, <2>4 DEF Target
<1> QED
  BY <1>2, <1>3 DEF Targets

\* What is asked first comes before everything else worth asking.
LEMMA PrimaryFirst ==
    ASSUME NEW T, \A t \in T : t.priority \in DOMAIN PriorityRank /\ t.order \in Nat
    PROVE  \A t \in T : Before(Primary(T), t)
<1>1. SUFFICES ASSUME T # {} PROVE \E t \in T : \A o \in T : Before(t, o)
  <2> DEFINE First(t) == \A o \in T : Before(t, o)
  <2>1. SUFFICES ASSUME T # {} PROVE First(Primary(T))
    OBVIOUS
  <2>2. \E t \in T : First(t)
    BY <1>1, <2>1
  <2>3. Primary(T) = CHOOSE t \in T : First(t)
    BY <2>1 DEF Primary
  <2> HIDE DEF First
  <2> QED
    BY <2>2, <2>3
<1> DEFINE rank(t) == PriorityRank[t.priority]
<1>2. \A t \in T : rank(t) \in Nat
  BY DEF PriorityRank
<1>3. \A t, o \in T : rank(t) = rank(o) => t.priority = o.priority
  BY DEF PriorityRank
<1> HIDE DEF rank
<1>4. PICK r \in {rank(t) : t \in T} : \A q \in {rank(t) : t \in T} : r <= q
  BY <1>1, <1>2, LeastNumber
<1> DEFINE Highest == {t \in T : rank(t) = r}
<1>5. PICK n \in {t.order : t \in Highest} : \A m \in {t.order : t \in Highest} : n <= m
  BY <1>4, LeastNumber
<1>6. PICK t \in T : rank(t) = r /\ t.order = n
  BY <1>5
<1>7. ASSUME NEW o \in T PROVE Before(t, o)
  <2>1. CASE rank(o) = r
    <3>1. t.order <= o.order /\ t.priority = o.priority
      BY <1>3, <1>5, <1>6, <2>1
    <3> QED
      BY <3>1 DEF Before
  <2>2. CASE rank(o) # r
    <3>1. rank(t) < rank(o)
      BY <1>2, <1>4, <1>6, <2>2
    <3> QED
      BY <3>1 DEF Before, rank
  <2> QED
    BY <2>1, <2>2
<1> QED
  BY <1>7

\* What the property says of a plan.
PlanSound(lead, plan) ==
    /\ \A key \in plan.known : key # "website.presence" =>
          /\ lead.fields[FactField[key]] # None
          /\ ~Contradicts(Enrichment[lead.id], lead, FactField[key])
    /\ \A t \in plan.targets : Before(plan.primary, t)
    /\ (\E f : Contradicts(Enrichment[lead.id], lead, f)) =>
          plan.posture = "conflicted"
    /\ "website.presence" \notin plan.known => "no_website" \in plan.guardrails

LEMMA PlansSound ==
    ASSUME Policy # None, NEW lead
    PROVE  PlanSound(lead, PlanFor(lead))
<1> DEFINE context == Reconciled(lead, Enrichment[lead.id])
           plan == PlanFor(lead)
<1>1. /\ plan.known = Facts(context, "known")
      /\ plan.targets = Targets(context, Policy, Services)
      /\ plan.primary = Primary(Targets(context, Policy, Services))
      /\ plan.guardrails = Guardrails(context) /\ plan.posture = Posture(context)
  BY DEF PlanFor, PreCallPlan
<1>2. \A t \in plan.targets : Before(plan.primary, t)
  BY <1>1, TargetsRanked, PrimaryFirst
<1>3. (\E f : Contradicts(Enrichment[lead.id], lead, f)) =>
          plan.posture = "conflicted"
  BY <1>1, ConflictingFacts DEF Posture
<1>4. "website.presence" \notin plan.known => "no_website" \in plan.guardrails
  <2>1. SUFFICES ASSUME "website.presence" \notin Facts(context, "known")
                 PROVE  WebsiteState(context.websiteStatus) # "known"
    BY <1>1 DEF Guardrails
  <2>2. \E i \in DOMAIN FactOrder : FactOrder[i] = "website.presence"
    BY FactOrdered DEF FactKeys
  <2>3. FactState(context, "website.presence") # "known"
    BY <2>1, <2>2 DEF Facts
  <2> QED
    BY <2>3 DEF FactState
<1>5. \A key \in plan.known : key # "website.presence" =>
          /\ lead.fields[FactField[key]] # None
          /\ ~Contradicts(Enrichment[lead.id], lead, FactField[key])
  BY <1>1, KnownFacts
<1> QED
  BY <1>2, <1>3, <1>4, <1>5 DEF PlanSound

---------------------------------------------------------------------------
(* Outcomes.                                                                *)

\* What the property says of an outcome.
Honest(o) ==
    /\ o.dnc = (o.status = "dnc")
    /\ o.status \in {"dnc", "not_interested"} =>
          o.followUp = "not_needed" /\ o.interest = "no_interest"
    /\ o.status = "interested" => o.interest = "explicit_interest"
    /\ o.status = "follow_up" => o.step # None
    /\ o.followUp = "needed" => o.step # None \/ o.failed
            \/ o.status \in {"interested", "needs_more_information"}

LEMMA LeadOutcomeHonest ==
    ASSUME NEW input, input.dnc \in BOOLEAN, input.notInterested \in BOOLEAN,
           input.error \in BOOLEAN, input.terminal \in BOOLEAN
    PROVE  Honest(LeadOutcome(input))
<1> DEFINE o == LeadOutcome(input)
           step == NextStep(input)
<1>1. /\ o.status = OutcomeStatus(input) /\ o.interest = InterestLevel(input)
      /\ o.dnc = input.dnc /\ o.failed = input.error /\ o.step = step
      /\ o.followUp = FollowUp(input)
  BY DEF LeadOutcome
<1> HIDE DEF o, step
<1>2. o.dnc = (o.status = "dnc")
  BY <1>1 DEF OutcomeStatus, step
<1>3. o.status \in {"dnc", "not_interested"} => input.dnc \/ input.notInterested
  BY <1>1 DEF OutcomeStatus, step
<1>4. input.dnc \/ input.notInterested =>
          o.followUp = "not_needed" /\ o.interest = "no_interest"
  BY <1>1 DEF FollowUp, InterestLevel
<1>5. o.status = "interested" => o.interest = "explicit_interest"
  <2>1. SUFFICES ASSUME o.status = "interested"
                 PROVE  o.interest = "explicit_interest"
    OBVIOUS
  <2>2. ~input.dnc /\ ~input.notInterested /\ Interested(input)
    BY <1>1, <2>1 DEF OutcomeStatus
  <2>3. input.observed # None /\ input.observed.interest = TRUE
    BY <2>2 DEF Interested
  <2>4. TRUE # None
    BY NoneAssumption
  <2> QED
    BY <1>1, <2>2, <2>3, <2>4 DEF InterestLevel
<1>6. o.status = "follow_up" => o.step # None
  BY <1>1 DEF OutcomeStatus, step
<1>7. o.followUp = "needed" => o.step # None \/ o.failed
            \/ o.status \in {"interested", "needs_more_information"}
  BY <1>1, <1>6 DEF FollowUp, step
<1> QED
  BY <1>2, <1>3, <1>4, <1>5, <1>6, <1>7 DEF Honest, o

\* A terminal turn and a driver report honest outcomes.
LEMMA ReportsHonest ==
    /\ \A terminal \in BOOLEAN : \A o \in Reported(terminal) : Honest(o)
    /\ \A f \in Findings, dnc \in BOOLEAN :
          Honest(LeadOutcome([f EXCEPT !.dnc = dnc]))
<1>1. Honest(LeadOutcome(EndedCall))
  <2>1. /\ EndedCall.dnc \in BOOLEAN /\ EndedCall.notInterested \in BOOLEAN
        /\ EndedCall.error \in BOOLEAN /\ EndedCall.terminal \in BOOLEAN
    BY DEF EndedCall
  <2> QED
    BY <2>1, LeadOutcomeHonest
<1>2. ASSUME NEW f \in Findings, NEW dnc \in BOOLEAN
      PROVE  Honest(LeadOutcome([f EXCEPT !.dnc = dnc]))
  <2> DEFINE input == [f EXCEPT !.dnc = dnc]
  <2>1. "dnc" \in DOMAIN f
    BY FindingsAssumption DEF EndedCall
  <2>2. f = [part \in DOMAIN f |-> f[part]]
    BY FindingsAssumption
  <2>3. /\ input.dnc = dnc /\ input.notInterested = f.notInterested
        /\ input.error = f.error /\ input.terminal = f.terminal
    BY <2>1, <2>2, FindingsAssumption DEF EndedCall
  <2>4. {f.notInterested, f.error, f.terminal} \subseteq BOOLEAN
    BY FindingsAssumption
  <2> HIDE DEF input
  <2>5. /\ input.dnc \in BOOLEAN /\ input.notInterested \in BOOLEAN
        /\ input.error \in BOOLEAN /\ input.terminal \in BOOLEAN
    BY <2>3, <2>4
  <2>6. Honest(LeadOutcome(input))
    BY <2>5, LeadOutcomeHonest
  <2> QED
    BY <2>6 DEF input
<1> QED
  BY <1>1, <1>2 DEF Reported

LEMMA NextOutcomes ==
    ASSUME TypeOK, ConfigInv, CopyInv, OutcomeHonest, [Next]_vars
    PROVE  OutcomeHonest'
<1>1. \A s \in SessionIds : \A o \in outcomes[s] : Honest(o)
  BY DEF OutcomeHonest, Honest
<1>2. SUFFICES \A s \in SessionIds : \A o \in outcomes'[s] : Honest(o)
  BY DEF OutcomeHonest, Honest
<1>3. CASE UNCHANGED outcomes
  BY <1>1, <1>3
<1>4. ASSUME NEW s, NEW reports, \A o \in reports : Honest(o),
             outcomes' = [outcomes EXCEPT ![s] = @ \cup reports]
      PROVE  \A q \in SessionIds : \A o \in outcomes'[q] : Honest(o)
  BY <1>1, <1>4 DEF TypeOK
<1>5. ASSUME NEW c \in Callers, StoreSession(c)
      PROVE  \A q \in SessionIds : \A o \in outcomes'[q] : Honest(o)
  <2>1. PICK t \in TurnsUnderWay :
            outcomes' = [outcomes EXCEPT ![t.id] =
                            @ \cup Reported(t.session.status = "completed")]
    BY <1>5, StoreSessionDoes
  <2>2. \A o \in Reported(t.session.status = "completed") : Honest(o)
    BY ReportsHonest
  <2> QED
    BY <1>4, <2>1, <2>2
<1>6. ASSUME NEW d \in Drivers, NEW r \in Results, NEW f \in Findings, Record(d, r, f)
      PROVE  \A q \in SessionIds : \A o \in outcomes'[q] : Honest(o)
  <2> DEFINE s == driver[d].request
             report == LeadOutcome([f EXCEPT !.dnc = r = "dnc"])
  <2>1. outcomes' = [outcomes EXCEPT ![s] = @ \cup {report}]
    BY <1>6 DEF Record
  <2>2. Honest(report)
    BY ReportsHonest
  <2> HIDE DEF report
  <2> QED
    BY <1>4, <2>1, <2>2
<1> QED
  BY <1>3, <1>5, <1>6 DEF Next, vars, PauseOrResume, MarkDnc, Select, Bootstrap,
      CompareEntry, TakeBack, MoveEntry, RetryBootstrap, BeginTurn, CompareTurn,
      FailTurn, Terminate, SaveEntry

---------------------------------------------------------------------------
(* The theorems.                                                            *)

IInv == /\ TypeOK /\ ConfigInv /\ EntryInv /\ CopyInv /\ CallInv
        /\ RequestInv /\ SessionInv /\ DrivenInv /\ RisingInv /\ TurnInv
        /\ ExactInv /\ PlanInv /\ OutcomeHonest

LEMMA InitInv ==
    ASSUME Init
    PROVE  IInv
<1>1. TypeOK
  BY InitTypes
<1>2. ConfigInv
  BY DEF Init, ConfigInv
<1>3. EntryInv
  <2>1. SUFFICES ASSUME NEW l \in Leads_
                 PROVE  queue[l].lead = l /\ Sound(queue[l])
    BY DEF EntryInv
  <2>2. /\ queue[l].lead = l /\ queue[l].status = "pending"
        /\ queue[l].dnc = FALSE /\ queue[l].attempts = 0
    BY DEF Init, Entry
  <2>3. Config.retries \in Nat
    BY ConfigAssumption DEF CampaignConfigs
  <2>4. queue[l].dnc = (queue[l].status = "dnc")
    BY <2>2
  <2>5. queue[l].attempts <= Config.retries
    BY <2>2, <2>3
  <2> QED
    BY <2>2, <2>4, <2>5 DEF Sound
<1>4. /\ \A d \in Drivers : driver[d] = Idle
      /\ UnderWay = {} /\ acked = {}
      /\ \A s \in SessionIds : /\ sessions[s] = None /\ answered[s] = None
                               /\ processors[s] = None /\ outcomes[s] = {}
  BY DEF Init, UnderWay
<1>5. CopyInv /\ RequestInv
  BY <1>4 DEF CopyInv, RequestInv, Idle, BeingOpened
<1>6. CallInv
  <2>1. \A l \in Leads_ : Writing(l) = {} /\ Calling(l) = {}
    BY <1>4 DEF Writing, Calling, Idle
  <2>2. \A l \in Leads_ : queue[l].status = "pending"
    BY DEF Init, Entry
  <2> QED
    BY <2>1, <2>2 DEF CallInv, EntryOwned
<1>7. \A s \in SessionIds : ~Created(s) /\ OpenedFor(s) = {} /\ Storing(s) = {}
  BY <1>4 DEF Created, OpenedFor, BeingOpened, Idle, Storing
<1>8. SessionInv /\ DrivenInv
  BY <1>4, <1>7 DEF SessionInv, SessionUsed, DrivenInv
<1>9. RisingInv /\ TurnInv /\ PlanInv /\ OutcomeHonest
  BY <1>4 DEF RisingInv, TurnInv, PlanInv, OutcomeHonest
<1>10. ExactInv
  BY <1>4, <1>7 DEF ExactInv, Complete
<1> QED
  BY <1>1, <1>2, <1>3, <1>5, <1>6, <1>8, <1>9, <1>10 DEF IInv

\* The invariant is inductive.
LEMMA Invariant == Spec => []IInv
<1>1. Init => IInv
  BY InitInv
<1>2. IInv /\ [Next]_vars => IInv'
  BY NextTypes, NextConfig, NextEntries, NextCalls, NextRequests, NextSessions,
     NextDriven, NextRising, NextTurns, NextExact, NextPlan, NextOutcomes DEF IInv
<1> QED
  BY <1>1, <1>2, PTL DEF Spec

\* The types of the campaign's state.
THEOREM TypeCorrect == Spec => []TypeOK
<1>1. IInv => TypeOK
  BY DEF IInv
<1> QED
  BY <1>1, Invariant, PTL

\* However many threads submit turns, and wherever they come between the
\* repository's comparison and its write: a transcript holds only turns that were
\* answered, in rising order up to the turn count; and it holds all of them where
\* no two callers were between comparing and writing one session at one time
\* (chat/repository.py:41-49).
THEOREM TranscriptCorrect == Spec => []TranscriptExact
<1>1. IInv => TranscriptExact
  <2>1. SUFFICES ASSUME IInv, NEW s \in Open
                 PROVE  LET t == sessions[s].transcript
                            turns == {n \in 1..MaxTurns : <<s, n>> \in acked}
                        IN  /\ Range(t) \subseteq turns
                            /\ s \notin crossedSessions => Range(t) = turns
                            /\ \A i \in 1..(Len(t) - 1) : t[i] < t[i + 1]
                            /\ sessions[s].turns = IF t = <<>> THEN 0 ELSE Last(t)
    BY DEF TranscriptExact
  <2> DEFINE t == sessions[s].transcript
             S == 1..MaxTurns
  <2>2. s \in SessionIds /\ sessions[s] # None /\ sessions[s] \in ChatSessions
    BY <2>1 DEF Open, IInv, TypeOK
  <2>3. t \in Seq(S)
    BY <2>2 DEF ChatSessions
  <2>4. Rising(sessions[s]) /\ HoldsOnly(s, sessions[s], acked)
    BY <2>1, <2>2 DEF IInv, RisingInv
  <2>5. \A i \in 1..(Len(t) - 1) : t[i] < t[i + 1]
    BY <2>4 DEF Rising
  <2>6. sessions[s].turns = IF Len(t) = 0 THEN 0 ELSE t[Len(t)]
    BY <2>4 DEF Rising
  <2>7. \A i \in 1..Len(t) : <<s, t[i]>> \in acked
    BY <2>4 DEF HoldsOnly
  <2>8. s \notin crossedSessions =>
            \A n \in S : <<s, n>> \in acked => \E i \in 1..Len(t) : t[i] = n
    BY <2>1, <2>2 DEF IInv, ExactInv, Complete
  <2> HIDE DEF t, S
  <2>9. DOMAIN t = 1..Len(t) /\ \A i \in 1..Len(t) : t[i] \in S
    BY <2>3, SequenceParts
  <2>10. /\ Range(t) \subseteq {n \in S : <<s, n>> \in acked}
         /\ s \notin crossedSessions => Range(t) = {n \in S : <<s, n>> \in acked}
    BY <2>7, <2>8, <2>9 DEF Range
  <2>11. sessions[s].turns = IF t = <<>> THEN 0 ELSE Last(t)
    BY <2>3, <2>6 DEF Last
  <2> QED
    BY <2>5, <2>10, <2>11 DEF t, S
<1> QED
  BY <1>1, Invariant, PTL

\* However many drivers chose a lead from an old view of the queue, and wherever
\* they come between the steps of a bootstrap: a session is there exactly while its
\* bootstrap goes on and after it was answered as created, and one that goes on
\* has a driver; and one driver at a time is on the phone with a lead, whose entry
\* says so, unless the entry was written between somebody's comparison and his
\* write (persistence/sqlite/repositories.py:259-334, bootstrap/service.py,
\* campaign/engine.py).
THEOREM OneCallCorrect == Spec => []OneCallPerLead
<1>1. IInv => OneCallPerLead
  <2> SUFFICES ASSUME IInv PROVE OneCallPerLead
    OBVIOUS
  <2>1. ASSUME NEW s \in SessionIds
        PROVE  (sessions[s] # None) =
                  (\/ Created(s)
                   \/ \E d \in Drivers : BeingOpened(d) /\ driver[d].request = s)
    <3>1. (sessions[s] # None) <=> (Created(s) \/ OpenedFor(s) # {})
      BY DEF IInv, SessionInv, SessionUsed
    <3>2. OpenedFor(s) # {} <=> \E d \in Drivers : BeingOpened(d) /\ driver[d].request = s
      BY DEF OpenedFor
    <3>3. Created(s) \in BOOLEAN
      BY DEF IInv, TypeOK, Answers, Created
    <3> QED
      BY <3>1, <3>2, <3>3
  <2>2. ASSUME NEW s \in Active \ crossedSessions, Created(s)
        PROVE  \E d \in Calling(sessions[s].lead) : driver[d].request = s
    BY <2>2 DEF IInv, DrivenInv, Active, Open, Calling
  <2>3. ASSUME NEW l \in Leads_
        PROVE  /\ queue[l].attempts \in 0..config.retries
               /\ queue[l].dnc = (queue[l].status = "dnc")
    <3>1. /\ queue[l].attempts \in Nat /\ Sound(queue[l])
          /\ config.retries \in Nat /\ config.retries = Config.retries
      BY DEF IInv, TypeOK, QueueEntries, EntryInv, ConfigInv, CampaignConfigs
    <3> QED
      BY <3>1 DEF Sound
  <2>4. ASSUME NEW l \in Leads_ \ crossedLeads
        PROVE  /\ Cardinality(Calling(l)) <= 1
               /\ queue[l].status = "in_progress" => Calling(l) # {}
               /\ Calling(l) # {} => queue[l].status \in {"in_progress", "dnc"}
    <3>1. EntryOwned(l)
      BY DEF IInv, CallInv
    <3>2. Calling(l) = {} \/ \E d : Calling(l) = {d}
      BY <3>1 DEF EntryOwned
    <3>3. Calling(l) = {} => Cardinality(Calling(l)) = 0
      BY FS_EmptySet
    <3>4. \A d : Cardinality({d}) = 1
      BY FS_Singleton
    <3>5. Cardinality(Calling(l)) \in {0, 1}
      BY <3>2, <3>3, <3>4
    <3> QED
      BY <3>1, <3>5 DEF EntryOwned
  <2> QED
    BY <2>1, <2>2, <2>3, <2>4 DEF OneCallPerLead
<1> QED
  BY <1>1, Invariant, PTL

\* A plan takes nothing for known that was not said or is contradicted, and asks
\* first what outranks the rest (precall/engine.py:62-118).
THEOREM PlanCorrect == Spec => []PlanAssumesNothing
<1>1. IInv => PlanAssumesNothing
  <2>1. SUFFICES ASSUME IInv, NEW s \in Open
        PROVE  LET plan == sessions[s].plan
                   lead == LeadWith(sessions[s].lead)
                   found == Enrichment[lead.id]
                   contradicted == {f \in LeadFields \ {"contact_name"} :
                       found # None /\ (found # None =>
                           /\ found.success /\ lead.fields[f] # None
                           /\ found.fields[f] \notin {None, lead.fields[f]})}
               IN  /\ \A key \in plan.known :
                         key # "website.presence" =>
                             /\ lead.fields[FactField[key]] # None
                             /\ FactField[key] \notin contradicted
                   /\ \A t \in plan.targets : Before(plan.primary, t)
                   /\ contradicted # {} => plan.posture = "conflicted"
                   /\ "website.presence" \notin plan.known =>
                         "no_website" \in plan.guardrails
    BY DEF PlanAssumesNothing
  <2> DEFINE plan == sessions[s].plan
             lead == LeadWith(sessions[s].lead)
  <2>2. Policy # None /\ plan = PlanFor(lead)
    BY <2>1 DEF Open, IInv, PlanInv
  <2> HIDE DEF plan, lead
  <2>3. PlanSound(lead, plan)
    BY <2>2, PlansSound
  <2> QED
    BY <2>3 DEF PlanSound, Contradicts, plan, lead
<1> QED
  BY <1>1, Invariant, PTL

\* No outcome reported of a call contradicts itself (runtime/chat/outcome/engine.py).
THEOREM OutcomeCorrect == Spec => []OutcomeHonest
<1>1. IInv => OutcomeHonest
  BY DEF IInv
<1> QED
  BY <1>1, Invariant, PTL

\* An opt-out in the store is for good and nobody calls the lead again, whatever
\* old copy of the entry somebody holds, unless it came between somebody's
\* comparison and his write (persistence/sqlite/repositories.py:259-280).
THEOREM OptOutCorrect == Spec => OptedOutForGood
<1> DEFINE Kept(l) ==
        /\ queue'[l].dnc /\ queue'[l].status = "dnc"
        /\ \A d \in Drivers :
              driver'[d].phase = "talking" /\ driver[d].phase # "talking"
                  => driver'[d].entry.lead # l
<1>1. ASSUME IInv, IInv', [Next]_vars, NEW l \in Leads_ \ crossedLeads,
             queue[l].dnc
      PROVE  Kept(l)
  <2> USE DEF IInv
  <2>0. /\ queue \in [Leads_ -> QueueEntries] /\ EntryOwned(l)
        /\ EntryInv /\ EntryInv' /\ TypeOK /\ CopyInv /\ ConfigInv
    BY <1>1 DEF TypeOK, CallInv
  <2>a. ASSUME queue'[l].dnc,
               \A d \in Drivers :
                  driver'[d].phase = "talking" /\ driver[d].phase # "talking"
                      => driver'[d].entry.lead # l
        PROVE  Kept(l)
    BY <2>0, <2>a DEF EntryInv, Sound
  <2>b. ASSUME NEW d \in Drivers, NEW phase, NEW entry, NEW request,
               Drives(d, phase, entry, request),
               phase # "talking" \/ entry.lead # l
        PROVE  \A e \in Drivers :
                  driver'[e].phase = "talking" /\ driver[e].phase # "talking"
                      => driver'[e].entry.lead # l
    BY <2>0, <2>b, DrivesOne
  <2>1. CASE UNCHANGED <<queue, driver>>
    BY <1>1, <2>1, <2>a
  <2>2. ASSUME NEW k \in Leads_, MarkDnc(k) PROVE Kept(l)
    <3>1. ~queue[k].dnc /\ queue' = [queue EXCEPT ![k] = MarkedDnc(@)] /\ UNCHANGED driver
      BY <2>2 DEF MarkDnc
    <3>2. queue'[l].dnc
      BY <1>1, <2>0, <3>1
    <3> QED
      BY <2>a, <3>1, <3>2
  <2>3. ASSUME NEW d \in Drivers, NEW phase, NEW entry, NEW request,
               Drives(d, phase, entry, request), phase # "talking", UNCHANGED queue
        PROVE  Kept(l)
    BY <1>1, <2>3, <2>a, <2>b
  <2>4. ASSUME NEW d \in Drivers, NEW m \in Minutes, NEW e \in Elapsed, Select(d, m, e)
        PROVE  Kept(l)
    BY <2>0, <2>3, <2>4, SelectDoes DEF Select
  <2>5. ASSUME NEW d \in Drivers, NEW s \in SessionIds, NEW t \in Troubles,
               Bootstrap(d, s, t)
        PROVE  Kept(l)
    <3>1. /\ UNCHANGED queue
          /\ \/ Drives(d, "opened", driver[d].entry, s)
             \/ Drives(d, "idle", None, None)
      BY <2>0, <2>5, BootstrapDoes
    <3> QED
      BY <2>3, <3>1
  <2>6. ASSUME NEW d \in Drivers, CompareEntry(d) PROVE Kept(l)
    <3>1. /\ UNCHANGED queue
          /\ Drives(d, "moving", queue[driver[d].entry.lead], driver[d].request)
      BY <2>0, <2>6, CompareEntryDoes
    <3> QED
      BY <2>3, <3>1
  <2>7. ASSUME NEW d \in Drivers, TakeBack(d) PROVE Kept(l)
    BY <2>0, <2>3, <2>7, TakeBackDoes
  <2>8. ASSUME NEW d \in Drivers, MoveEntry(d) PROVE Kept(l)
    <3> DEFINE k == driver[d].entry.lead
    <3>1. PICK moved \in QueueEntries, written \in QueueEntries :
              /\ driver[d].phase = "moving" /\ k \in Leads_ /\ moved.lead = k
              /\ queue' = [queue EXCEPT ![k] = written]
              /\ Drives(d, "talking", moved, driver[d].request)
      BY <2>0, <2>8, MoveEntryDoes
    <3>2. k # l
      <4>1. k = l => queue[l] = driver[d].entry
        BY <2>0, <3>1 DEF EntryOwned, Writing
      <4>2. ~driver[d].entry.dnc
        BY <2>0, <3>1 DEF CopyInv
      <4> QED
        BY <1>1, <4>1, <4>2
    <3> HIDE DEF k
    <3>3. queue'[l].dnc
      BY <1>1, <2>0, <3>1, <3>2
    <3> QED
      BY <2>a, <2>b, <3>1, <3>2, <3>3
  <2>9. ASSUME NEW d \in Drivers, NEW r \in Results, NEW f \in Findings,
               Record(d, r, f)
        PROVE  Kept(l)
    <3>1. PICK after \in QueueEntries :
              /\ UNCHANGED queue
              /\ \/ Drives(d, "saving", after, driver[d].request)
                 \/ Drives(d, "idle", None, None)
      BY <2>0, <2>9, RecordDoes
    <3> QED
      BY <2>3, <3>1
  <2>10. ASSUME NEW d \in Drivers, SaveEntry(d) PROVE Kept(l)
    <3> DEFINE entry == driver[d].entry
    <3>1. /\ driver[d].phase = "saving" /\ entry.lead \in Leads_
          /\ queue' = [queue EXCEPT ![entry.lead] = entry]
          /\ Drives(d, "idle", None, None)
      BY <2>0, <2>10, SaveEntryDoes
    <3>2. entry.lead = l => entry.dnc
      BY <1>1, <2>0, <3>1 DEF EntryOwned, Writing
    <3> HIDE DEF entry
    <3>3. queue'[l].dnc
      BY <1>1, <2>0, <3>1, <3>2
    <3> QED
      BY <2>a, <2>b, <3>1, <3>3
  <2> HIDE DEF IInv
  <2> QED
    BY <1>1, <2>1, <2>2, <2>4, <2>5, <2>6, <2>7, <2>8, <2>9, <2>10 DEF Next, vars,
        PauseOrResume, RetryBootstrap, BeginTurn, CompareTurn, FailTurn, Terminate,
        StoreSession, campaignVars
<1>2. IInv /\ IInv' /\ [Next]_vars =>
          [\A l \in Leads_ \ crossedLeads :
            queue[l].dnc =>
                /\ queue'[l].dnc /\ queue'[l].status = "dnc"
                /\ \A d \in Drivers :
                      driver'[d].phase = "talking" /\ driver[d].phase # "talking"
                          => driver'[d].entry.lead # l]_vars
  BY <1>1
<1> QED
  BY <1>2, Invariant, PTL DEF Spec, OptedOutForGood
=============================================================================
