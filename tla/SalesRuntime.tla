---------------------------- MODULE SalesRuntime ----------------------------
(***************************************************************************)
(* One live sales session under PersistentSalesRuntime                     *)
(* (app/application/sales_runtime/persistent_runtime.py) from the moment   *)
(* bootstrap has committed it: turns, finish, the DNC write, crashes and   *)
(* processor recovery, by request handlers of one or more processes.       *)
(*                                                                         *)
(* Abstractions.  A turn_request_id stands for its message, so the         *)
(* transcript is the sequence of request ids answered (one prospect and    *)
(* one agent entry each).  The in-memory TurnProcessor is what has been    *)
(* folded into it: `covered` counts, per request, the executions in the    *)
(* state a failed commit restores (_discussion_coverage, _reasoning_calls) *)
(* and `applied` those in the rest of the exported state (FSM state, sales *)
(* stage, business conversation, prospect, participant, qualification).    *)
(***************************************************************************)
EXTENDS Naturals, Sequences, FiniteSets, SqliteConnection

CONSTANTS Workers,      \* request handlers (threadpool threads)
          Home,         \* the process each handler runs in
          Requests,     \* turn_request_ids
          MaxSends,     \* deliveries of each request (client retries included)
          MaxFinishes,  \* calls of finish_session
          MaxCrashes,   \* process deaths
          MaxFaults,    \* injected failures
          Faults        \* their kinds: "locked", "io", "processor"

Statuses == {"ACTIVE", "COMPLETED", "ERROR"}

Tallies == [Requests -> Nat]

Sessions == [status : Statuses, revision : Nat, turn_count : Nat,
             transcript : Seq(Requests)]

Snapshots == [revision : Nat, covered : Tallies, applied : Tallies]

\* Opt-outs in the file, those rolled back with a turn whose open transaction they
\* were written in, and the processes that still have such a transaction open.
OptOuts == [open : SUBSET Processes, fates : SUBSET {"kept", "lost"}]

TurnRecords == [seq : Nat, revision : Nat, terminal : BOOLEAN]

Databases == [session : Sessions,
              snapshot : Snapshots \cup {None},
              turns : [Requests -> TurnRecords \cup {None}],
              queue : {"READY", "IN_PROGRESS", "DNC"}]

Processors == [covered : Tallies, applied : Tallies]

Steps == {"idle", "lookup", "read", "process", "begin", "check", "write",
          "commit", "reply", "finish_check", "finish_write", "finish_dnc"}

Calls == [req : Requests \cup {None}, seq : Nat,
          row : Sessions \cup {None}, pre : Tallies \cup {None},
          status : Statuses, snap : Snapshots \cup {None}, dnc : BOOLEAN]

ASSUME HomeAssumption == Home \in [Workers -> Processes]

ASSUME NoneAssumption ==
    /\ None \notin Databases
    /\ None \notin Sessions
    /\ None \notin Snapshots
    /\ None \notin TurnRecords
    /\ None \notin Processors
    /\ None \notin Tallies
    /\ None \notin Requests

ASSUME BoundsAssumption ==
    /\ MaxSends \in Nat /\ MaxFinishes \in Nat
    /\ MaxCrashes \in Nat /\ MaxFaults \in Nat
    /\ Faults \subseteq {"locked", "io", "processor"}

VARIABLES
    processor,  \* process -> its registered TurnProcessor for the session
    pc,         \* handler -> the step it is at
    call,       \* handler -> arguments and locals of the call it executes
    acked,      \* request -> the results process_turn has returned for it
    finished,   \* the session statuses finish_session has returned
    optedOut,   \* what became of the opt-outs mark_lead_dnc has returned
    spent       \* how much of each bound is used

vars == <<disk, txn, processor, pc, call, acked, finished, optedOut, spent>>

NoTurns == [r \in Requests |-> 0]

FreshProcessor == [covered |-> NoTurns, applied |-> NoTurns]

NoCall == [req |-> None, seq |-> 0, row |-> None, pre |-> None,
           status |-> "ACTIVE", snap |-> None, dnc |-> FALSE]

\* The row sessions.create leaves behind at bootstrap.
NewSession == [status |-> "ACTIVE", revision |-> 0, turn_count |-> 0,
               transcript |-> << >>]

\* Bootstrap has just committed in one process, which holds the processor.
Init ==
    /\ disk = [session |-> NewSession, snapshot |-> None,
               turns |-> [r \in Requests |-> None], queue |-> "IN_PROGRESS"]
    /\ txn = [p \in Processes |-> None]
    /\ \E first \in Processes :
          processor = [p \in Processes |->
                         IF p = first THEN FreshProcessor ELSE None]
    /\ pc = [w \in Workers |-> "idle"]
    /\ call = [w \in Workers |-> NoCall]
    /\ acked = [r \in Requests |-> {}]
    /\ finished = {}
    /\ optedOut = [open |-> {}, fates |-> {}]
    /\ spent = [sends |-> NoTurns, finishes |-> 0, crashes |-> 0, faults |-> 0]

------------------------------------------------------------------------------
Goto(w, step) == pc' = [pc EXCEPT ![w] = step]

\* The call ends, by a result or an exception: its locals are gone.
Return(w) ==
    /\ pc' = [pc EXCEPT ![w] = "idle"]
    /\ call' = [call EXCEPT ![w] = NoCall]

Injected(kind) ==
    /\ kind \in Faults
    /\ spent.faults < MaxFaults
    /\ spent' = [spent EXCEPT !.faults = @ + 1]

\* The end of p's unit of work decides over an opt-out written in it.
Settle(p, fate) ==
    optedOut' = IF p \in optedOut.open
                   THEN [open  |-> optedOut.open \ {p},
                         fates |-> optedOut.fates \cup {fate}]
                   ELSE optedOut

Bump(tally, r) == [tally EXCEPT ![r] = @ + 1]

\* SqliteChatSessionRepository.update's UPDATE ... WHERE revision = ?
\* The number of matched rows is not looked at.
UpdateWhere(db, revision, row) ==
    IF db.session.revision = revision THEN [db EXCEPT !.session = row] ELSE db

\* The except clause of process_turn.
RestoreCoverage(w) ==
    processor' = [processor EXCEPT ![Home[w]].covered = call[w].pre]

------------------------------------------------------------------------------
(* process_turn, from the route handler's read of the session to the reply *)

\* The HTTP or WebSocket route derives the next sequence number.
ReceiveTurn(w, r) ==
    /\ pc[w] = "idle"
    /\ spent.sends[r] < MaxSends
    /\ spent' = [spent EXCEPT !.sends[r] = @ + 1]
    /\ call' = [call EXCEPT ![w].req = r,
                            ![w].seq = View(Home[w]).session.turn_count + 1]
    /\ Goto(w, "lookup")
    /\ UNCHANGED <<disk, txn, processor, acked, finished, optedOut>>

Replay(w) ==
    LET r == call[w].req
        record == View(Home[w]).turns[r]
    IN  /\ pc[w] = "lookup"
        /\ record # None
        /\ acked' = [acked EXCEPT ![r] = @ \cup {record}]
        /\ Return(w)
        /\ UNCHANGED <<disk, txn, processor, finished, optedOut, spent>>

LookupMiss(w) ==
    /\ pc[w] = "lookup"
    /\ View(Home[w]).turns[call[w].req] = None
    /\ Goto(w, "read")
    /\ UNCHANGED <<disk, txn, processor, call, acked, finished, optedOut, spent>>

\* Mutants: the sequence, or the status, is not looked at.
AcceptsAnySequence(w) ==
    /\ View(Home[w]).session.status = "ACTIVE"
    /\ processor[Home[w]] # None

AcceptsClosed(w) ==
    /\ call[w].seq > View(Home[w]).session.turn_count
    /\ processor[Home[w]] # None

\* Every early StaleRevisionError: not ACTIVE, sequence used, no processor.
Accepts(w) ==
    /\ View(Home[w]).session.status = "ACTIVE"
    /\ call[w].seq > View(Home[w]).session.turn_count
    /\ processor[Home[w]] # None

RejectTurn(w) ==
    /\ pc[w] = "read"
    /\ ~Accepts(w)
    /\ Return(w)
    /\ UNCHANGED <<disk, txn, processor, acked, finished, optedOut, spent>>

ReadSession(w) ==
    /\ pc[w] = "read"
    /\ Accepts(w)
    /\ call' = [call EXCEPT ![w].row = View(Home[w]).session,
                            ![w].pre = processor[Home[w]].covered]
    /\ Goto(w, "process")
    /\ UNCHANGED <<disk, txn, processor, acked, finished, optedOut, spent>>

\* export_snapshot, rebound to the revision the commit is going to have.
Export(w, object) ==
    [revision |-> call[w].row.revision + 1,
     covered  |-> object.covered,
     applied  |-> object.applied]

\* processor.process_turn and its export, before any lock: no database access.
RunProcessor(w, terminal) ==
    LET p == Home[w]
        object == [covered |-> Bump(processor[p].covered, call[w].req),
                   applied |-> Bump(processor[p].applied, call[w].req)]
    IN  /\ pc[w] = "process"
        /\ processor' = [processor EXCEPT ![p] = object]
        /\ call' = [call EXCEPT
                      ![w].status = IF terminal THEN "COMPLETED" ELSE "ACTIVE",
                      ![w].snap = Export(w, object)]
        /\ Goto(w, "begin")
        /\ UNCHANGED <<disk, txn, acked, finished, optedOut, spent>>

\* It raises part of the way: the call is outside process_turn's try block.
ProcessorRaises(w) ==
    LET p == Home[w]
        r == call[w].req
    IN  /\ pc[w] = "process"
        /\ Injected("processor")
        /\ \E c \in {processor[p].covered, Bump(processor[p].covered, r)} :
              processor' = [processor EXCEPT ![p].covered = c,
                                             ![p].applied = Bump(@, r)]
        /\ Return(w)
        /\ UNCHANGED <<disk, txn, acked, finished, optedOut>>

BeginTurn(w) ==
    /\ pc[w] = "begin"
    /\ Begin(Home[w])
    /\ Goto(w, "check")
    /\ UNCHANGED <<processor, call, acked, finished, optedOut, spent>>

\* BEGIN raises: inside another thread's transaction, or busy for too long.
BeginRaises(w) ==
    /\ pc[w] = "begin"
    /\ \/ InTransaction(Home[w]) /\ UNCHANGED spent
       \/ ~LockFree(Home[w]) /\ Injected("locked")
    /\ RestoreCoverage(w)
    /\ Return(w)
    /\ UNCHANGED <<disk, txn, acked, finished, optedOut>>

\* Mutant: update does not compare revisions.
CheckNothing(w) ==
    /\ pc[w] = "check"
    /\ Goto(w, "write")
    /\ UNCHANGED <<disk, txn, processor, call, acked, finished, optedOut, spent>>

\* sessions.update re-reads the row and compares revisions.
CheckRevision(w) ==
    /\ pc[w] = "check"
    /\ View(Home[w]).session.revision = call[w].row.revision
    /\ Goto(w, "write")
    /\ UNCHANGED <<disk, txn, processor, call, acked, finished, optedOut, spent>>

StaleCommit(w) ==
    /\ pc[w] = "check"
    /\ View(Home[w]).session.revision # call[w].row.revision
    /\ Rollback(Home[w])
    /\ Settle(Home[w], "lost")
    /\ RestoreCoverage(w)
    /\ Return(w)
    /\ UNCHANGED <<acked, finished, spent>>

Committed(w) ==
    [status     |-> call[w].status,
     revision   |-> call[w].row.revision + 1,
     turn_count |-> call[w].seq,
     transcript |-> Append(call[w].row.transcript, call[w].req)]

\* Mutant: the stored record has no terminal flag.
TurnRecordUnflagged(w) ==
    [seq      |-> call[w].seq,
     revision |-> call[w].row.revision + 1]

TurnRecord(w) ==
    [seq      |-> call[w].seq,
     revision |-> call[w].row.revision + 1,
     terminal |-> call[w].status = "COMPLETED"]

\* Mutants: the snapshot is forgotten; the queue entry of bootstrap is saved back.
TurnWritesNoSnapshot(w, db) ==
    [UpdateWhere(db, call[w].row.revision, Committed(w)) EXCEPT
        !.turns[call[w].req] = TurnRecord(w)]

TurnWritesQueue(w, db) ==
    [UpdateWhere(db, call[w].row.revision, Committed(w)) EXCEPT
        !.snapshot = call[w].snap,
        !.turns[call[w].req] = TurnRecord(w),
        !.queue = "IN_PROGRESS"]

\* The session UPDATE, the snapshot and the idempotency row.
TurnWrites(w, db) ==
    [UpdateWhere(db, call[w].row.revision, Committed(w)) EXCEPT
        !.snapshot = call[w].snap,
        !.turns[call[w].req] = TurnRecord(w)]

\* The last INSERT may meet its primary key: then everything is rolled back.
WriteTurn(w) ==
    LET db == View(Home[w])
    IN  /\ pc[w] = "write"
        /\ IF db.turns[call[w].req] = None
              THEN /\ Write(Home[w], TurnWrites(w, db))
                   /\ Goto(w, "commit")
                   /\ UNCHANGED <<processor, call, optedOut>>
              ELSE /\ Rollback(Home[w])
                   /\ Settle(Home[w], "lost")
                   /\ RestoreCoverage(w)
                   /\ Return(w)
        /\ UNCHANGED <<acked, finished, spent>>

CommitTurn(w) ==
    /\ pc[w] = "commit"
    /\ Commit(Home[w])
    /\ Settle(Home[w], "kept")
    /\ Goto(w, "reply")
    /\ UNCHANGED <<processor, call, acked, finished, spent>>

\* The client gets the result, unless the process died after COMMIT.
Reply(w) ==
    /\ pc[w] = "reply"
    /\ acked' = [acked EXCEPT ![call[w].req] = @ \cup {TurnRecord(w)}]
    /\ Return(w)
    /\ UNCHANGED <<disk, txn, processor, finished, optedOut, spent>>

\* Mutant: a failed COMMIT is rolled back but reported as a success.
CommitErrorSwallowed(w) ==
    /\ pc[w] = "commit"
    /\ Injected("io")
    /\ Rollback(Home[w])
    /\ Settle(Home[w], "lost")
    /\ Goto(w, "reply")
    /\ UNCHANGED <<processor, call, acked, finished>>

\* COMMIT, or a statement before it, fails in the database.
CommitRaises(w) ==
    /\ pc[w] = "commit"
    /\ Injected("io")
    /\ Rollback(Home[w])
    /\ Settle(Home[w], "lost")
    /\ RestoreCoverage(w)
    /\ Return(w)
    /\ UNCHANGED <<acked, finished>>

------------------------------------------------------------------------------
(* finish_session: every statement in autocommit *)

StartFinish(w, status, dnc) ==
    LET row == View(Home[w]).session
    IN  /\ pc[w] = "idle"
        /\ spent.finishes < MaxFinishes
        /\ spent' = [spent EXCEPT !.finishes = @ + 1]
        /\ call' = [call EXCEPT ![w].row = row, ![w].status = status,
                                ![w].dnc = dnc]
        /\ Goto(w, IF row.status = "ACTIVE" THEN "finish_check"
                                            ELSE "finish_dnc")
        /\ UNCHANGED <<disk, txn, processor, acked, finished, optedOut>>

\* sessions.update compares; on StaleRevisionError finish takes the new row.
CheckFinish(w) ==
    LET current == View(Home[w]).session
    IN  /\ pc[w] = "finish_check"
        /\ \/ /\ current.revision = call[w].row.revision
              /\ Goto(w, "finish_write")
              /\ UNCHANGED call
           \/ /\ current.revision # call[w].row.revision
              /\ Goto(w, "finish_dnc")
              /\ call' = [call EXCEPT ![w].row = current]
        /\ UNCHANGED <<disk, txn, processor, acked, finished, optedOut, spent>>

Closed(w) == [call[w].row EXCEPT !.status = call[w].status, !.revision = @ + 1]

WriteFinish(w) ==
    LET p == Home[w]
    IN  /\ pc[w] = "finish_write"
        /\ Write(p, UpdateWhere(View(p), call[w].row.revision, Closed(w)))
        /\ call' = [call EXCEPT ![w].row = Closed(w)]
        /\ Goto(w, "finish_dnc")
        /\ UNCHANGED <<processor, acked, finished, optedOut, spent>>

FinishRaises(w) ==
    /\ pc[w] = "finish_write"
    /\ ~LockFree(Home[w])
    /\ Injected("locked")
    /\ Return(w)
    /\ UNCHANGED <<disk, txn, processor, acked, finished, optedOut>>

\* mark_lead_dnc has returned: its UPDATE stands by itself, or is part of the
\* transaction another thread has open on the connection.
OptedOut(p) ==
    optedOut' = IF InTransaction(p)
                   THEN [optedOut EXCEPT !.open = @ \cup {p}]
                   ELSE [optedOut EXCEPT !.fates = @ \cup {"kept"}]

\* The result carries the row finish believes current.
EndFinish(w) ==
    /\ pc[w] = "finish_dnc"
    /\ \/ ~call[w].dnc /\ UNCHANGED <<disk, txn, optedOut, spent>>
       \/ /\ call[w].dnc
          /\ Write(Home[w], [View(Home[w]) EXCEPT !.queue = "DNC"])
          /\ OptedOut(Home[w])
          /\ UNCHANGED spent
       \/ /\ call[w].dnc                   \* mark_lead_dnc raised: swallowed
          /\ ~LockFree(Home[w])
          /\ Injected("locked")
          /\ UNCHANGED <<disk, txn, optedOut>>
    /\ finished' = finished \cup {call[w].row.status}
    /\ Return(w)
    /\ UNCHANGED <<processor, acked>>

------------------------------------------------------------------------------
(* Crash and recovery *)

\* SessionRecoveryService.recover on a database content.
RecoveryStatus(db) ==
    IF db.session.status # "ACTIVE" THEN "RECOVERED_TERMINAL"
    ELSE IF db.queue \notin {"IN_PROGRESS", "DNC"} THEN "ORPHANED_QUEUE_STATE"
    ELSE IF db.session.turn_count = 0 THEN "RECOVERED_FRESH"
    ELSE IF db.snapshot = None THEN "RUNTIME_SNAPSHOT_MISSING"
    ELSE "RECOVERED_ACTIVE"

\* restore_processor_if_possible, called by the process that has none.
RestoreProcessor(p) ==
    LET db == View(p)
    IN  /\ processor[p] = None
        /\ \/ /\ RecoveryStatus(db) = "RECOVERED_FRESH"
              /\ processor' = [processor EXCEPT ![p] = FreshProcessor]
           \/ /\ RecoveryStatus(db) = "RECOVERED_ACTIVE"
              /\ processor' = [processor EXCEPT ![p] =
                    [covered |-> db.snapshot.covered,
                     applied |-> db.snapshot.applied]]
        /\ UNCHANGED <<disk, txn, pc, call, acked, finished, optedOut, spent>>

\* The process dies: open transaction, handlers and processor are lost.
Crash(p) ==
    /\ spent.crashes < MaxCrashes
    /\ spent' = [spent EXCEPT !.crashes = @ + 1]
    /\ Rollback(p)
    /\ Settle(p, "lost")
    /\ processor' = [processor EXCEPT ![p] = None]
    /\ pc' = [w \in Workers |-> IF Home[w] = p THEN "idle" ELSE pc[w]]
    /\ call' = [w \in Workers |-> IF Home[w] = p THEN NoCall ELSE call[w]]
    /\ UNCHANGED <<acked, finished>>

------------------------------------------------------------------------------
\* What a handler does once it has a call, without injected failures.
Continue(w) ==
    \/ Replay(w) \/ LookupMiss(w) \/ RejectTurn(w) \/ ReadSession(w)
    \/ \E terminal \in BOOLEAN : RunProcessor(w, terminal)
    \/ BeginTurn(w) \/ CheckRevision(w) \/ StaleCommit(w)
    \/ WriteTurn(w) \/ CommitTurn(w) \/ Reply(w)
    \/ CheckFinish(w) \/ WriteFinish(w) \/ EndFinish(w)

Fail(w) ==
    \/ ProcessorRaises(w) \/ BeginRaises(w)
    \/ CommitRaises(w) \/ FinishRaises(w)

Arrive(w) ==
    \/ \E r \in Requests : ReceiveTurn(w, r)
    \/ \E status \in {"COMPLETED", "ERROR"}, dnc \in BOOLEAN :
          StartFinish(w, status, dnc)

Next ==
    \/ \E w \in Workers : Arrive(w) \/ Continue(w) \/ Fail(w)
    \/ \E p \in Processes : RestoreProcessor(p) \/ Crash(p)

Spec == Init /\ [][Next]_vars

\* Threads keep running; nothing makes a fault, a crash or a client happen.
FairSpec == Spec /\ \A w \in Workers : WF_vars(Continue(w))

------------------------------------------------------------------------------
\* Every variable keeps its type: rows, snapshots and locals are well formed.
TypeOK ==
    /\ disk \in Databases
    /\ txn \in [Processes -> Databases \cup {None}]
    /\ processor \in [Processes -> Processors \cup {None}]
    /\ pc \in [Workers -> Steps]
    /\ call \in [Workers -> Calls]
    /\ acked \in [Requests -> SUBSET TurnRecords]
    /\ finished \in SUBSET Statuses
    /\ optedOut \in OptOuts
    /\ spent \in [sends : Tallies, finishes : Nat, crashes : Nat, faults : Nat]

LogExact(db) ==
    LET s == db.session
    IN  /\ s.turn_count = Len(s.transcript)
        /\ \A i \in 1 .. Len(s.transcript) :
              /\ db.turns[s.transcript[i]] # None
              /\ db.turns[s.transcript[i]].seq = i
        /\ \A r \in Requests : db.turns[r] # None =>
              /\ db.turns[r].seq \in 1 .. Len(s.transcript)
              /\ s.transcript[db.turns[r].seq] = r

\* The idempotency rows and the transcript are two records of one history: the
\* k-th turn in the transcript has a row saying k, every row is in the transcript
\* and turn_count is its length.  A turn is thus committed at most once, however
\* often its request is retried, and wholly or not at all.
TurnLogExact == LogExact(disk)

\* Whatever process_turn has answered is what the file says, now and after any
\* crash: a retry of the request is answered the same.
AckedTurnsDurable ==
    \A r \in Requests : \A answer \in acked[r] : disk.turns[r] = answer

\* How often each request is part of the committed history.
CommittedTally == [r \in Requests |-> IF disk.turns[r] = None THEN 0 ELSE 1]

\* A session can be picked up from the file at any instant.  While it is ACTIVE
\* and has turns, its snapshot is the one its last turn exported, at its own
\* revision; a turn the client was told ended the conversation is the last one
\* and closed the row with it, so that nobody resumes an ended call; and without
\* injected failures the discussion coverage it is resumed with counts no turn
\* that lost its race for the row (persistent_runtime.py:413-477, recovery.py).
Resumable ==
    /\ RecoveryStatus(disk) \in
          {"RECOVERED_TERMINAL", "RECOVERED_FRESH", "RECOVERED_ACTIVE"}
    /\ RecoveryStatus(disk) = "RECOVERED_ACTIVE" =>
          disk.snapshot.revision = disk.session.revision
    /\ \A r \in Requests :
          disk.turns[r] # None /\ disk.turns[r].terminal =>
              /\ disk.session.status = "COMPLETED"
              /\ disk.turns[r].seq = Len(disk.session.transcript)
    /\ disk.snapshot # None /\ spent.faults = 0 =>
          \A r \in Requests : disk.snapshot.covered[r] <= CommittedTally[r]

\* Threads on one connection, whatever the turns around it do: an opt-out that was
\* written by itself, or in the transaction of a turn that went through, is in the
\* file for good, though that turn and later ones began with a copy from before it;
\* one whose transaction is still open will be published with it.  Nothing but the
\* rollback of the transaction it was written in takes it back.
OptOutDurable ==
    /\ "kept" \in optedOut.fates => disk.queue = "DNC"
    /\ \A p \in optedOut.open : InTransaction(p) /\ txn[p].queue = "DNC"

\* Once finish_session has reported a session as ended, the public view of it
\* reflects the terminal state (persistent_runtime.py:613-617).
FinishIsSeen == finished \ {"ACTIVE"} # {} => disk.session.status # "ACTIVE"

\* A closed session is never written again, whoever still holds its old row.
ClosedIsFinal ==
    [][disk.session.status # "ACTIVE" =>
          /\ disk'.session = disk.session
          /\ disk'.turns = disk.turns
          /\ disk'.snapshot = disk.snapshot]_vars

\* No lost update: each published change of the session row is one revision
\* further and extends the transcript of the row it replaces.
RevisionsLinear ==
    [][disk'.session # disk.session =>
          /\ disk'.session.revision = disk.session.revision + 1
          /\ SubSeq(disk'.session.transcript, 1, Len(disk.session.transcript))
                = disk.session.transcript]_vars

\* Every request handler comes back, whatever the others do to the lock.
HandlersReturn == \A w \in Workers : pc[w] # "idle" ~> pc[w] = "idle"

------------------------------------------------------------------------------
Promise == INSTANCE DurableSession WITH
    log    <- disk.session.transcript,
    status <- disk.session.status,
    dnc    <- disk.queue = "DNC",
    told   <- UNION {{<<r, answer.seq>> : answer \in acked[r]} : r \in Requests}

\* The session as its clients see it is the durable session promised.
DurableSessionPromise == Promise!SSpec
=============================================================================
