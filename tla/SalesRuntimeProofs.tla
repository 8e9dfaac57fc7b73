------------------------- MODULE SalesRuntimeProofs -------------------------
(* Theorems about SalesRuntime, for every value of its constants: its types,  *)
(* the turn log, that it implements DurableSession, that an opt-out lasts and *)
(* that a session can be resumed from the file at any instant.                *)
EXTENDS SalesRuntime, SequenceTheorems, TLAPS

TurnSteps == {"lookup", "read", "process", "begin", "check", "write", "commit",
              "reply"}

RunningSteps == {"process", "begin", "check", "write", "commit"}

RowSteps == RunningSteps \cup {"reply", "finish_check", "finish_write",
                               "finish_dnc"}

\* A handler has the locals the code has assigned by the step it is at, and the
\* processor it runs is still registered.
LocalsOK ==
    \A w \in Workers :
        /\ pc[w] \in TurnSteps => call[w].req \in Requests
        /\ pc[w] \in RowSteps => call[w].row \in Sessions
        /\ pc[w] \in RunningSteps =>
              call[w].pre \in Tallies /\ processor[Home[w]] \in Processors

TypeInv == TypeOK /\ LocalsOK

\* What a SELECT returns is a database content.
LEMMA ViewType ==
    ASSUME TypeOK, NEW p \in Processes
    PROVE  View(p) \in Databases
  BY DEF TypeOK, View, InTransaction

\* The state bootstrap leaves behind is well typed.
LEMMA InitType == Init => TypeInv
<1> SUFFICES ASSUME Init PROVE TypeInv
  OBVIOUS
<1> USE BoundsAssumption, HomeAssumption DEF Init
<1>1. NoTurns \in Tallies
  BY DEF NoTurns, Tallies
<1>2. FreshProcessor \in Processors
  BY <1>1 DEF FreshProcessor, Processors
<1>3. NewSession \in Sessions
  BY DEF NewSession, Sessions, Statuses
<1>4. disk \in Databases
  BY <1>3 DEF Databases
<1>5. NoCall \in Calls
  BY DEF NoCall, Calls, Statuses
<1>6. TypeOK
  BY <1>1, <1>2, <1>4, <1>5 DEF TypeOK, Steps, Statuses, OptOuts
<1>7. LocalsOK
  BY DEF LocalsOK, TurnSteps, RowSteps, RunningSteps
<1> QED
  BY <1>6, <1>7 DEF TypeInv

\* The statements and transactions keep the file and the units of work well formed.
LEMMA WriteType ==
    ASSUME TypeOK, NEW p \in Processes, NEW db \in Databases, Write(p, db)
    PROVE  disk' \in Databases /\ txn' \in [Processes -> Databases \cup {None}]
  BY DEF TypeOK, Write

\* BEGIN, COMMIT and ROLLBACK keep disk and txn well typed.
LEMMA TransactionType ==
    ASSUME TypeOK, NEW p \in Processes, Begin(p) \/ Commit(p) \/ Rollback(p)
    PROVE  disk' \in Databases /\ txn' \in [Processes -> Databases \cup {None}]
  BY DEF TypeOK, Begin, Commit, Rollback, InTransaction

\* The end of a unit of work settles an opt-out as kept or lost.
LEMMA SettleType ==
    ASSUME TypeOK, NEW p \in Processes, Settle(p, "kept") \/ Settle(p, "lost")
    PROVE  optedOut' \in OptOuts
  BY DEF TypeOK, Settle, OptOuts

\* A well-formed row written where its revision matches keeps a database well formed.
LEMMA UpdateWhereType ==
    ASSUME NEW db \in Databases, NEW revision \in Nat, NEW row \in Sessions
    PROVE  UpdateWhere(db, revision, row) \in Databases
  BY DEF UpdateWhere, Databases

\* What a turn exports, commits and records is well formed.
LEMMA TurnDataType ==
    ASSUME TypeInv, NEW w \in Workers, pc[w] \in RunningSteps
    PROVE  /\ \A object \in Processors : Export(w, object) \in Snapshots
           /\ Committed(w) \in Sessions
           /\ TurnRecord(w) \in TurnRecords
<1> USE DEF TypeInv, LocalsOK, TypeOK, RowSteps
<1>1. call[w] \in Calls /\ call[w].row \in Sessions /\ call[w].req \in Requests
  BY DEF RunningSteps, TurnSteps
<1>2. \A object \in Processors : Export(w, object) \in Snapshots
  BY <1>1 DEF Export, Snapshots, Processors, Sessions
<1>3. Committed(w) \in Sessions
  BY <1>1 DEF Committed, Sessions, Calls
<1>4. TurnRecord(w) \in TurnRecords
  BY <1>1 DEF TurnRecord, TurnRecords, Calls, Sessions
<1> QED
  BY <1>2, <1>3, <1>4

\* What a turn writes into a database is a database.
LEMMA TurnWritesType ==
    ASSUME TypeInv, NEW w \in Workers, pc[w] \in RunningSteps, NEW db \in Databases
    PROVE  TurnWrites(w, db) \in Databases
<1>1. Committed(w) \in Sessions /\ TurnRecord(w) \in TurnRecords
  BY TurnDataType DEF RunningSteps
<1>2. call[w].row.revision \in Nat /\ call[w].req \in Requests
      /\ call[w].snap \in Snapshots \cup {None}
  BY DEF TypeInv, TypeOK, LocalsOK, RunningSteps, RowSteps, TurnSteps, Sessions, Calls
<1>3. UpdateWhere(db, call[w].row.revision, Committed(w)) \in Databases
  BY <1>1, <1>2, UpdateWhereType
<1> QED
  BY <1>1, <1>2, <1>3 DEF TurnWrites, Databases

\* What finish writes into a database is a database.
LEMMA FinishWritesType ==
    ASSUME TypeInv, NEW w \in Workers, WriteFinish(w), NEW db \in Databases
    PROVE  /\ Closed(w) \in Sessions
           /\ UpdateWhere(db, call[w].row.revision, Closed(w)) \in Databases
<1>0. TypeOK /\ call[w] \in Calls
  BY DEF TypeInv, TypeOK
<1>1. call[w].row \in Sessions
  BY DEF WriteFinish, TypeInv, LocalsOK, RowSteps
<1>2. Closed(w) \in Sessions /\ call[w].row.revision \in Nat
  <2>1. call[w].status \in Statuses
    BY <1>0 DEF Calls
  <2>2. Closed(w) = [call[w].row EXCEPT !.status = call[w].status,
                                        !.revision = call[w].row.revision + 1]
    BY DEF Closed
  <2>3. call[w].row.revision \in Nat /\ call[w].row.revision + 1 \in Nat
    BY <1>1 DEF Sessions
  <2> DEFINE row == call[w].row
             status == call[w].status
             n == row.revision + 1
  <2>5. Closed(w) = [row EXCEPT !.status = status, !.revision = n]
    BY <2>2
  <2>6. row \in Sessions /\ status \in Statuses /\ n \in Nat
    BY <1>1, <2>1, <2>3
  <2> HIDE DEF row, status, n
  <2>7. [row EXCEPT !.status = status, !.revision = n] \in Sessions
    BY <2>6 DEF Sessions
  <2> QED
    BY <2>3, <2>5, <2>7
<1> QED
  BY <1>2, UpdateWhereType

\* A handler returns to idle, its locals gone.
LEMMA ReturnLocals ==
    ASSUME TypeInv, NEW w \in Workers, Return(w),
           processor' \in [Processes -> Processors \cup {None}],
           \A p \in Processes : processor[p] \in Processors => processor'[p] \in Processors
    PROVE  /\ pc' \in [Workers -> Steps] /\ call' \in [Workers -> Calls]
           /\ LocalsOK'
<1> USE DEF TypeInv, TypeOK
<1>1. NoCall \in Calls
  BY DEF NoCall, Calls, Statuses
<1>2. pc' \in [Workers -> Steps] /\ call' \in [Workers -> Calls]
  BY <1>1 DEF Return, Steps
<1>3. LocalsOK'
  <2> SUFFICES ASSUME NEW v \in Workers
               PROVE  /\ pc'[v] \in TurnSteps => call'[v].req \in Requests
                      /\ pc'[v] \in RowSteps => call'[v].row \in Sessions
                      /\ pc'[v] \in RunningSteps =>
                            call'[v].pre \in Tallies /\ processor'[Home[v]] \in Processors
    BY DEF LocalsOK
  <2>1. Home[v] \in Processes
    BY HomeAssumption
  <2>2. CASE v = w
    BY <2>2 DEF Return, TurnSteps, RowSteps, RunningSteps
  <2>3. CASE v # w
    BY <2>1, <2>3 DEF Return, LocalsOK
  <2> QED
    BY <2>2, <2>3
<1> QED
  BY <1>2, <1>3

\* A handler goes on to a step whose locals it holds.
LEMMA GotoLocals ==
    ASSUME TypeInv, NEW w \in Workers, NEW step \in Steps, Goto(w, step),
           call' \in [Workers -> Calls],
           \A v \in Workers : v # w => call'[v] = call[v],
           processor' \in [Processes -> Processors \cup {None}],
           \A p \in Processes : processor[p] \in Processors => processor'[p] \in Processors,
           step \in TurnSteps => call'[w].req \in Requests,
           step \in RowSteps => call'[w].row \in Sessions,
           step \in RunningSteps =>
               call'[w].pre \in Tallies /\ processor'[Home[w]] \in Processors
    PROVE  pc' \in [Workers -> Steps] /\ LocalsOK'
<1> USE DEF TypeInv, TypeOK
<1>1. pc' \in [Workers -> Steps]
  BY DEF Goto
<1>2. SUFFICES ASSUME NEW v \in Workers
               PROVE  /\ pc'[v] \in TurnSteps => call'[v].req \in Requests
                      /\ pc'[v] \in RowSteps => call'[v].row \in Sessions
                      /\ pc'[v] \in RunningSteps =>
                            call'[v].pre \in Tallies /\ processor'[Home[v]] \in Processors
  BY <1>1 DEF LocalsOK
<1>3. Home[v] \in Processes
  BY HomeAssumption
<1>4. CASE v = w
  BY <1>4 DEF Goto
<1>5. CASE v # w
  BY <1>3, <1>5 DEF Goto, LocalsOK
<1> QED
  BY <1>4, <1>5

\* One execution more of a request leaves a tally a tally.
LEMMA BumpType ==
    ASSUME NEW tally \in Tallies, NEW r \in Requests
    PROVE  Bump(tally, r) \in Tallies
  BY DEF Bump, Tallies

\* The steps of process_turn before its transaction.
LEMMA TurnBeginsType ==
    ASSUME TypeInv, NEW w \in Workers,
           \/ \E r \in Requests : ReceiveTurn(w, r)
           \/ Replay(w) \/ LookupMiss(w) \/ RejectTurn(w) \/ ReadSession(w)
           \/ \E terminal \in BOOLEAN : RunProcessor(w, terminal)
           \/ ProcessorRaises(w)
    PROVE  TypeInv'
<1> USE HomeAssumption
<1>0. Home[w] \in Processes /\ View(Home[w]) \in Databases /\ TypeOK
      /\ call[w] \in Calls
  BY ViewType DEF TypeInv, TypeOK
<1>1. ASSUME NEW r \in Requests, ReceiveTurn(w, r) PROVE TypeInv'
  <2>1. View(Home[w]).session.turn_count + 1 \in Nat
    BY <1>0 DEF Databases, Sessions
  <2>2. call' \in [Workers -> Calls] /\ call'[w].req = r
    BY <1>0, <1>1, <2>1 DEF ReceiveTurn, Calls, TypeOK
  <2>3. pc' \in [Workers -> Steps] /\ LocalsOK'
    BY <1>0, <1>1, <2>2, GotoLocals
       DEF ReceiveTurn, Steps, RowSteps, RunningSteps, TypeInv, TypeOK
  <2>4. spent' \in [sends : Tallies, finishes : Nat, crashes : Nat, faults : Nat]
    <3>1. spent' = [spent EXCEPT !.sends = Bump(spent.sends, r)]
      BY <1>1 DEF ReceiveTurn, Bump
    <3>2. Bump(spent.sends, r) \in Tallies
      BY <1>0, BumpType DEF TypeOK
    <3> QED
      BY <1>0, <3>1, <3>2 DEF TypeOK
  <2> QED
    BY <1>0, <1>1, <2>2, <2>3, <2>4 DEF ReceiveTurn, TypeInv, TypeOK
<1>2. CASE Replay(w)
  <2>1. call[w].req \in Requests
    BY <1>2 DEF Replay, TypeInv, LocalsOK, TurnSteps
  <2>2. View(Home[w]).turns[call[w].req] \in TurnRecords
    BY <1>0, <1>2, <2>1 DEF Replay, Databases
  <2>3. acked' \in [Requests -> SUBSET TurnRecords]
    BY <1>0, <1>2, <2>1, <2>2 DEF Replay, TypeOK
  <2> QED
    BY <1>0, <1>2, <2>3, ReturnLocals DEF Replay, TypeInv, TypeOK
<1>3. CASE LookupMiss(w)
  BY <1>0, <1>3, GotoLocals
     DEF LookupMiss, TypeInv, TypeOK, LocalsOK, TurnSteps, RowSteps, RunningSteps, Steps
<1>4. CASE RejectTurn(w)
  BY <1>0, <1>4, ReturnLocals DEF RejectTurn, TypeInv, TypeOK
<1>5. CASE ReadSession(w)
  <2>1. View(Home[w]).session \in Sessions /\ call[w].req \in Requests
    BY <1>0, <1>5 DEF Databases, ReadSession, TypeInv, LocalsOK, TurnSteps
  <2>2. processor[Home[w]] \in Processors /\ processor[Home[w]].covered \in Tallies
    BY <1>0, <1>5 DEF ReadSession, Accepts, TypeOK, Processors
  <2>3. call' \in [Workers -> Calls] /\ call'[w].req = call[w].req
        /\ call'[w].row \in Sessions /\ call'[w].pre \in Tallies
    BY <1>0, <1>5, <2>1, <2>2 DEF ReadSession, Calls, TypeOK
  <2>4. pc' \in [Workers -> Steps] /\ LocalsOK'
    BY <1>0, <1>5, <2>1, <2>2, <2>3, GotoLocals DEF ReadSession, Steps, TypeInv, TypeOK
  <2> QED
    BY <1>0, <1>5, <2>3, <2>4 DEF ReadSession, TypeInv, TypeOK
<1>6. ASSUME NEW terminal \in BOOLEAN, RunProcessor(w, terminal) PROVE TypeInv'
  <2>1. call[w].req \in Requests /\ call[w].row \in Sessions /\ call[w].pre \in Tallies
        /\ processor[Home[w]] \in Processors
    BY <1>6 DEF RunProcessor, TypeInv, LocalsOK, TurnSteps, RowSteps, RunningSteps
  <2> DEFINE object == [covered |-> Bump(processor[Home[w]].covered, call[w].req),
                        applied |-> Bump(processor[Home[w]].applied, call[w].req)]
  <2>2. object \in Processors
    BY <2>1, BumpType DEF Processors
  <2>3. Export(w, object) \in Snapshots
    BY <1>6, <2>2, TurnDataType DEF RunProcessor, RunningSteps
  <2>4. processor' = [processor EXCEPT ![Home[w]] = object] /\ Goto(w, "begin")
        /\ call' = [call EXCEPT ![w].status = IF terminal THEN "COMPLETED" ELSE "ACTIVE",
                                ![w].snap = Export(w, object)]
    BY <1>6 DEF RunProcessor
  <2>5. /\ processor' \in [Processes -> Processors \cup {None}]
        /\ processor'[Home[w]] \in Processors
        /\ \A p \in Processes : processor[p] \in Processors => processor'[p] \in Processors
    <3> HIDE DEF object
    <3> QED
      BY <1>0, <2>2, <2>4 DEF TypeOK
  <2>6. /\ call' \in [Workers -> Calls] /\ call'[w].req = call[w].req
        /\ call'[w].row = call[w].row /\ call'[w].pre = call[w].pre
        /\ \A v \in Workers : v # w => call'[v] = call[v]
    <3> HIDE DEF object
    <3> QED
      BY <1>0, <2>3, <2>4 DEF Calls, Statuses, TypeOK
  <2>7. pc' \in [Workers -> Steps] /\ LocalsOK'
    BY <2>1, <2>4, <2>5, <2>6, GotoLocals DEF Steps
  <2> QED
    BY <1>0, <1>6, <2>5, <2>6, <2>7 DEF RunProcessor, TypeInv, TypeOK
<1>7. CASE ProcessorRaises(w)
  <2>1. call[w].req \in Requests /\ processor[Home[w]] \in Processors
    BY <1>7 DEF ProcessorRaises, TypeInv, LocalsOK, TurnSteps, RowSteps, RunningSteps
  <2>2. PICK c \in {processor[Home[w]].covered,
                    Bump(processor[Home[w]].covered, call[w].req)} :
               processor' = [processor EXCEPT ![Home[w]].covered = c,
                                              ![Home[w]].applied = Bump(@, call[w].req)]
    BY <1>7 DEF ProcessorRaises
  <2>3. c \in Tallies
    BY <2>1, <2>2, BumpType DEF Processors
  <2>4. processor' \in [Processes -> Processors \cup {None}]
        /\ processor'[Home[w]] \in Processors
    <3>1. Bump(processor[Home[w]].applied, call[w].req) \in Tallies
      BY <2>1, BumpType DEF Processors
    <3> QED
      BY <1>0, <2>1, <2>2, <2>3, <3>1 DEF Processors, TypeOK
  <2>5. \A p \in Processes : processor[p] \in Processors => processor'[p] \in Processors
    BY <1>0, <2>2, <2>4 DEF TypeOK
  <2>6. spent' \in [sends : Tallies, finishes : Nat, crashes : Nat, faults : Nat]
    BY <1>0, <1>7 DEF ProcessorRaises, Injected, TypeOK
  <2>7. pc' \in [Workers -> Steps] /\ call' \in [Workers -> Calls] /\ LocalsOK'
    BY <1>0, <1>7, <2>4, <2>5, ReturnLocals DEF ProcessorRaises
  <2> QED
    BY <1>0, <1>7, <2>4, <2>6, <2>7 DEF ProcessorRaises, TypeInv, TypeOK
<1> QED
  BY <1>1, <1>2, <1>3, <1>4, <1>5, <1>6, <1>7

\* The except clause puts well-formed coverage back.
LEMMA RestoreCoverageType ==
    ASSUME TypeInv, NEW w \in Workers, pc[w] \in RunningSteps, RestoreCoverage(w)
    PROVE  /\ processor' \in [Processes -> Processors \cup {None}]
           /\ \A p \in Processes : processor[p] \in Processors => processor'[p] \in Processors
<1>1. call[w].pre \in Tallies /\ processor[Home[w]] \in Processors
      /\ Home[w] \in Processes
  BY HomeAssumption DEF TypeInv, LocalsOK
<1> QED
  BY <1>1 DEF RestoreCoverage, TypeInv, TypeOK, Processors

\* The transaction of process_turn, its reply and its failures.
LEMMA TurnCommitsType ==
    ASSUME TypeInv, NEW w \in Workers,
           \/ BeginTurn(w) \/ BeginRaises(w) \/ CheckRevision(w) \/ StaleCommit(w)
           \/ WriteTurn(w) \/ CommitTurn(w) \/ Reply(w) \/ CommitRaises(w)
    PROVE  TypeInv'
<1> USE HomeAssumption
<1>0. Home[w] \in Processes /\ View(Home[w]) \in Databases /\ TypeOK
      /\ call[w] \in Calls
  BY ViewType DEF TypeInv, TypeOK
<1>1. CASE BeginTurn(w)
  <2>1. pc' \in [Workers -> Steps] /\ LocalsOK'
    BY <1>0, <1>1, GotoLocals
       DEF BeginTurn, TypeInv, TypeOK, LocalsOK, TurnSteps, RowSteps, RunningSteps, Steps
  <2> QED
    BY <1>0, <1>1, <2>1, TransactionType DEF BeginTurn, TypeInv, TypeOK
<1>2. CASE BeginRaises(w)
  <2>1. pc' \in [Workers -> Steps] /\ call' \in [Workers -> Calls] /\ LocalsOK'
        /\ processor' \in [Processes -> Processors \cup {None}]
    BY <1>2, RestoreCoverageType, ReturnLocals DEF BeginRaises, RunningSteps
  <2>2. spent' \in [sends : Tallies, finishes : Nat, crashes : Nat, faults : Nat]
    BY <1>0, <1>2 DEF BeginRaises, Injected, TypeOK
  <2> QED
    BY <1>0, <1>2, <2>1, <2>2 DEF BeginRaises, TypeInv, TypeOK
<1>3. CASE CheckRevision(w)
  BY <1>0, <1>3, GotoLocals
     DEF CheckRevision, TypeInv, TypeOK, LocalsOK, TurnSteps, RowSteps, RunningSteps, Steps
<1>4. CASE StaleCommit(w)
  <2>1. pc' \in [Workers -> Steps] /\ call' \in [Workers -> Calls] /\ LocalsOK'
        /\ processor' \in [Processes -> Processors \cup {None}]
    BY <1>4, RestoreCoverageType, ReturnLocals DEF StaleCommit, RunningSteps
  <2> QED
    BY <1>0, <1>4, <2>1, TransactionType, SettleType DEF StaleCommit, TypeInv, TypeOK
<1>5. CASE WriteTurn(w)
  <2>1. CASE View(Home[w]).turns[call[w].req] = None
    <3>1. Write(Home[w], TurnWrites(w, View(Home[w]))) /\ Goto(w, "commit")
          /\ UNCHANGED <<processor, call, optedOut>>
      BY <1>5, <2>1 DEF WriteTurn
    <3>2. disk' \in Databases /\ txn' \in [Processes -> Databases \cup {None}]
      BY <1>0, <1>5, <3>1, TurnWritesType, WriteType DEF WriteTurn, RunningSteps
    <3>3. pc' \in [Workers -> Steps] /\ LocalsOK'
      BY <1>0, <1>5, <3>1, GotoLocals
         DEF WriteTurn, TypeInv, TypeOK, LocalsOK, TurnSteps, RowSteps, RunningSteps, Steps
    <3> QED
      BY <1>0, <1>5, <3>1, <3>2, <3>3 DEF WriteTurn, TypeInv, TypeOK
  <2>2. CASE View(Home[w]).turns[call[w].req] # None
    <3>1. Rollback(Home[w]) /\ Settle(Home[w], "lost") /\ RestoreCoverage(w) /\ Return(w)
      BY <1>5, <2>2 DEF WriteTurn
    <3>2. pc' \in [Workers -> Steps] /\ call' \in [Workers -> Calls] /\ LocalsOK'
          /\ processor' \in [Processes -> Processors \cup {None}]
      BY <1>5, <3>1, RestoreCoverageType, ReturnLocals DEF WriteTurn, RunningSteps
    <3> QED
      BY <1>0, <1>5, <3>1, <3>2, TransactionType, SettleType DEF WriteTurn, TypeInv, TypeOK
  <2> QED
    BY <2>1, <2>2
<1>6. CASE CommitTurn(w)
  <2>1. pc' \in [Workers -> Steps] /\ LocalsOK'
    BY <1>0, <1>6, GotoLocals
       DEF CommitTurn, TypeInv, TypeOK, LocalsOK, TurnSteps, RowSteps, RunningSteps, Steps
  <2> QED
    BY <1>0, <1>6, <2>1, TransactionType, SettleType DEF CommitTurn, TypeInv, TypeOK
<1>7. CASE Reply(w)
  <2>1. call[w].req \in Requests /\ call[w].row \in Sessions
    BY <1>7 DEF Reply, TypeInv, LocalsOK, TurnSteps, RowSteps
  <2>2. TurnRecord(w) \in TurnRecords
    BY <1>0, <2>1 DEF TurnRecord, TurnRecords, Calls, Sessions
  <2>3. acked' \in [Requests -> SUBSET TurnRecords]
    BY <1>0, <1>7, <2>1, <2>2 DEF Reply, TypeOK
  <2>4. pc' \in [Workers -> Steps] /\ call' \in [Workers -> Calls] /\ LocalsOK'
    BY <1>0, <1>7, ReturnLocals DEF Reply, TypeOK
  <2> QED
    BY <1>0, <1>7, <2>3, <2>4 DEF Reply, TypeInv, TypeOK
<1>8. CASE CommitRaises(w)
  <2>1. pc' \in [Workers -> Steps] /\ call' \in [Workers -> Calls] /\ LocalsOK'
        /\ processor' \in [Processes -> Processors \cup {None}]
    BY <1>8, RestoreCoverageType, ReturnLocals DEF CommitRaises, RunningSteps
  <2>2. spent' \in [sends : Tallies, finishes : Nat, crashes : Nat, faults : Nat]
    BY <1>0, <1>8 DEF CommitRaises, Injected, TypeOK
  <2> QED
    BY <1>0, <1>8, <2>1, <2>2, TransactionType, SettleType DEF CommitRaises, TypeInv, TypeOK
<1> QED
  BY <1>1, <1>2, <1>3, <1>4, <1>5, <1>6, <1>7, <1>8

\* finish_session.
LEMMA FinishType ==
    ASSUME TypeInv, NEW w \in Workers,
           \/ \E status \in {"COMPLETED", "ERROR"}, dnc \in BOOLEAN :
                 StartFinish(w, status, dnc)
           \/ CheckFinish(w) \/ WriteFinish(w) \/ FinishRaises(w) \/ EndFinish(w)
    PROVE  TypeInv'
<1> USE HomeAssumption
<1>0. Home[w] \in Processes /\ View(Home[w]) \in Databases /\ TypeOK
      /\ call[w] \in Calls
  BY ViewType DEF TypeInv, TypeOK
<1>1. View(Home[w]).session \in Sessions
  BY <1>0 DEF Databases
<1>2. ASSUME NEW status \in {"COMPLETED", "ERROR"}, NEW dnc \in BOOLEAN,
             StartFinish(w, status, dnc)
      PROVE  TypeInv'
  <2>1. call' \in [Workers -> Calls] /\ call'[w].row \in Sessions
    BY <1>0, <1>1, <1>2 DEF StartFinish, Calls, Statuses, TypeOK
  <2>2. PICK step \in {"finish_check", "finish_dnc"} : Goto(w, step)
    BY <1>2 DEF StartFinish
  <2>3. pc' \in [Workers -> Steps] /\ LocalsOK'
    <3>1. step \in Steps /\ step \notin TurnSteps /\ step \notin RunningSteps
      BY <2>2 DEF Steps, TurnSteps, RunningSteps
    <3>2. \A v \in Workers : v # w => call'[v] = call[v]
      BY <1>0, <1>2 DEF StartFinish, TypeOK
    <3>3. processor' = processor
      BY <1>2 DEF StartFinish
    <3> QED
      BY <1>0, <2>1, <2>2, <3>1, <3>2, <3>3, GotoLocals DEF TypeOK
  <2>4. spent' \in [sends : Tallies, finishes : Nat, crashes : Nat, faults : Nat]
    <3>1. spent' = [spent EXCEPT !.finishes = spent.finishes + 1]
      BY <1>2 DEF StartFinish
    <3> QED
      BY <1>0, <3>1 DEF TypeOK
  <2> QED
    BY <1>0, <1>2, <2>1, <2>3, <2>4 DEF StartFinish, TypeInv, TypeOK
<1>3. CASE CheckFinish(w)
  <2>1. call[w].row \in Sessions
    BY <1>3 DEF CheckFinish, TypeInv, LocalsOK, RowSteps
  <2>2. call' \in [Workers -> Calls] /\ call'[w].row \in Sessions
        /\ \A v \in Workers : v # w => call'[v] = call[v]
    <3>1. UNCHANGED call \/ call' = [call EXCEPT ![w].row = View(Home[w]).session]
      BY <1>3 DEF CheckFinish
    <3>2. call \in [Workers -> Calls]
      BY <1>0 DEF TypeOK
    <3>3. PICK s \in Sessions : s = View(Home[w]).session
      BY <1>1
    <3>4. ASSUME call' = [call EXCEPT ![w].row = s]
          PROVE  /\ call' \in [Workers -> Calls] /\ call'[w].row \in Sessions
                 /\ \A v \in Workers : v # w => call'[v] = call[v]
      <4>1. [call[w] EXCEPT !.row = s] \in Calls
        BY <3>2 DEF Calls
      <4>2. call' = [call EXCEPT ![w] = [call[w] EXCEPT !.row = s]]
        BY <3>2, <3>4
      <4>3. [call[w] EXCEPT !.row = s].row = s
        BY <3>2 DEF Calls
      <4> QED
        BY <3>2, <4>1, <4>2, <4>3
    <3> QED
      BY <2>1, <3>1, <3>2, <3>3, <3>4
  <2>3. PICK step \in {"finish_write", "finish_dnc"} : Goto(w, step)
    BY <1>3 DEF CheckFinish
  <2>4. pc' \in [Workers -> Steps] /\ LocalsOK'
    <3>1. step \in Steps /\ step \notin TurnSteps /\ step \notin RunningSteps
      BY <2>3 DEF Steps, TurnSteps, RunningSteps
    <3>2. processor' = processor
      BY <1>3 DEF CheckFinish
    <3> QED
      BY <1>0, <2>2, <2>3, <3>1, <3>2, GotoLocals DEF TypeOK
  <2> QED
    BY <1>0, <1>3, <2>2, <2>4 DEF CheckFinish, TypeInv, TypeOK
<1>4. CASE WriteFinish(w)
  <2>1. call[w].row \in Sessions
    BY <1>4 DEF WriteFinish, TypeInv, LocalsOK, RowSteps
  <2>2. Closed(w) \in Sessions
    BY <1>0, <1>4, FinishWritesType
  <2>3. disk' \in Databases /\ txn' \in [Processes -> Databases \cup {None}]
    BY <1>0, <1>4, <2>2, FinishWritesType, WriteType DEF WriteFinish
  <2>4. call' \in [Workers -> Calls] /\ call'[w].row \in Sessions
    BY <1>0, <1>4, <2>2 DEF WriteFinish, Calls, TypeOK
  <2>5. pc' \in [Workers -> Steps] /\ LocalsOK'
    BY <1>0, <1>4, <2>4, GotoLocals
       DEF WriteFinish, Steps, TurnSteps, RunningSteps, TypeInv, TypeOK
  <2> QED
    BY <1>0, <1>4, <2>3, <2>4, <2>5 DEF WriteFinish, TypeInv, TypeOK
<1>5. CASE FinishRaises(w)
  BY <1>0, <1>5, ReturnLocals DEF FinishRaises, Injected, TypeInv, TypeOK
<1>6. CASE EndFinish(w)
  <2>1. pc' \in [Workers -> Steps] /\ call' \in [Workers -> Calls] /\ LocalsOK'
    BY <1>0, <1>6, ReturnLocals DEF EndFinish, TypeOK
  <2>2. [View(Home[w]) EXCEPT !.queue = "DNC"] \in Databases
    BY <1>0 DEF Databases
  <2>3. disk' \in Databases /\ txn' \in [Processes -> Databases \cup {None}]
    BY <1>0, <1>6, <2>2, WriteType DEF EndFinish, TypeOK
  <2>4. call[w].row.status \in Statuses
    BY <1>6 DEF EndFinish, TypeInv, LocalsOK, RowSteps, Sessions
  <2>5. spent' \in [sends : Tallies, finishes : Nat, crashes : Nat, faults : Nat]
    BY <1>0, <1>6 DEF EndFinish, Injected, TypeOK
  <2>6. finished' \in SUBSET Statuses /\ optedOut' \in OptOuts
    BY <1>0, <1>6, <2>4, HomeAssumption DEF EndFinish, OptedOut, OptOuts, TypeOK
  <2> QED
    BY <1>0, <1>6, <2>1, <2>3, <2>5, <2>6 DEF EndFinish, TypeInv, TypeOK
<1> QED
  BY <1>2, <1>3, <1>4, <1>5, <1>6

\* A crash and the recovery of the processor.
LEMMA CrashType ==
    ASSUME TypeInv, NEW p \in Processes, RestoreProcessor(p) \/ Crash(p)
    PROVE  TypeInv'
<1>0. View(p) \in Databases /\ TypeOK
  BY ViewType DEF TypeInv
<1>1. CASE RestoreProcessor(p)
  <2>1. FreshProcessor \in Processors
    BY DEF FreshProcessor, NoTurns, Processors, Tallies
  <2>2. RecoveryStatus(View(p)) = "RECOVERED_ACTIVE" =>
            [covered |-> View(p).snapshot.covered,
             applied |-> View(p).snapshot.applied] \in Processors
    BY <1>0 DEF RecoveryStatus, Databases, Snapshots, Processors
  <2>3. PICK object \in Processors : processor' = [processor EXCEPT ![p] = object]
    BY <1>1, <2>1, <2>2 DEF RestoreProcessor
  <2>4. processor' \in [Processes -> Processors \cup {None}]
        /\ \A q \in Processes : processor[q] \in Processors => processor'[q] \in Processors
    BY <1>0, <2>3 DEF TypeOK
  <2>5. LocalsOK'
    BY <1>1, <2>4, HomeAssumption DEF RestoreProcessor, TypeInv, LocalsOK
  <2> QED
    BY <1>0, <1>1, <2>4, <2>5 DEF RestoreProcessor, TypeInv, TypeOK
<1>2. CASE Crash(p)
  <2>1. pc' \in [Workers -> Steps]
    BY <1>0, <1>2 DEF Crash, TypeOK, Steps
  <2>2. call' \in [Workers -> Calls]
    BY <1>0, <1>2 DEF Crash, TypeOK, NoCall, Calls, Statuses
  <2>3. LocalsOK'
    BY <1>0, <1>2, HomeAssumption
       DEF Crash, TypeInv, TypeOK, LocalsOK, TurnSteps, RowSteps, RunningSteps
  <2>4. spent' \in [sends : Tallies, finishes : Nat, crashes : Nat, faults : Nat]
    BY <1>0, <1>2 DEF Crash, TypeOK
  <2> QED
    BY <1>0, <1>2, <2>1, <2>2, <2>3, <2>4, TransactionType, SettleType DEF Crash, TypeInv, TypeOK
<1> QED
  BY <1>1, <1>2

\* Every step keeps the types.
LEMMA NextType == TypeInv /\ [Next]_vars => TypeInv'
<1> SUFFICES ASSUME TypeInv, [Next]_vars PROVE TypeInv'
  OBVIOUS
<1>1. CASE UNCHANGED vars
  BY <1>1 DEF vars, TypeInv, TypeOK, LocalsOK
<1>2. ASSUME NEW w \in Workers, Arrive(w) \/ Continue(w) \/ Fail(w) PROVE TypeInv'
  BY <1>2, TurnBeginsType, TurnCommitsType, FinishType DEF Arrive, Continue, Fail
<1>3. ASSUME NEW p \in Processes, RestoreProcessor(p) \/ Crash(p) PROVE TypeInv'
  BY <1>3, CrashType
<1> QED
  BY <1>1, <1>2, <1>3 DEF Next

\* The typing invariant, locals included, holds in every reachable state.
LEMMA TypeInvariant == Spec => []TypeInv
  BY InitType, NextType, PTL DEF Spec

\* Rows, snapshots, idempotency records and the locals of every handler are well
\* formed in every reachable state, for any number of processes and handlers.
THEOREM TypeCorrect == Spec => []TypeOK
<1>1. TypeInv => TypeOK
  BY DEF TypeInv
<1> QED
  BY <1>1, TypeInvariant, PTL
-----------------------------------------------------------------------------
(* What keeps the turn log exact: an inductive invariant.                     *)

\* "Each process should hold its own instance": no two threads on a connection.
OneHandlerPerProcess ==
    \A v, w \in Workers : Home[v] = Home[w] => v = w

TxnSteps == {"check", "write", "commit"}

\* A unit of work belongs to a handler that is inside it, the only one there is.
LockInv ==
    /\ \A p \in Processes : InTransaction(p) =>
          \E w \in Workers : Home[w] = p /\ pc[w] \in TxnSteps
    /\ \A v, w \in Workers :
          pc[v] \in TxnSteps /\ pc[w] \in TxnSteps => v = w

HoldingSteps == {"process", "begin", "check", "write", "commit",
                 "finish_check", "finish_write"}

\* The row a handler will write back is an old one or the current one.
RowInv(w) ==
    pc[w] \in HoldingSteps =>
        /\ call[w].row.status = "ACTIVE"
        /\ call[w].row.revision <= disk.session.revision
        /\ call[w].row.revision = disk.session.revision =>
              call[w].row = disk.session

\* The sequence number derived by the route is not ahead of the log, and is the
\* next one of the row the turn is built on.
SeqInv(w) ==
    /\ pc[w] \in {"lookup", "read"} =>
          call[w].seq <= disk.session.turn_count + 1
    /\ pc[w] \in RunningSteps => call[w].seq = call[w].row.turn_count + 1

\* The open unit of work is the file as it is now plus what the handler wrote.
TxnInv(w) ==
    /\ pc[w] \in {"check", "write"} => txn[Home[w]] = disk
    /\ pc[w] \in {"write", "commit"} => call[w].row.revision = disk.session.revision
    /\ pc[w] = "commit" =>
          /\ disk.turns[call[w].req] = None
          /\ txn[Home[w]] = TurnWrites(w, disk)

\* What is about to be answered is committed.
ReplyInv(w) ==
    pc[w] = "reply" => disk.turns[call[w].req] = TurnRecord(w)

HandlerInv(w) == RowInv(w) /\ SeqInv(w) /\ TxnInv(w) /\ ReplyInv(w)

LogInv ==
    /\ TypeInv
    /\ LockInv
    /\ \A w \in Workers : HandlerInv(w)
    /\ LogExact(disk)
    /\ AckedTurnsDurable

------------------------------------------------------------------------------
(* The lock *)

\* Inside its unit of work a handler sees it, and no other process has one.
LEMMA Inside ==
    ASSUME LogInv, NEW w \in Workers, pc[w] \in TxnSteps
    PROVE  /\ InTransaction(Home[w])
           /\ View(Home[w]) = txn[Home[w]]
           /\ \A q \in Processes : q # Home[w] => ~InTransaction(q)
<1>1. txn[Home[w]] \in Databases
  <2>1. disk \in Databases
    BY DEF LogInv, TypeInv, TypeOK
  <2>2. TypeInv /\ TxnInv(w)
    BY DEF LogInv, HandlerInv
  <2>3. pc[w] = "commit" => TurnWrites(w, disk) \in Databases
    BY <2>1, <2>2, TurnWritesType DEF RunningSteps
  <2> QED
    BY <2>1, <2>2, <2>3 DEF TxnInv, TxnSteps
<1>2. InTransaction(Home[w])
  BY <1>1, NoneAssumption DEF InTransaction
<1>3. ASSUME NEW q \in Processes, q # Home[w] PROVE ~InTransaction(q)
  BY <1>3 DEF LogInv, LockInv
<1> QED
  BY <1>2, <1>3 DEF View

\* Outside it a handler of its own process reads the file.
LEMMA Outside ==
    ASSUME LogInv, OneHandlerPerProcess, NEW w \in Workers, pc[w] \notin TxnSteps
    PROVE  ~InTransaction(Home[w]) /\ View(Home[w]) = disk
  BY HomeAssumption DEF LogInv, LockInv, OneHandlerPerProcess, View

\* A step that leaves the units of work alone leaves the lock where it is.
LEMMA LockKept ==
    ASSUME LogInv, NEW w \in Workers, pc'[w] \in TxnSteps <=> pc[w] \in TxnSteps,
           \A v \in Workers : v # w => pc'[v] = pc[v],
           \A p \in Processes : InTransaction(p)' => InTransaction(p)
    PROVE  LockInv'
<1>1. \A v \in Workers : pc'[v] \in TxnSteps <=> pc[v] \in TxnSteps
  OBVIOUS
<1> QED
  BY <1>1 DEF LogInv, LockInv

\* COMMIT and ROLLBACK release the lock of their process.
LEMMA LockReleased ==
    ASSUME LogInv, NEW w \in Workers, pc[w] \in TxnSteps, pc'[w] \notin TxnSteps,
           \A v \in Workers : v # w => pc'[v] = pc[v],
           txn' = [txn EXCEPT ![Home[w]] = None]
    PROVE  LockInv'
<1>1. \A p \in Processes : ~InTransaction(p)'
  BY Inside, HomeAssumption DEF InTransaction, LogInv, TypeInv, TypeOK
<1>2. \A v \in Workers : pc'[v] \notin TxnSteps
  BY DEF LogInv, LockInv
<1> QED
  BY <1>1, <1>2 DEF LockInv

\* BEGIN gives the lock to one process, when none had it.
LEMMA LockTaken ==
    ASSUME LogInv, NEW w \in Workers, Begin(Home[w]), Goto(w, "check")
    PROVE  LockInv' /\ \A v \in Workers : pc[v] \notin TxnSteps
<1>1. \A p \in Processes : ~InTransaction(p)
  BY DEF Begin, LockFree
<1>2. \A v \in Workers : pc[v] \notin TxnSteps
  BY <1>1, Inside, HomeAssumption
<1>3. \A v \in Workers : pc'[v] \in TxnSteps <=> v = w
  BY <1>2 DEF Goto, TxnSteps, LogInv, TypeInv, TypeOK
<1>4. \A p \in Processes : InTransaction(p)' => p = Home[w]
  BY <1>1, HomeAssumption DEF Begin, InTransaction, LogInv, TypeInv, TypeOK
<1> QED
  BY <1>2, <1>3, <1>4 DEF LockInv

\* Autocommitted statements and COMMIT need the lock: inside a unit of work the file
\* stands still.
LEMMA WriteOutside ==
    ASSUME LogInv, OneHandlerPerProcess, NEW w \in Workers, pc[w] \notin TxnSteps,
           NEW db, Write(Home[w], db)
    PROVE  /\ disk' = db
           /\ txn' = txn
           /\ \A v \in Workers : pc[v] \notin TxnSteps
<1>1. disk' = db /\ txn' = txn /\ LockFree(Home[w]) /\ ~InTransaction(Home[w])
  BY Outside DEF Write
<1>2. \A v \in Workers : pc[v] \notin TxnSteps
  BY <1>1, Inside, HomeAssumption DEF LockFree
<1> QED
  BY <1>1, <1>2

------------------------------------------------------------------------------
(* What a step does to the file: nothing the log is about, one turn, or the end *)

Same ==
    /\ disk'.session = disk.session
    /\ disk'.turns = disk.turns
    /\ disk'.snapshot = disk.snapshot

Grow(w) == pc[w] = "commit" /\ disk' = TurnWrites(w, disk)

Close(w) ==
    /\ pc[w] = "finish_write"
    /\ call[w].row = disk.session
    /\ disk' = [disk EXCEPT !.session = Closed(w)]

Monotone ==
    /\ disk'.session.revision >= disk.session.revision
    /\ disk'.session.revision = disk.session.revision =>
          disk'.session = disk.session
    /\ disk'.session.turn_count >= disk.session.turn_count
    /\ \A r \in Requests : disk.turns[r] # None => disk'.turns[r] = disk.turns[r]

\* A committed turn in full: the row it replaces and the row it leaves.
LEMMA GrowFacts ==
    ASSUME LogInv, NEW w \in Workers, Grow(w)
    PROVE  /\ call[w].req \in Requests
           /\ call[w].row = disk.session
           /\ disk.session.status = "ACTIVE"
           /\ disk.turns[call[w].req] = None
           /\ disk'.session = Committed(w)
           /\ disk'.turns = [disk.turns EXCEPT ![call[w].req] = TurnRecord(w)]
           /\ disk'.snapshot = call[w].snap
           /\ call[w].seq = disk.session.turn_count + 1
<1>1. HandlerInv(w) /\ TypeInv /\ disk \in Databases
  BY DEF LogInv, TypeInv, TypeOK
<1>2. call[w].req \in Requests
  BY <1>1 DEF Grow, TypeInv, LocalsOK, TurnSteps
<1>3. call[w].row.revision = disk.session.revision /\ disk.turns[call[w].req] = None
      /\ disk' = TurnWrites(w, disk)
  BY <1>1 DEF Grow, HandlerInv, TxnInv
<1>4. call[w].row = disk.session /\ disk.session.status = "ACTIVE"
  BY <1>1, <1>3 DEF Grow, HandlerInv, RowInv, HoldingSteps
<1>5. call[w].seq = disk.session.turn_count + 1
  BY <1>1, <1>4 DEF Grow, HandlerInv, SeqInv, RunningSteps
<1>6. UpdateWhere(disk, call[w].row.revision, Committed(w))
        = [disk EXCEPT !.session = Committed(w)]
  BY <1>3 DEF UpdateWhere
<1>7. disk' = [[disk EXCEPT !.session = Committed(w)] EXCEPT
                 !.snapshot = call[w].snap,
                 !.turns = [disk.turns EXCEPT ![call[w].req] = TurnRecord(w)]]
  BY <1>1, <1>3, <1>6 DEF TurnWrites, Databases
<1>8. disk'.session = Committed(w) /\ disk'.snapshot = call[w].snap
      /\ disk'.turns = [disk.turns EXCEPT ![call[w].req] = TurnRecord(w)]
  BY <1>1, <1>7 DEF Databases
<1> QED
  BY <1>2, <1>3, <1>4, <1>5, <1>8

\* A closed row in full: the row it replaces and the row it leaves.
LEMMA CloseFacts ==
    ASSUME LogInv, NEW w \in Workers, Close(w)
    PROVE  /\ disk'.session = [disk.session EXCEPT !.status = call[w].status,
                                                   !.revision = @ + 1]
           /\ disk.session.status = "ACTIVE"
           /\ disk'.turns = disk.turns
           /\ disk'.snapshot = disk.snapshot
<1>1. disk \in Databases /\ RowInv(w)
  BY DEF LogInv, TypeInv, TypeOK, HandlerInv
<1>2. disk.session.status = "ACTIVE"
  BY <1>1 DEF Close, RowInv, HoldingSteps
<1> QED
  BY <1>1, <1>2 DEF Close, Closed, Databases

\* Revisions never fall, a revision names one row, turns are never lost.
LEMMA FileGrows ==
    ASSUME LogInv, Same \/ \E w \in Workers : Grow(w) \/ Close(w)
    PROVE  Monotone
<1>0. disk \in Databases /\ disk.session \in Sessions
      /\ disk.session.revision \in Nat /\ disk.session.turn_count \in Nat
  BY DEF LogInv, TypeInv, TypeOK, Databases, Sessions
<1>1. CASE Same
  BY <1>0, <1>1 DEF Same, Monotone
<1>2. ASSUME NEW w \in Workers, Grow(w) PROVE Monotone
  <2>1. disk'.session.revision = disk.session.revision + 1
        /\ disk'.session.turn_count = disk.session.turn_count + 1
    <3>1. disk'.session = Committed(w) /\ call[w].row = disk.session
          /\ call[w].seq = disk.session.turn_count + 1
      BY <1>2, GrowFacts
    <3> QED
      BY <3>1 DEF Committed
  <2>2. \A r \in Requests : disk.turns[r] # None => disk'.turns[r] = disk.turns[r]
    BY <1>0, <1>2, GrowFacts DEF Databases
  <2> QED
    BY <1>0, <2>1, <2>2 DEF Monotone
<1>3. ASSUME NEW w \in Workers, Close(w) PROVE Monotone
  <2>1. disk'.session.revision = disk.session.revision + 1
        /\ disk'.session.turn_count = disk.session.turn_count
    BY <1>0, <1>3, CloseFacts DEF Sessions
  <2>2. disk'.turns = disk.turns
    BY <1>3, CloseFacts
  <2> QED
    BY <1>0, <2>1, <2>2 DEF Monotone
<1> QED
  BY <1>1, <1>2, <1>3

\* The log stays exact.
LEMMA LogStaysExact ==
    ASSUME LogInv, disk' \in Databases,
           Same \/ \E w \in Workers : Grow(w) \/ Close(w)
    PROVE  LogExact(disk)'
<1>0. disk \in Databases /\ LogExact(disk) /\ disk.session \in Sessions
      /\ disk.session.transcript \in Seq(Requests)
      /\ disk.session.turn_count \in Nat /\ TypeInv
  BY DEF LogInv, TypeInv, TypeOK, Databases, Sessions
<1>1. CASE Same
  BY <1>0, <1>1 DEF Same, LogExact
<1>2. ASSUME NEW w \in Workers, Grow(w) PROVE LogExact(disk)'
  <2> DEFINE r == call[w].req
             old == disk.session.transcript
             new == disk'.session.transcript
  <2>1. r \in Requests /\ disk.turns[r] = None /\ disk'.turns[r] = TurnRecord(w)
        /\ \A x \in Requests : x # r => disk'.turns[x] = disk.turns[x]
    BY <1>0, <1>2, GrowFacts DEF Databases
  <2>2. new = Append(old, r) /\ disk'.session.turn_count = disk.session.turn_count + 1
        /\ TurnRecord(w).seq = disk.session.turn_count + 1
    <3>1. disk'.session = Committed(w) /\ call[w].row = disk.session
          /\ call[w].seq = disk.session.turn_count + 1
      BY <1>2, GrowFacts
    <3> QED
      BY <3>1 DEF Committed, TurnRecord
  <2>3. Len(old) = disk.session.turn_count
    BY <1>0 DEF LogExact
  <2>4. Len(new) = Len(old) + 1 /\ new[Len(old) + 1] = r
        /\ \A i \in 1 .. Len(old) : new[i] = old[i] /\ old[i] \in Requests
    BY <1>0, <2>1, <2>2
  <2>5. TurnRecord(w) # None
    BY <1>0, <1>2, TurnDataType, NoneAssumption DEF Grow, RunningSteps
  <2>6. ASSUME NEW i \in 1 .. Len(new)
        PROVE  disk'.turns[new[i]] # None /\ disk'.turns[new[i]].seq = i
    <3>1. CASE i = Len(old) + 1
      BY <2>1, <2>2, <2>3, <2>4, <2>5, <3>1
    <3>2. CASE i \in 1 .. Len(old)
      <4>1. new[i] = old[i] /\ old[i] \in Requests
            /\ disk.turns[old[i]] # None /\ disk.turns[old[i]].seq = i
        BY <1>0, <2>4, <3>2 DEF LogExact
      <4>2. old[i] # r
        BY <2>1, <4>1
      <4> QED
        BY <2>1, <4>1, <4>2
    <3>3. Len(old) \in Nat
      BY <1>0
    <3> QED
      BY <2>4, <3>1, <3>2, <3>3
  <2>7. ASSUME NEW x \in Requests, disk'.turns[x] # None
        PROVE  disk'.turns[x].seq \in 1 .. Len(new) /\ new[disk'.turns[x].seq] = x
    <3>1. CASE x = r
      BY <1>0, <2>1, <2>2, <2>3, <2>4, <3>1
    <3>2. CASE x # r
      <4>1. disk.turns[x] # None /\ disk'.turns[x] = disk.turns[x]
        BY <2>1, <2>7, <3>2
      <4>2. disk.turns[x].seq \in 1 .. Len(old) /\ old[disk.turns[x].seq] = x
        BY <1>0, <4>1 DEF LogExact
      <4>3. Len(old) \in Nat
        BY <1>0
      <4>4. disk.turns[x].seq \in 1 .. Len(new)
        BY <2>4, <4>2, <4>3
      <4> QED
        BY <2>4, <4>1, <4>2, <4>4
    <3> QED
      BY <3>1, <3>2
  <2>8. disk'.session.turn_count = Len(new)
    BY <2>2, <2>3, <2>4
  <2> QED
    BY <2>6, <2>7, <2>8 DEF LogExact
<1>3. ASSUME NEW w \in Workers, Close(w) PROVE LogExact(disk)'
  <2>1. disk'.session.transcript = disk.session.transcript
        /\ disk'.session.turn_count = disk.session.turn_count
        /\ disk'.turns = disk.turns
    BY <1>0, <1>3, CloseFacts DEF Sessions
  <2> QED
    BY <1>0, <2>1 DEF LogExact
<1> QED
  BY <1>1, <1>2, <1>3

------------------------------------------------------------------------------
(* The steps *)

OthersStill(w) ==
    \A v \in Workers : v # w =>
        /\ pc'[v] = pc[v] /\ call'[v] = call[v]
        /\ pc[v] \in TxnSteps => disk' = disk /\ txn'[Home[v]] = txn[Home[v]]

GoodStep(w) ==
    /\ Same \/ Grow(w) \/ Close(w)
    /\ OthersStill(w)
    /\ LockInv'
    /\ HandlerInv(w)'

\* A handler at rest has nothing to keep.
LEMMA IdleInv ==
    ASSUME NEW w \in Workers, pc'[w] = "idle"
    PROVE  HandlerInv(w)'
  BY DEF HandlerInv, RowInv, SeqInv, TxnInv, ReplyInv, HoldingSteps, RunningSteps

\* A return touches neither the step nor the locals of the other handlers.
LEMMA OneMoves ==
    ASSUME LogInv, NEW w \in Workers, Return(w)
    PROVE  \A v \in Workers : v # w => pc'[v] = pc[v] /\ call'[v] = call[v]
  BY DEF Return, LogInv, TypeInv, TypeOK

\* Steps that leave the file and the units of work alone.
LEMMA LocalStep ==
    ASSUME LogInv, NEW w \in Workers, UNCHANGED <<disk, txn>>,
           \A v \in Workers : v # w => pc'[v] = pc[v] /\ call'[v] = call[v],
           pc'[w] \in TxnSteps <=> pc[w] \in TxnSteps,
           HandlerInv(w)'
    PROVE  GoodStep(w)
<1>1. LockInv'
  BY LockKept DEF InTransaction
<1> QED
  BY <1>1 DEF GoodStep, Same, OthersStill

\* ROLLBACK and the return of the handler.
LEMMA RollbackStep ==
    ASSUME LogInv, OneHandlerPerProcess, NEW w \in Workers, pc[w] \in TxnSteps,
           Rollback(Home[w]), Return(w)
    PROVE  GoodStep(w)
<1>1. pc'[w] = "idle"
  BY DEF Return, LogInv, TypeInv, TypeOK
<1>2. \A v \in Workers : v # w => pc'[v] = pc[v] /\ call'[v] = call[v]
  BY OneMoves
<1>3. LockInv'
  BY <1>1, <1>2, LockReleased DEF Rollback, TxnSteps
<1>4. OthersStill(w)
  BY <1>2, HomeAssumption
     DEF Rollback, OthersStill, LogInv, TypeInv, TypeOK, OneHandlerPerProcess
<1>5. HandlerInv(w)'
  BY <1>1, IdleInv
<1> QED
  BY <1>3, <1>4, <1>5 DEF GoodStep, Same, Rollback

\* process_turn up to its transaction.
LEMMA TurnBeginsGood ==
    ASSUME LogInv, OneHandlerPerProcess, NEW w \in Workers,
           \/ \E r \in Requests : ReceiveTurn(w, r)
           \/ Replay(w) \/ LookupMiss(w) \/ RejectTurn(w) \/ ReadSession(w)
           \/ \E terminal \in BOOLEAN : RunProcessor(w, terminal)
           \/ ProcessorRaises(w) \/ BeginRaises(w) \/ Reply(w)
    PROVE  GoodStep(w)
<1>0. /\ TypeOK /\ HandlerInv(w) /\ call[w] \in Calls /\ disk \in Databases
      /\ disk.session \in Sessions /\ disk.session.turn_count \in Nat
      /\ disk.session.revision \in Nat /\ call[w].seq \in Nat
  BY DEF LogInv, TypeInv, TypeOK, Databases, Sessions, Calls
<1>1. ASSUME NEW r \in Requests, ReceiveTurn(w, r) PROVE GoodStep(w)
  <2>1. View(Home[w]) = disk
    BY <1>1, Outside DEF ReceiveTurn, TxnSteps
  <2>2. pc'[w] = "lookup" /\ call'[w].seq = disk.session.turn_count + 1
        /\ UNCHANGED <<disk, txn>> /\ pc[w] = "idle"
    BY <1>0, <1>1, <2>1 DEF ReceiveTurn, Goto, TypeOK, Calls
  <2>3. HandlerInv(w)'
    BY <1>0, <2>2
       DEF HandlerInv, RowInv, SeqInv, TxnInv, ReplyInv, HoldingSteps, RunningSteps
  <2>4. \A v \in Workers : v # w => pc'[v] = pc[v] /\ call'[v] = call[v]
    BY <1>0, <1>1 DEF ReceiveTurn, Goto, TypeOK
  <2> QED
    BY <2>2, <2>3, <2>4, LocalStep DEF TxnSteps
<1>2. CASE Replay(w) \/ RejectTurn(w) \/ ProcessorRaises(w) \/ BeginRaises(w) \/ Reply(w)
  <2>1. Return(w) /\ UNCHANGED <<disk, txn>> /\ pc[w] \notin TxnSteps
    BY <1>2 DEF Replay, RejectTurn, ProcessorRaises, BeginRaises, Reply, TxnSteps
  <2>2. pc'[w] = "idle" /\ pc'[w] \notin TxnSteps
    BY <1>0, <2>1 DEF Return, TypeOK, TxnSteps
  <2> QED
    BY <2>1, <2>2, IdleInv, OneMoves, LocalStep
<1>3. CASE LookupMiss(w)
  <2>1. pc'[w] = "read" /\ pc[w] = "lookup" /\ UNCHANGED <<disk, txn, call>>
    BY <1>0, <1>3 DEF LookupMiss, Goto, TypeOK
  <2>2. HandlerInv(w)'
    BY <1>0, <2>1
       DEF HandlerInv, RowInv, SeqInv, TxnInv, ReplyInv, HoldingSteps, RunningSteps
  <2>3. \A v \in Workers : v # w => pc'[v] = pc[v] /\ call'[v] = call[v]
    BY <1>0, <1>3 DEF LookupMiss, Goto, TypeOK
  <2> QED
    BY <2>1, <2>2, <2>3, LocalStep DEF TxnSteps
<1>4. CASE ReadSession(w)
  <2>1. View(Home[w]) = disk
    BY <1>4, Outside DEF ReadSession, TxnSteps
  <2>2. pc'[w] = "process" /\ pc[w] = "read" /\ UNCHANGED <<disk, txn>>
        /\ call'[w].row = disk.session /\ call'[w].seq = call[w].seq
    BY <1>0, <1>4, <2>1 DEF ReadSession, Goto, TypeOK, Calls
  <2>3. disk.session.status = "ACTIVE" /\ call[w].seq > disk.session.turn_count
    BY <1>4, <2>1 DEF ReadSession, Accepts
  <2>4. call[w].seq = disk.session.turn_count + 1
    BY <1>0, <2>2, <2>3 DEF HandlerInv, SeqInv
  <2>5. HandlerInv(w)'
    BY <1>0, <2>2, <2>3, <2>4
       DEF HandlerInv, RowInv, SeqInv, TxnInv, ReplyInv, HoldingSteps, RunningSteps
  <2>6. \A v \in Workers : v # w => pc'[v] = pc[v] /\ call'[v] = call[v]
    BY <1>0, <1>4 DEF ReadSession, Goto, TypeOK
  <2> QED
    BY <2>2, <2>5, <2>6, LocalStep DEF TxnSteps
<1>5. ASSUME NEW terminal \in BOOLEAN, RunProcessor(w, terminal) PROVE GoodStep(w)
  <2>1. pc'[w] = "begin" /\ pc[w] = "process" /\ UNCHANGED <<disk, txn>>
        /\ call'[w].row = call[w].row /\ call'[w].seq = call[w].seq
    BY <1>0, <1>5 DEF RunProcessor, Goto, TypeOK, Calls
  <2>2. HandlerInv(w)'
    BY <1>0, <2>1
       DEF HandlerInv, RowInv, SeqInv, TxnInv, ReplyInv, HoldingSteps, RunningSteps
  <2>3. \A v \in Workers : v # w => pc'[v] = pc[v] /\ call'[v] = call[v]
    BY <1>0, <1>5 DEF RunProcessor, Goto, TypeOK
  <2> QED
    BY <2>1, <2>2, <2>3, LocalStep DEF TxnSteps
<1> QED
  BY <1>1, <1>2, <1>3, <1>4, <1>5

\* The unit of work of process_turn.
LEMMA TurnCommitsGood ==
    ASSUME LogInv, OneHandlerPerProcess, NEW w \in Workers,
           \/ BeginTurn(w) \/ CheckRevision(w) \/ StaleCommit(w)
           \/ WriteTurn(w) \/ CommitTurn(w) \/ CommitRaises(w)
    PROVE  GoodStep(w)
<1> USE HomeAssumption
<1>0. /\ TypeOK /\ HandlerInv(w) /\ call[w] \in Calls /\ disk \in Databases
      /\ disk.session \in Sessions /\ Home[w] \in Processes
  BY DEF LogInv, TypeInv, TypeOK, Databases
<1>1. CASE BeginTurn(w)
  <2>1. pc'[w] = "check" /\ pc[w] = "begin" /\ disk' = disk
        /\ txn' = [txn EXCEPT ![Home[w]] = disk]
        /\ call'[w].row = call[w].row /\ call'[w].seq = call[w].seq
    BY <1>0, <1>1 DEF BeginTurn, Begin, Goto, TypeOK, Calls
  <2>2. HandlerInv(w)'
    BY <1>0, <2>1 DEF TypeOK,
       HandlerInv, RowInv, SeqInv, TxnInv, ReplyInv, HoldingSteps, RunningSteps
  <2>3. LockInv' /\ \A v \in Workers : pc[v] \notin TxnSteps
    BY <1>1, LockTaken DEF BeginTurn
  <2>4. \A v \in Workers : v # w => pc'[v] = pc[v] /\ call'[v] = call[v]
    BY <1>0, <1>1 DEF BeginTurn, Goto, TypeOK
  <2> QED
    BY <2>1, <2>2, <2>3, <2>4 DEF GoodStep, Same, OthersStill
<1>2. CASE CheckRevision(w)
  <2>1. View(Home[w]) = txn[Home[w]]
    BY <1>2, Inside DEF CheckRevision, TxnSteps
  <2>2. pc'[w] = "write" /\ pc[w] = "check" /\ UNCHANGED <<disk, txn, call>>
        /\ View(Home[w]).session.revision = call[w].row.revision
    BY <1>0, <1>2 DEF CheckRevision, Goto, TypeOK
  <2>3. txn[Home[w]] = disk
    BY <1>0, <2>2 DEF HandlerInv, TxnInv
  <2>4. HandlerInv(w)'
    BY <1>0, <2>1, <2>2, <2>3
       DEF HandlerInv, RowInv, SeqInv, TxnInv, ReplyInv, HoldingSteps, RunningSteps
  <2>5. \A v \in Workers : v # w => pc'[v] = pc[v] /\ call'[v] = call[v]
    BY <1>0, <1>2 DEF CheckRevision, Goto, TypeOK
  <2> QED
    BY <2>2, <2>4, <2>5, LocalStep DEF TxnSteps
<1>3. CASE StaleCommit(w) \/ CommitRaises(w)
  BY <1>3, RollbackStep DEF StaleCommit, CommitRaises, TxnSteps
<1>4. CASE WriteTurn(w)
  <2>1. InTransaction(Home[w]) /\ View(Home[w]) = txn[Home[w]]
    BY <1>4, Inside DEF WriteTurn, TxnSteps
  <2>2. View(Home[w]) = disk /\ pc[w] = "write"
    BY <1>0, <1>4, <2>1 DEF WriteTurn, HandlerInv, TxnInv
  <2>3. CASE disk.turns[call[w].req] = None
    <3>1. Write(Home[w], TurnWrites(w, disk)) /\ Goto(w, "commit")
          /\ UNCHANGED <<processor, call>>
      BY <1>4, <2>2, <2>3 DEF WriteTurn
    <3>2. txn' = [txn EXCEPT ![Home[w]] = TurnWrites(w, disk)] /\ disk' = disk
      BY <2>1, <3>1 DEF Write
    <3>3. TurnWrites(w, disk)' = TurnWrites(w, disk)
      BY <3>1, <3>2 DEF TurnWrites, UpdateWhere, Committed, TurnRecord
    <3>4. pc'[w] = "commit" /\ txn'[Home[w]] = TurnWrites(w, disk)
      BY <1>0, <3>1, <3>2 DEF Goto, TypeOK
    <3>5. RowInv(w)' /\ SeqInv(w)' /\ ReplyInv(w)'
      BY <1>0, <2>2, <3>1, <3>2, <3>4
         DEF HandlerInv, RowInv, SeqInv, ReplyInv, HoldingSteps, RunningSteps
    <3>6. TxnInv(w)'
      BY <1>0, <2>2, <2>3, <3>1, <3>2, <3>3, <3>4 DEF HandlerInv, TxnInv
    <3>7. \A v \in Workers : v # w => pc'[v] = pc[v] /\ call'[v] = call[v]
      BY <1>0, <3>1 DEF Goto, TypeOK
    <3>8. LockInv'
      <4>1. \A p \in Processes : InTransaction(p)' => InTransaction(p)
        BY <1>0, <2>1, <3>2 DEF InTransaction, TypeOK
      <4> QED
        BY <2>2, <3>4, <3>7, <4>1, LockKept DEF TxnSteps
    <3>9. OthersStill(w)
      BY <1>0, <3>2, <3>7 DEF OthersStill, OneHandlerPerProcess, TypeOK
    <3> QED
      BY <3>2, <3>5, <3>6, <3>8, <3>9 DEF GoodStep, HandlerInv, Same
  <2>4. CASE disk.turns[call[w].req] # None
    <3>1. Rollback(Home[w]) /\ Return(w)
      BY <1>4, <2>2, <2>4 DEF WriteTurn
    <3> QED
      BY <2>2, <3>1, RollbackStep DEF TxnSteps
  <2> QED
    BY <2>3, <2>4
<1>5. CASE CommitTurn(w)
  <2>1. pc'[w] = "reply" /\ pc[w] = "commit" /\ call' = call
        /\ disk' = txn[Home[w]] /\ txn' = [txn EXCEPT ![Home[w]] = None]
    BY <1>0, <1>5 DEF CommitTurn, Commit, Goto, TypeOK
  <2>2. Grow(w)
    BY <1>0, <2>1 DEF Grow, HandlerInv, TxnInv
  <2>3. call[w].req \in Requests
        /\ disk'.turns = [disk.turns EXCEPT ![call[w].req] = TurnRecord(w)]
    BY <2>2, GrowFacts
  <2>4. TurnRecord(w)' = TurnRecord(w)
    BY <2>1 DEF TurnRecord
  <2>5. disk'.turns[call[w].req] = TurnRecord(w)
    BY <1>0, <2>3 DEF Databases
  <2>6. HandlerInv(w)'
    BY <2>1, <2>4, <2>5
       DEF HandlerInv, RowInv, SeqInv, TxnInv, ReplyInv, HoldingSteps, RunningSteps
  <2>7. \A v \in Workers : v # w => pc'[v] = pc[v] /\ call'[v] = call[v]
    BY <1>0, <1>5 DEF CommitTurn, Goto, TypeOK
  <2>8. LockInv'
    BY <2>1, <2>7, LockReleased DEF TxnSteps
  <2>9. OthersStill(w)
    BY <2>1, <2>7 DEF OthersStill, LogInv, LockInv, TxnSteps
  <2> QED
    BY <2>2, <2>6, <2>8, <2>9 DEF GoodStep
<1> QED
  BY <1>1, <1>2, <1>3, <1>4, <1>5

\* finish_session.
LEMMA FinishGood ==
    ASSUME LogInv, OneHandlerPerProcess, NEW w \in Workers,
           \/ \E status \in {"COMPLETED", "ERROR"}, dnc \in BOOLEAN :
                 StartFinish(w, status, dnc)
           \/ CheckFinish(w) \/ WriteFinish(w) \/ FinishRaises(w) \/ EndFinish(w)
    PROVE  GoodStep(w)
<1> USE HomeAssumption
<1>0. /\ TypeOK /\ HandlerInv(w) /\ call[w] \in Calls /\ disk \in Databases
      /\ disk.session \in Sessions /\ disk.session.revision \in Nat
  BY DEF LogInv, TypeInv, TypeOK, Databases, Sessions
<1>1. pc[w] \notin TxnSteps
  BY DEF StartFinish, CheckFinish, WriteFinish, FinishRaises, EndFinish, TxnSteps
<1>2. View(Home[w]) = disk /\ ~InTransaction(Home[w])
  BY <1>1, Outside
<1>3. ASSUME NEW status \in {"COMPLETED", "ERROR"}, NEW dnc \in BOOLEAN,
             StartFinish(w, status, dnc)
      PROVE  GoodStep(w)
  <2>1. pc'[w] = (IF disk.session.status = "ACTIVE" THEN "finish_check" ELSE "finish_dnc")
        /\ UNCHANGED <<disk, txn>> /\ call'[w].row = disk.session
    BY <1>0, <1>2, <1>3 DEF StartFinish, Goto, TypeOK, Calls
  <2>2. HandlerInv(w)'
    BY <1>0, <2>1
       DEF HandlerInv, RowInv, SeqInv, TxnInv, ReplyInv, HoldingSteps, RunningSteps
  <2>3. \A v \in Workers : v # w => pc'[v] = pc[v] /\ call'[v] = call[v]
    BY <1>0, <1>3 DEF StartFinish, Goto, TypeOK
  <2> QED
    BY <1>1, <2>1, <2>2, <2>3, LocalStep DEF TxnSteps
<1>4. CASE CheckFinish(w)
  <2>1. pc[w] = "finish_check" /\ UNCHANGED <<disk, txn>>
        /\ \/ /\ disk.session.revision = call[w].row.revision
              /\ Goto(w, "finish_write") /\ call' = call
           \/ Goto(w, "finish_dnc")
    BY <1>2, <1>4 DEF CheckFinish
  <2>2. \/ pc'[w] = "finish_write" /\ call' = call
        \/ pc'[w] = "finish_dnc"
    BY <1>0, <2>1 DEF Goto, TypeOK
  <2>3. HandlerInv(w)'
    BY <1>0, <2>1, <2>2
       DEF HandlerInv, RowInv, SeqInv, TxnInv, ReplyInv, HoldingSteps, RunningSteps
  <2>4. \A v \in Workers : v # w => pc'[v] = pc[v] /\ call'[v] = call[v]
    BY <1>0, <1>4 DEF CheckFinish, Goto, TypeOK
  <2> QED
    BY <1>1, <2>1, <2>2, <2>3, <2>4, LocalStep DEF TxnSteps
<1>5. CASE WriteFinish(w)
  <2> DEFINE db == UpdateWhere(disk, call[w].row.revision, Closed(w))
  <2>1. pc[w] = "finish_write" /\ Write(Home[w], db) /\ Goto(w, "finish_dnc")
    BY <1>2, <1>5 DEF WriteFinish
  <2>2. disk' = db /\ txn' = txn /\ \A v \in Workers : pc[v] \notin TxnSteps
    BY <1>1, <2>1, WriteOutside
  <2>3. Same \/ Close(w)
    <3>1. CASE disk.session.revision = call[w].row.revision
      BY <1>0, <2>1, <2>2, <3>1 DEF UpdateWhere, Close, HandlerInv, RowInv, HoldingSteps
    <3>2. CASE disk.session.revision # call[w].row.revision
      BY <2>2, <3>2 DEF UpdateWhere, Same
    <3> QED
      BY <3>1, <3>2
  <2>4. pc'[w] = "finish_dnc"
    BY <1>0, <2>1 DEF Goto, TypeOK
  <2>5. HandlerInv(w)'
    BY <2>4 DEF HandlerInv, RowInv, SeqInv, TxnInv, ReplyInv, HoldingSteps, RunningSteps
  <2>6. \A v \in Workers : v # w => pc'[v] = pc[v] /\ call'[v] = call[v]
    BY <1>0, <1>5 DEF WriteFinish, Goto, TypeOK
  <2>7. LockInv'
    BY <1>1, <2>2, <2>4, <2>6, LockKept DEF InTransaction, TxnSteps
  <2>8. OthersStill(w)
    BY <2>2, <2>6 DEF OthersStill
  <2> QED
    BY <2>3, <2>5, <2>7, <2>8 DEF GoodStep
<1>6. CASE FinishRaises(w) \/ EndFinish(w)
  <2>1. Return(w)
    BY <1>6 DEF FinishRaises, EndFinish
  <2>2. pc'[w] = "idle" /\ pc'[w] \notin TxnSteps
    BY <1>0, <2>1 DEF Return, TypeOK, TxnSteps
  <2>3. CASE UNCHANGED <<disk, txn>>
    BY <1>1, <2>1, <2>2, <2>3, IdleInv, OneMoves, LocalStep
  <2>4. CASE Write(Home[w], [disk EXCEPT !.queue = "DNC"])
    <3>1. disk' = [disk EXCEPT !.queue = "DNC"] /\ txn' = txn
          /\ \A v \in Workers : pc[v] \notin TxnSteps
      BY <1>1, <2>4, WriteOutside
    <3>2. Same
      BY <1>0, <3>1 DEF Same, Databases
    <3>3. LockInv'
      BY <1>1, <2>1, <2>2, <3>1, OneMoves, LockKept DEF InTransaction
    <3>4. OthersStill(w)
      BY <2>1, <3>1, OneMoves DEF OthersStill
    <3> QED
      BY <2>2, <3>2, <3>3, <3>4, IdleInv DEF GoodStep
  <2> QED
    BY <1>2, <1>6, <2>3, <2>4 DEF FinishRaises, EndFinish
<1> QED
  BY <1>3, <1>4, <1>5, <1>6

\* A step of one handler does not disturb what the others rely on.
LEMMA OthersKept ==
    ASSUME LogInv, TypeInv', Monotone, NEW w \in Workers, OthersStill(w),
           NEW v \in Workers, v # w
    PROVE  HandlerInv(v)'
<1>0. /\ pc'[v] = pc[v] /\ call'[v] = call[v] /\ HandlerInv(v)
      /\ pc[v] \in TxnSteps => disk' = disk /\ txn'[Home[v]] = txn[Home[v]]
  BY DEF OthersStill, LogInv
<1>1. /\ disk.session.revision \in Nat /\ disk'.session.revision \in Nat
      /\ disk.session.turn_count \in Nat /\ disk'.session.turn_count \in Nat
      /\ call[v].seq \in Nat
  BY DEF LogInv, TypeInv, TypeOK, Databases, Sessions, Calls
<1>2. RowInv(v)'
  <2>1. pc[v] \in HoldingSteps => call[v].row.revision \in Nat
    BY DEF LogInv, TypeInv, LocalsOK, HoldingSteps, RowSteps, RunningSteps, Sessions
  <2> QED
    BY <1>0, <1>1, <2>1 DEF HandlerInv, RowInv, Monotone
<1>3. SeqInv(v)'
  BY <1>0, <1>1 DEF HandlerInv, SeqInv, Monotone
<1>4. TxnInv(v)'
  <2>1. pc[v] \in TxnSteps => TurnWrites(v, disk)' = TurnWrites(v, disk)
    BY <1>0 DEF TurnWrites, UpdateWhere, Committed, TurnRecord
  <2> QED
    BY <1>0, <2>1 DEF HandlerInv, TxnInv, TxnSteps
<1>5. ReplyInv(v)'
  <2>1. pc[v] = "reply" => call[v].req \in Requests /\ TurnRecord(v) # None
    <3>1. pc[v] = "reply" => call[v].req \in Requests /\ call[v].row \in Sessions
      BY DEF LogInv, TypeInv, LocalsOK, TurnSteps, RowSteps
    <3>2. pc[v] = "reply" => TurnRecord(v) \in TurnRecords
      BY <1>1, <3>1 DEF TurnRecord, TurnRecords, Sessions
    <3> QED
      BY <3>1, <3>2, NoneAssumption
  <2>2. TurnRecord(v)' = TurnRecord(v)
    BY <1>0 DEF TurnRecord
  <2> QED
    BY <1>0, <2>1, <2>2 DEF HandlerInv, ReplyInv, Monotone
<1> QED
  BY <1>2, <1>3, <1>4, <1>5 DEF HandlerInv

\* Answers are given about committed turns only, and stay true.
LEMMA AnswersKept ==
    ASSUME LogInv, Monotone, NEW w \in Workers,
           \/ acked' = acked
           \/ Replay(w) /\ View(Home[w]) = disk
           \/ Reply(w)
    PROVE  AckedTurnsDurable'
<1>0. /\ TypeOK /\ AckedTurnsDurable /\ HandlerInv(w)
      /\ acked \in [Requests -> SUBSET TurnRecords]
  BY DEF LogInv, TypeInv, TypeOK
<1>1. CASE acked' = acked
  BY <1>0, <1>1, NoneAssumption DEF AckedTurnsDurable, Monotone
<1>2. CASE Replay(w) /\ View(Home[w]) = disk
  <2>1. disk' = disk /\ acked' = [acked EXCEPT ![call[w].req] =
                                      @ \cup {disk.turns[call[w].req]}]
    BY <1>2 DEF Replay
  <2> QED
    BY <1>0, <2>1 DEF AckedTurnsDurable
<1>3. CASE Reply(w)
  <2>1. disk' = disk /\ acked' = [acked EXCEPT ![call[w].req] = @ \cup {TurnRecord(w)}]
        /\ disk.turns[call[w].req] = TurnRecord(w)
    BY <1>0, <1>3 DEF Reply, HandlerInv, ReplyInv
  <2> QED
    BY <1>0, <2>1 DEF AckedTurnsDurable
<1> QED
  BY <1>1, <1>2, <1>3

\* Every step of a handler is good.
LEMMA HandlerGood ==
    ASSUME LogInv, OneHandlerPerProcess, NEW w \in Workers,
           Arrive(w) \/ Continue(w) \/ Fail(w)
    PROVE  GoodStep(w)
  BY TurnBeginsGood, TurnCommitsGood, FinishGood DEF Arrive, Continue, Fail

\* A crash takes a unit of work and its handlers away, and nothing else.
LEMMA CrashGood ==
    ASSUME LogInv, OneHandlerPerProcess, NEW p \in Processes,
           RestoreProcessor(p) \/ Crash(p)
    PROVE  disk' = disk /\ acked' = acked /\ LockInv' /\ \A v \in Workers : HandlerInv(v)'
<1> USE HomeAssumption
<1>0. TypeOK /\ LockInv /\ \A v \in Workers : HandlerInv(v)
  BY DEF LogInv, TypeInv
<1>1. CASE RestoreProcessor(p)
  <2>1. UNCHANGED <<disk, txn, pc, call, acked>>
    BY <1>1 DEF RestoreProcessor
  <2>2. LockInv'
    BY <1>0, <2>1 DEF LockInv, InTransaction
  <2>3. ASSUME NEW v \in Workers PROVE HandlerInv(v)'
    <3>1. TurnWrites(v, disk)' = TurnWrites(v, disk) /\ TurnRecord(v)' = TurnRecord(v)
      BY <2>1 DEF TurnWrites, UpdateWhere, Committed, TurnRecord
    <3> QED
      BY <1>0, <2>1, <3>1 DEF HandlerInv, RowInv, SeqInv, TxnInv, ReplyInv
  <2> QED
    BY <2>1, <2>2, <2>3
<1>2. CASE Crash(p)
  <2>1. disk' = disk /\ acked' = acked /\ txn' = [txn EXCEPT ![p] = None]
    BY <1>2 DEF Crash, Rollback
  <2>2. \A v \in Workers :
            IF Home[v] = p THEN pc'[v] = "idle"
                           ELSE pc'[v] = pc[v] /\ call'[v] = call[v]
                                /\ txn'[Home[v]] = txn[Home[v]]
    BY <1>0, <1>2, <2>1 DEF Crash, TypeOK
  <2>3. LockInv'
    <3>1. ~InTransaction(p)' /\ \A q \in Processes : InTransaction(q)' => InTransaction(q)
      BY <1>0, <2>1 DEF InTransaction, TypeOK
    <3>2. \A v \in Workers : pc'[v] \in TxnSteps => pc[v] \in TxnSteps /\ Home[v] # p
      BY <2>2 DEF TxnSteps
    <3>3. ASSUME NEW q \in Processes, InTransaction(q)'
          PROVE  \E v \in Workers : Home[v] = q /\ pc'[v] \in TxnSteps
      <4>1. q # p /\ InTransaction(q)
        BY <3>1, <3>3
      <4>2. PICK v \in Workers : Home[v] = q /\ pc[v] \in TxnSteps
        BY <1>0, <4>1 DEF LockInv
      <4> QED
        BY <2>2, <4>1, <4>2
    <3> QED
      BY <1>0, <3>2, <3>3 DEF LockInv
  <2>4. ASSUME NEW v \in Workers PROVE HandlerInv(v)'
    <3>1. CASE Home[v] = p
      BY <2>2, <3>1, IdleInv
    <3>2. CASE Home[v] # p
      <4>1. TurnWrites(v, disk)' = TurnWrites(v, disk) /\ TurnRecord(v)' = TurnRecord(v)
        BY <2>1, <2>2, <3>2 DEF TurnWrites, UpdateWhere, Committed, TurnRecord
      <4> QED
        BY <1>0, <2>1, <2>2, <3>2, <4>1
           DEF HandlerInv, RowInv, SeqInv, TxnInv, ReplyInv
    <3> QED
      BY <3>1, <3>2
  <2> QED
    BY <2>1, <2>3, <2>4
<1> QED
  BY <1>1, <1>2

\* Who may change the answers.
LEMMA AnswerSteps ==
    ASSUME LogInv, OneHandlerPerProcess, NEW w \in Workers,
           Arrive(w) \/ Continue(w) \/ Fail(w)
    PROVE  acked' = acked \/ (Replay(w) /\ View(Home[w]) = disk) \/ Reply(w)
<1>1. CASE Replay(w)
  BY <1>1, Outside DEF Replay, TxnSteps
<1>2. CASE ~Replay(w) /\ ~Reply(w)
  BY <1>2
     DEF Arrive, Continue, Fail, ReceiveTurn, LookupMiss, RejectTurn, ReadSession,
         RunProcessor, ProcessorRaises, BeginTurn, BeginRaises, CheckRevision,
         StaleCommit, WriteTurn, CommitTurn, CommitRaises, StartFinish, CheckFinish,
         WriteFinish, FinishRaises, EndFinish
<1> QED
  BY <1>1, <1>2

\* The state bootstrap leaves behind satisfies the invariant.
LEMMA InitLog == Init => LogInv
<1> SUFFICES ASSUME Init PROVE LogInv
  OBVIOUS
<1>1. TypeInv
  BY InitType
<1>2. LockInv
  BY DEF Init, LockInv, InTransaction, TxnSteps
<1>3. \A w \in Workers : HandlerInv(w)
  BY DEF Init, HandlerInv, RowInv, SeqInv, TxnInv, ReplyInv, HoldingSteps, RunningSteps
<1>4. LogExact(disk)
  BY DEF Init, NewSession, LogExact
<1>5. AckedTurnsDurable
  BY DEF Init, AckedTurnsDurable
<1> QED
  BY <1>1, <1>2, <1>3, <1>4, <1>5 DEF LogInv

\* Every step keeps the invariant.
LEMMA NextLog ==
    ASSUME OneHandlerPerProcess, LogInv, [Next]_vars
    PROVE  LogInv' /\ (Same \/ \E w \in Workers : Grow(w) \/ Close(w))
<1>1. TypeInv'
  BY NextType DEF LogInv
<1>2. disk' \in Databases
  BY <1>1 DEF TypeInv, TypeOK
<1>3. CASE UNCHANGED vars
  <2>1. UNCHANGED <<disk, txn, pc, call, acked>>
    BY <1>3 DEF vars
  <2>2. LockInv'
    BY <2>1 DEF LogInv, LockInv, InTransaction
  <2>3. ASSUME NEW v \in Workers PROVE HandlerInv(v)'
    <3>1. TurnWrites(v, disk)' = TurnWrites(v, disk) /\ TurnRecord(v)' = TurnRecord(v)
      BY <2>1 DEF TurnWrites, UpdateWhere, Committed, TurnRecord
    <3> QED
      BY <2>1, <3>1 DEF LogInv, HandlerInv, RowInv, SeqInv, TxnInv, ReplyInv
  <2>4. LogExact(disk)' /\ AckedTurnsDurable'
    BY <2>1 DEF LogInv, LogExact, AckedTurnsDurable
  <2> QED
    BY <1>1, <2>1, <2>2, <2>3, <2>4 DEF LogInv, Same
<1>4. ASSUME NEW w \in Workers, Arrive(w) \/ Continue(w) \/ Fail(w)
      PROVE  LogInv' /\ (Same \/ \E v \in Workers : Grow(v) \/ Close(v))
  <2>1. GoodStep(w)
    BY <1>4, HandlerGood
  <2>2. Same \/ \E v \in Workers : Grow(v) \/ Close(v)
    BY <2>1 DEF GoodStep
  <2>3. Monotone /\ LogExact(disk)'
    BY <1>2, <2>2, FileGrows, LogStaysExact
  <2>4. ASSUME NEW v \in Workers PROVE HandlerInv(v)'
    BY <1>1, <2>1, <2>3, OthersKept DEF GoodStep
  <2>5. AckedTurnsDurable'
    BY <1>4, <2>3, AnswerSteps, AnswersKept
  <2> QED
    BY <1>1, <2>1, <2>2, <2>3, <2>4, <2>5 DEF LogInv, GoodStep
<1>5. ASSUME NEW p \in Processes, RestoreProcessor(p) \/ Crash(p)
      PROVE  LogInv' /\ Same
  <2>1. disk' = disk /\ acked' = acked /\ LockInv' /\ \A v \in Workers : HandlerInv(v)'
    BY <1>5, CrashGood
  <2>2. LogExact(disk)' /\ AckedTurnsDurable'
    BY <2>1 DEF LogInv, LogExact, AckedTurnsDurable
  <2> QED
    BY <1>1, <2>1, <2>2 DEF LogInv, Same
<1> QED
  BY <1>3, <1>4, <1>5 DEF Next

\* The inductive invariant holds in every reachable state.
LEMMA LogInvariant ==
    ASSUME OneHandlerPerProcess
    PROVE  Spec => []LogInv
<1>1. LogInv /\ [Next]_vars => LogInv'
  BY NextLog
<1> QED
  BY <1>1, InitLog, PTL DEF Spec

\* With one handler per process the transcript and the idempotency rows tell one
\* history: a turn is committed at most once, wholly or not at all, whatever the
\* number of processes, retries, crashes and failures.
THEOREM TurnLogCorrect ==
    ASSUME OneHandlerPerProcess
    PROVE  Spec => []TurnLogExact
<1>1. LogInv => TurnLogExact
  BY DEF LogInv, TurnLogExact
<1> QED
  BY <1>1, LogInvariant, PTL

\* What a client was answered about a turn is in the file, then and forever.
THEOREM AnswersCorrect ==
    ASSUME OneHandlerPerProcess
    PROVE  Spec => []AckedTurnsDurable
<1>1. LogInv => AckedTurnsDurable
  BY DEF LogInv
<1> QED
  BY <1>1, LogInvariant, PTL

\* A session that is not ACTIVE is never written again, nor its turns and snapshot:
\* every write names the revision of an ACTIVE row that is still the current one.
THEOREM ClosedCorrect ==
    ASSUME OneHandlerPerProcess
    PROVE  Spec => ClosedIsFinal
<1> DEFINE Untouched == disk'.session = disk.session /\ disk'.turns = disk.turns
                        /\ disk'.snapshot = disk.snapshot
<1>1. ASSUME LogInv, [Next]_vars PROVE disk.session.status # "ACTIVE" => Untouched
  <2>1. Same \/ \E w \in Workers : Grow(w) \/ Close(w)
    BY <1>1, NextLog
  <2> QED
    BY <1>1, <2>1, GrowFacts, CloseFacts DEF Same
<1>2. LogInv /\ [Next]_vars => [disk.session.status # "ACTIVE" => Untouched]_vars
  BY <1>1
<1> QED
  BY <1>2, LogInvariant, PTL DEF Spec, ClosedIsFinal

\* No update is lost: the published rows are numbered one after the other and each
\* continues the transcript of the row it replaces.
THEOREM RevisionsCorrect ==
    ASSUME OneHandlerPerProcess
    PROVE  Spec => RevisionsLinear
<1> DEFINE Extended ==
             /\ disk'.session.revision = disk.session.revision + 1
             /\ SubSeq(disk'.session.transcript, 1, Len(disk.session.transcript))
                  = disk.session.transcript
<1>1. ASSUME LogInv, [Next]_vars PROVE disk'.session # disk.session => Extended
  <2>0. disk.session \in Sessions /\ disk.session.transcript \in Seq(Requests)
    BY <1>1 DEF LogInv, TypeInv, TypeOK, Databases, Sessions
  <2>1. Same \/ \E w \in Workers : Grow(w) \/ Close(w)
    BY <1>1, NextLog
  <2>2. ASSUME NEW w \in Workers, Grow(w) PROVE Extended
    <3>1. disk'.session = Committed(w) /\ call[w].row = disk.session
          /\ call[w].req \in Requests
      BY <1>1, <2>2, GrowFacts
    <3>2. disk'.session.transcript = Append(disk.session.transcript, call[w].req)
          /\ disk'.session.revision = disk.session.revision + 1
      BY <3>1 DEF Committed
    <3>3. SubSeq(Append(disk.session.transcript, call[w].req), 1,
                 Len(disk.session.transcript)) = disk.session.transcript
      BY <2>0, <3>1
    <3> QED
      BY <3>2, <3>3
  <2>3. ASSUME NEW w \in Workers, Close(w) PROVE Extended
    <3>1. disk'.session.transcript = disk.session.transcript
          /\ disk'.session.revision = disk.session.revision + 1
      BY <1>1, <2>0, <2>3, CloseFacts DEF Sessions
    <3> QED
      BY <2>0, <3>1, SubSeqFull
  <2> QED
    BY <2>1, <2>2, <2>3 DEF Same
<1>2. LogInv /\ [Next]_vars => [disk'.session # disk.session => Extended]_vars
  BY <1>1
<1> QED
  BY <1>2, LogInvariant, PTL DEF Spec, RevisionsLinear
-----------------------------------------------------------------------------
(* DurableSession, opt-outs and recovery.                                     *)

\* A turn ends ACTIVE or COMPLETED, a finish COMPLETED or ERROR.
OutcomeInv ==
    \A w \in Workers :
        /\ pc[w] \in {"begin", "check", "write", "commit"} =>
              call[w].status \in {"ACTIVE", "COMPLETED"}
        /\ pc[w] \in {"finish_check", "finish_write"} =>
              call[w].status \in {"COMPLETED", "ERROR"}

PromiseInv == LogInv /\ OutcomeInv

\* A handler that returns has no outcome to keep.
LEMMA OutcomeReturn ==
    ASSUME TypeOK, OutcomeInv, NEW w \in Workers, Return(w)
    PROVE  OutcomeInv'
  BY DEF TypeOK, OutcomeInv, Return, NoCall

\* A handler that moves keeps the outcome of the row it holds.
LEMMA OutcomeGoto ==
    ASSUME TypeOK, OutcomeInv, NEW w \in Workers, NEW step, Goto(w, step),
           \A v \in Workers : v # w => call'[v] = call[v],
           step \in {"begin", "check", "write", "commit"} =>
               call'[w].status \in {"ACTIVE", "COMPLETED"},
           step \in {"finish_check", "finish_write"} =>
               call'[w].status \in {"COMPLETED", "ERROR"}
    PROVE  OutcomeInv'
  BY DEF TypeOK, OutcomeInv, Goto

\* Every step keeps the outcomes two-valued: a turn closes with COMPLETED only.
LEMMA NextOutcome ==
    ASSUME TypeOK, OutcomeInv, [Next]_vars
    PROVE  OutcomeInv'
<1>0. call \in [Workers -> Calls]
  BY DEF TypeOK
<1>1. CASE UNCHANGED vars
  BY <1>1 DEF vars, OutcomeInv
<1>2. ASSUME NEW w \in Workers,
             \/ Replay(w) \/ RejectTurn(w) \/ ProcessorRaises(w) \/ BeginRaises(w)
             \/ StaleCommit(w) \/ CommitRaises(w) \/ Reply(w)
             \/ FinishRaises(w) \/ EndFinish(w)
      PROVE  OutcomeInv'
  <2>1. Return(w)
    BY <1>2 DEF Replay, RejectTurn, ProcessorRaises, BeginRaises, StaleCommit,
                CommitRaises, Reply, FinishRaises, EndFinish
  <2> QED
    BY <2>1, OutcomeReturn
<1>3. ASSUME NEW w \in Workers, NEW r \in Requests, ReceiveTurn(w, r) PROVE OutcomeInv'
  BY <1>0, <1>3, OutcomeGoto DEF ReceiveTurn
<1>4. ASSUME NEW w \in Workers, LookupMiss(w) \/ ReadSession(w) PROVE OutcomeInv'
  BY <1>0, <1>4, OutcomeGoto DEF LookupMiss, ReadSession
<1>5. ASSUME NEW w \in Workers, NEW terminal \in BOOLEAN, RunProcessor(w, terminal)
      PROVE  OutcomeInv'
  <2>1. Goto(w, "begin") /\ call'[w].status \in {"ACTIVE", "COMPLETED"}
        /\ \A v \in Workers : v # w => call'[v] = call[v]
    BY <1>0, <1>5 DEF RunProcessor, Calls
  <2> QED
    BY <2>1, OutcomeGoto
<1>6. ASSUME NEW w \in Workers, BeginTurn(w) PROVE OutcomeInv'
  <2>1. Goto(w, "check") /\ call'[w].status = call[w].status /\ pc[w] = "begin"
        /\ \A v \in Workers : v # w => call'[v] = call[v]
    BY <1>0, <1>6 DEF BeginTurn, Calls
  <2>2. call[w].status \in {"ACTIVE", "COMPLETED"}
    BY <2>1 DEF OutcomeInv
  <2> QED
    BY <2>1, <2>2, OutcomeGoto
<1>7. ASSUME NEW w \in Workers, CheckRevision(w) \/ CommitTurn(w) PROVE OutcomeInv'
  <2>1. call' = call /\ call[w].status \in {"ACTIVE", "COMPLETED"}
        /\ (Goto(w, "write") \/ Goto(w, "reply"))
    BY <1>7 DEF CheckRevision, CommitTurn, OutcomeInv
  <2> QED
    BY <2>1, OutcomeGoto
<1>8. ASSUME NEW w \in Workers, WriteTurn(w) PROVE OutcomeInv'
  <2>1. Return(w) \/ (Goto(w, "commit") /\ call' = call)
    BY <1>8 DEF WriteTurn
  <2>2. call[w].status \in {"ACTIVE", "COMPLETED"}
    BY <1>8 DEF WriteTurn, OutcomeInv
  <2> QED
    BY <2>1, <2>2, OutcomeReturn, OutcomeGoto
<1>9. ASSUME NEW w \in Workers, NEW status \in {"COMPLETED", "ERROR"}, NEW dnc \in BOOLEAN,
             StartFinish(w, status, dnc)
      PROVE  OutcomeInv'
  <2>1. PICK step \in {"finish_check", "finish_dnc"} : Goto(w, step)
    BY <1>9 DEF StartFinish
  <2>2. call'[w].status = status /\ \A v \in Workers : v # w => call'[v] = call[v]
    BY <1>0, <1>9 DEF StartFinish, Calls
  <2> QED
    BY <2>1, <2>2, OutcomeGoto
<1>10. ASSUME NEW w \in Workers, CheckFinish(w) PROVE OutcomeInv'
  <2>1. PICK step \in {"finish_write", "finish_dnc"} : Goto(w, step)
    BY <1>10 DEF CheckFinish
  <2>2. call'[w].status = call[w].status
        /\ \A v \in Workers : v # w => call'[v] = call[v]
    BY <1>0, <1>10 DEF CheckFinish, Calls
  <2>3. call[w].status \in {"COMPLETED", "ERROR"}
    BY <1>10 DEF CheckFinish, OutcomeInv
  <2> QED
    BY <2>1, <2>2, <2>3, OutcomeGoto
<1>11. ASSUME NEW w \in Workers, WriteFinish(w) PROVE OutcomeInv'
  BY <1>0, <1>11, OutcomeGoto DEF WriteFinish
<1>12. ASSUME NEW p \in Processes, RestoreProcessor(p) \/ Crash(p) PROVE OutcomeInv'
  BY <1>0, <1>12 DEF TypeOK, RestoreProcessor, Crash, OutcomeInv
<1> QED
  BY <1>1, <1>2, <1>3, <1>4, <1>5, <1>6, <1>7, <1>8, <1>9, <1>10, <1>11, <1>12
     DEF Next, Arrive, Continue, Fail

\* The invariants the refinement rests on hold in every reachable state.
LEMMA PromiseInvariant ==
    ASSUME OneHandlerPerProcess
    PROVE  Spec => []PromiseInv
<1>1. Init => OutcomeInv
  BY DEF Init, OutcomeInv
<1>2. LogInv => TypeOK
  BY DEF LogInv, TypeInv
<1>3. LogInv /\ OutcomeInv /\ [Next]_vars => OutcomeInv'
  BY <1>2, NextOutcome
<1> QED
  BY <1>1, <1>3, LogInvariant, PTL DEF Spec, PromiseInv

------------------------------------------------------------------------------
(* The refinement *)

\* The answers as DurableSession counts them.
Told == UNION {{<<r, answer.seq>> : answer \in acked[r]} : r \in Requests}

\* A pair is told when some answer to that request bears that position.
LEMMA ToldMember ==
    ASSUME NEW x
    PROVE  x \in Told <=> \E r \in Requests : \E answer \in acked[r] : x = <<r, answer.seq>>
  BY DEF Told

\* An answer about a committed turn adds that turn's position, and nothing else.
LEMMA ToldGrows ==
    ASSUME TypeOK, NEW r \in Requests, NEW record \in TurnRecords,
           acked' = [acked EXCEPT ![r] = @ \cup {record}]
    PROVE  Told' = Told \cup {<<r, record.seq>>}
<1>1. \A q \in Requests : acked'[q] = IF q = r THEN acked[r] \cup {record} ELSE acked[q]
  BY DEF TypeOK
<1> QED
  BY <1>1 DEF Told

\* An answer about a committed turn is the abstract SAnswer, or a stutter.
LEMMA AnswerMaps ==
    ASSUME LogInv, NEW r \in Requests, NEW record \in TurnRecords,
           disk.turns[r] = record, disk' = disk,
           acked' = [acked EXCEPT ![r] = @ \cup {record}]
    PROVE  Promise!SAnswer(r)
<1>1. record # None /\ TypeOK
  BY NoneAssumption DEF LogInv, TypeInv
<1>2. record.seq \in 1 .. Len(disk.session.transcript)
      /\ disk.session.transcript[record.seq] = r
  BY <1>1 DEF LogInv, LogExact
<1>3. record.seq \in DOMAIN disk.session.transcript
  BY <1>1, <1>2 DEF TypeOK, Databases, Sessions
<1>4. Told' = Told \cup {<<r, record.seq>>}
  BY <1>1, ToldGrows
<1> QED
  BY <1>2, <1>3, <1>4 DEF Promise!SAnswer, Told

\* Publishing a turn is the abstract commit of its request.
LEMMA GrowMaps ==
    ASSUME LogInv, OutcomeInv, NEW w \in Workers, Grow(w), acked' = acked
    PROVE  Promise!SCommitTurn(call[w].req)
<1>1. call[w].req \in Requests /\ disk.session.status = "ACTIVE"
      /\ disk.turns[call[w].req] = None /\ call[w].row = disk.session
      /\ disk'.session = Committed(w)
  BY GrowFacts
<1>2. disk'.session.transcript = Append(disk.session.transcript, call[w].req)
      /\ disk'.session.status = call[w].status
  BY <1>1 DEF Committed
<1>3. call[w].status \in {"ACTIVE", "COMPLETED"}
  BY DEF Grow, OutcomeInv
<1>4. ~Promise!SInLog(call[w].req)
  <2>1. disk.session.transcript \in Seq(Requests) /\ LogExact(disk)
    BY DEF LogInv, TypeInv, TypeOK, Databases, Sessions
  <2>2. \A i \in DOMAIN disk.session.transcript :
            disk.turns[disk.session.transcript[i]] # None
    BY <2>1 DEF LogExact
  <2> QED
    BY <1>1, <2>2 DEF Promise!SInLog
<1>5. disk'.queue = disk.queue
  <2>1. TurnWrites(w, disk).queue = disk.queue
    BY DEF TurnWrites, UpdateWhere, LogInv, TypeInv, TypeOK, Databases
  <2> QED
    BY <2>1 DEF Grow
<1> QED
  BY <1>1, <1>2, <1>3, <1>4, <1>5 DEF Promise!SCommitTurn

\* Publishing a closed row is the abstract SFinish.
LEMMA CloseMaps ==
    ASSUME LogInv, OutcomeInv, NEW w \in Workers, Close(w), acked' = acked
    PROVE  Promise!SFinish
<1>0. disk \in Databases /\ disk.session \in Sessions
  BY DEF LogInv, TypeInv, TypeOK, Databases
<1>1. disk'.session.status = call[w].status /\ disk.session.status = "ACTIVE"
      /\ disk'.session.transcript = disk.session.transcript
  BY <1>0, CloseFacts DEF Sessions
<1>2. call[w].status \in {"COMPLETED", "ERROR"}
  BY DEF Close, OutcomeInv
<1>3. disk'.queue = disk.queue
  BY <1>0 DEF Close, Databases
<1> QED
  BY <1>1, <1>2, <1>3 DEF Promise!SFinish

\* Every other step leaves the log and the status alone; it may write the DNC entry.
LEMMA OptOutMaps ==
    ASSUME LogInv, Same, acked' = acked,
           disk'.queue = disk.queue \/ disk'.queue = "DNC"
    PROVE  Promise!SOptOut \/ UNCHANGED Promise!svars
  BY DEF Same, Promise!SOptOut, Promise!svars

\* The queue entry changes to DNC only.
LEMMA QueueSteps ==
    ASSUME LogInv, OneHandlerPerProcess, NEW w \in Workers,
           Arrive(w) \/ Continue(w) \/ Fail(w), Same
    PROVE  disk'.queue = disk.queue \/ disk'.queue = "DNC"
<1>0. disk \in Databases
  BY DEF LogInv, TypeInv, TypeOK
<1>1. CASE disk' = disk
  BY <1>1
<1>2. CASE CommitTurn(w)
  <2>1. disk' = TurnWrites(w, disk)
    BY <1>2 DEF CommitTurn, Commit, LogInv, HandlerInv, TxnInv
  <2>2. TurnWrites(w, disk).queue = disk.queue
    BY <1>0 DEF TurnWrites, UpdateWhere, Databases
  <2> QED
    BY <2>1, <2>2
<1>3. CASE WriteFinish(w)
  <2>1. View(Home[w]) = disk /\ pc[w] \notin TxnSteps
    BY <1>3, Outside DEF WriteFinish, TxnSteps
  <2>2. disk' = UpdateWhere(disk, call[w].row.revision, Closed(w))
    BY <1>3, <2>1, WriteOutside DEF WriteFinish
  <2> QED
    BY <1>0, <2>2 DEF UpdateWhere, Databases
<1>4. CASE EndFinish(w)
  <2>1. View(Home[w]) = disk /\ pc[w] \notin TxnSteps
    BY <1>4, Outside DEF EndFinish, TxnSteps
  <2>2. disk' = disk \/ disk' = [disk EXCEPT !.queue = "DNC"]
    BY <1>4, <2>1, WriteOutside DEF EndFinish
  <2> QED
    BY <1>0, <2>2 DEF Databases
<1>5. CASE WriteTurn(w)
  <2>1. InTransaction(Home[w])
    BY <1>5, Inside DEF WriteTurn, TxnSteps
  <2>2. disk' = disk
    BY <1>5, <2>1 DEF WriteTurn, Write, Rollback
  <2> QED
    BY <2>2
<1> QED
  BY <1>1, <1>2, <1>3, <1>4, <1>5
     DEF Arrive, Continue, Fail, ReceiveTurn, Replay, LookupMiss, RejectTurn, ReadSession,
         RunProcessor, ProcessorRaises, BeginTurn, Begin, BeginRaises, CheckRevision,
         StaleCommit, Rollback, CommitRaises, Reply, StartFinish, CheckFinish, FinishRaises

\* Initial states map to initial states.
LEMMA InitMaps == Init => Promise!SInit
<1> SUFFICES ASSUME Init PROVE Promise!SInit
  OBVIOUS
<1>1. disk.session.transcript = << >> /\ disk.session.status = "ACTIVE"
      /\ disk.queue = "IN_PROGRESS"
  BY DEF Init, NewSession
<1>2. Told = {}
  BY DEF Init, Told
<1> QED
  BY <1>1, <1>2 DEF Promise!SInit, Told

\* Every step maps to a step or a stutter.
LEMMA StepMaps ==
    ASSUME OneHandlerPerProcess, PromiseInv, [Next]_vars
    PROVE  [Promise!SNext]_(Promise!svars)
<1>0. LogInv /\ OutcomeInv /\ TypeOK /\ disk \in Databases
  BY DEF PromiseInv, LogInv, TypeInv, TypeOK
<1>1. CASE UNCHANGED vars
  BY <1>1 DEF vars, Promise!svars
<1>2. ASSUME NEW p \in Processes, RestoreProcessor(p) \/ Crash(p)
      PROVE  UNCHANGED Promise!svars
  BY <1>0, <1>2, CrashGood DEF Promise!svars
<1>3. ASSUME NEW w \in Workers, Arrive(w) \/ Continue(w) \/ Fail(w)
      PROVE  [Promise!SNext]_(Promise!svars)
  <2>1. CASE Replay(w) /\ View(Home[w]) = disk
    <3>1. PICK r \in Requests : r = call[w].req
      BY <1>0, <2>1 DEF Replay, LogInv, TypeInv, LocalsOK, TurnSteps
    <3>2. disk' = disk /\ disk.turns[r] \in TurnRecords
          /\ acked' = [acked EXCEPT ![r] = @ \cup {disk.turns[r]}]
      BY <1>0, <2>1, <3>1 DEF Replay, Databases
    <3>3. PICK record \in TurnRecords : record = disk.turns[r]
      BY <3>2
    <3>4. Promise!SAnswer(r)
      BY <1>0, <3>2, <3>3, AnswerMaps
    <3> QED
      BY <3>4 DEF Promise!SNext
  <2>2. CASE Reply(w)
    <3>1. PICK r \in Requests : r = call[w].req
      BY <1>0, <2>2 DEF Reply, LogInv, TypeInv, LocalsOK, TurnSteps
    <3>2. call[w].row \in Sessions
      BY <1>0, <2>2 DEF Reply, LogInv, TypeInv, LocalsOK, RowSteps
    <3>3. TurnRecord(w) \in TurnRecords
      BY <1>0, <3>2 DEF TurnRecord, TurnRecords, TypeOK, Calls, Sessions
    <3>4. PICK record \in TurnRecords : record = TurnRecord(w)
      BY <3>3
    <3>5. disk' = disk /\ disk.turns[r] = record
          /\ acked' = [acked EXCEPT ![r] = @ \cup {record}]
      BY <1>0, <2>2, <3>1, <3>4 DEF Reply, LogInv, HandlerInv, ReplyInv
    <3>6. Promise!SAnswer(r)
      BY <1>0, <3>5, AnswerMaps
    <3> QED
      BY <3>6 DEF Promise!SNext
  <2>3. CASE acked' = acked
    <3>1. GoodStep(w)
      BY <1>0, <1>3, HandlerGood
    <3>2. CASE Grow(w)
      BY <1>0, <2>3, <3>2, GrowMaps, GrowFacts DEF Promise!SNext
    <3>3. CASE Close(w)
      BY <1>0, <2>3, <3>3, CloseMaps DEF Promise!SNext
    <3>4. CASE Same
      BY <1>0, <1>3, <2>3, <3>4, QueueSteps, OptOutMaps DEF Promise!SNext
    <3> QED
      BY <3>1, <3>2, <3>3, <3>4 DEF GoodStep
  <2> QED
    BY <1>0, <1>3, <2>1, <2>2, <2>3, AnswerSteps
<1> QED
  BY <1>1, <1>2, <1>3 DEF Next

\* The session as its clients see it is the durable session promised: an append-only
\* log holding each request once, closed for good, answers about logged turns only.
THEOREM PromiseKept ==
    ASSUME OneHandlerPerProcess
    PROVE  Spec => DurableSessionPromise
<1>1. PromiseInv /\ [Next]_vars => [Promise!SNext]_(Promise!svars)
  BY StepMaps
<1> QED
  BY <1>1, InitMaps, PromiseInvariant, PTL
     DEF Spec, DurableSessionPromise, Promise!SSpec

------------------------------------------------------------------------------
(* What recovery finds in the file *)

\* The handler holds what its turn exported, and has not published it yet.
ExportedSteps == {"begin", "check", "write", "commit"}

\* The exported snapshot belongs to the revision the commit is going to have.
SnapInv ==
    \A w \in Workers : pc[w] \in ExportedSteps =>
        /\ call[w].snap \in Snapshots
        /\ call[w].snap.revision = call[w].row.revision + 1

\* The queue entry, the snapshot and the terminal turn agree with the row.
FileInv ==
    /\ disk.queue \in {"IN_PROGRESS", "DNC"}
    /\ disk.session.turn_count # 0 => disk.snapshot # None
    /\ disk.session.status = "ACTIVE" /\ disk.session.turn_count # 0 =>
          disk.snapshot.revision = disk.session.revision
    /\ \A r \in Requests : disk.turns[r] # None /\ disk.turns[r].terminal =>
          /\ disk.session.status = "COMPLETED"
          /\ disk.turns[r].seq = disk.session.turn_count

\* No request is counted more often than it is in the file.
Fits(tally, turns) ==
    \A r \in Requests : tally[r] <= IF turns[r] = None THEN 0 ELSE 1

\* While a turn is in flight the processor is one execution of it ahead of the
\* coverage a failure restores; otherwise it is not ahead of the file.
CoverageInv(w) ==
    /\ pc[w] = "process" => call[w].pre = processor[Home[w]].covered
    /\ pc[w] \in ExportedSteps =>
          /\ Fits(call[w].pre, disk.turns)
          /\ processor[Home[w]].covered = Bump(call[w].pre, call[w].req)
          /\ call[w].snap.covered = Bump(call[w].pre, call[w].req)
    /\ pc[w] \notin ExportedSteps /\ processor[Home[w]] # None =>
          Fits(processor[Home[w]].covered, disk.turns)

CoveredInv ==
    /\ \A w \in Workers : CoverageInv(w)
    /\ disk.snapshot # None => Fits(disk.snapshot.covered, disk.turns)

ResumeInv ==
    /\ PromiseInv
    /\ SnapInv
    /\ FileInv
    /\ spent.faults = 0 => CoveredInv

\* Every step keeps the exported snapshots bound to the next revision.
LEMMA NextSnap ==
    ASSUME TypeInv, SnapInv, [Next]_vars
    PROVE  SnapInv'
<1>0. call \in [Workers -> Calls] /\ TypeOK /\ pc \in [Workers -> Steps]
  BY DEF TypeInv, TypeOK
<1>1. CASE UNCHANGED vars
  BY <1>1 DEF vars, SnapInv
<1>2. ASSUME NEW w \in Workers, Return(w) PROVE SnapInv'
  BY <1>0, <1>2 DEF SnapInv, Return, ExportedSteps
<1>3. ASSUME NEW w \in Workers, NEW step, Goto(w, step),
             step \in ExportedSteps => pc[w] \in ExportedSteps /\ call' = call,
             \A v \in Workers : v # w => call'[v] = call[v]
      PROVE  SnapInv'
  BY <1>0, <1>3 DEF SnapInv, Goto
<1>4. ASSUME NEW w \in Workers, NEW terminal \in BOOLEAN, RunProcessor(w, terminal)
      PROVE  SnapInv'
  <2>1. processor[Home[w]] \in Processors /\ call[w].req \in Requests
        /\ pc[w] \in RunningSteps
    BY <1>4 DEF RunProcessor, TypeInv, LocalsOK, TurnSteps, RunningSteps
  <2> DEFINE object == [covered |-> Bump(processor[Home[w]].covered, call[w].req),
                        applied |-> Bump(processor[Home[w]].applied, call[w].req)]
  <2>2. object \in Processors
    BY <2>1, BumpType DEF Processors
  <2>3. Export(w, object) \in Snapshots
        /\ Export(w, object).revision = call[w].row.revision + 1
    BY <2>1, <2>2, TurnDataType DEF Export
  <2>4. call' = [call EXCEPT ![w].status = IF terminal THEN "COMPLETED" ELSE "ACTIVE",
                             ![w].snap = Export(w, object)]
        /\ Goto(w, "begin")
    BY <1>4 DEF RunProcessor
  <2> HIDE DEF object
  <2>5. call'[w].snap = Export(w, object) /\ call'[w].row = call[w].row
        /\ \A v \in Workers : v # w => call'[v] = call[v] /\ pc'[v] = pc[v]
    BY <1>0, <2>4 DEF Calls, Goto
  <2> QED
    BY <2>3, <2>5 DEF SnapInv
<1>5. ASSUME NEW w \in Workers,
             \/ Replay(w) \/ RejectTurn(w) \/ ProcessorRaises(w) \/ BeginRaises(w)
             \/ StaleCommit(w) \/ CommitRaises(w) \/ Reply(w)
             \/ FinishRaises(w) \/ EndFinish(w)
      PROVE  SnapInv'
  BY <1>2, <1>5 DEF Replay, RejectTurn, ProcessorRaises, BeginRaises, StaleCommit,
                    CommitRaises, Reply, FinishRaises, EndFinish
<1>6. ASSUME NEW w \in Workers,
             \/ \E r \in Requests : ReceiveTurn(w, r)
             \/ LookupMiss(w) \/ ReadSession(w)
             \/ \E status \in {"COMPLETED", "ERROR"}, dnc \in BOOLEAN :
                   StartFinish(w, status, dnc)
             \/ CheckFinish(w) \/ WriteFinish(w)
      PROVE  SnapInv'
  <2>1. PICK step \in Steps \ ExportedSteps : Goto(w, step)
    BY <1>6 DEF ReceiveTurn, LookupMiss, ReadSession, StartFinish, CheckFinish,
                WriteFinish, Steps, ExportedSteps
  <2>2. \A v \in Workers : v # w => call'[v] = call[v]
    BY <1>0, <1>6 DEF ReceiveTurn, LookupMiss, ReadSession, StartFinish, CheckFinish,
                      WriteFinish
  <2> QED
    BY <1>3, <2>1, <2>2
<1>7. ASSUME NEW w \in Workers, BeginTurn(w) \/ CheckRevision(w) \/ CommitTurn(w)
      PROVE  SnapInv'
  <2>1. call' = call /\ pc[w] \in ExportedSteps
        /\ (Goto(w, "check") \/ Goto(w, "write") \/ Goto(w, "reply"))
    BY <1>7 DEF BeginTurn, CheckRevision, CommitTurn, ExportedSteps
  <2> QED
    BY <1>3, <2>1
<1>8. ASSUME NEW w \in Workers, WriteTurn(w) PROVE SnapInv'
  <2>1. Return(w) \/ (call' = call /\ Goto(w, "commit") /\ pc[w] \in ExportedSteps)
    BY <1>8 DEF WriteTurn, ExportedSteps
  <2> QED
    BY <1>2, <1>3, <2>1
<1>9. ASSUME NEW p \in Processes, RestoreProcessor(p) \/ Crash(p) PROVE SnapInv'
  BY <1>0, <1>9 DEF RestoreProcessor, Crash, SnapInv, ExportedSteps
<1> QED
  BY <1>1, <1>4, <1>5, <1>6, <1>7, <1>8, <1>9 DEF Next, Arrive, Continue, Fail

\* The commit of a turn leaves its own snapshot and, if the turn ended the call, a
\* closed row; it is built on an ACTIVE row, so no earlier turn was terminal.
LEMMA GrowFile ==
    ASSUME LogInv, OutcomeInv, SnapInv, FileInv, NEW w \in Workers, Grow(w)
    PROVE  FileInv'
<1>0. disk \in Databases /\ disk.session \in Sessions /\ call[w] \in Calls
      /\ disk.turns \in [Requests -> TurnRecords \cup {None}]
  BY DEF LogInv, TypeInv, TypeOK, Databases
<1>1. /\ call[w].req \in Requests
      /\ call[w].row = disk.session
      /\ disk.session.status = "ACTIVE"
      /\ disk'.session = Committed(w)
      /\ disk'.turns = [disk.turns EXCEPT ![call[w].req] = TurnRecord(w)]
      /\ disk'.snapshot = call[w].snap
  BY GrowFacts
<1>2. disk'.queue = disk.queue
  <2>1. TurnWrites(w, disk).queue = disk.queue
    BY <1>0 DEF TurnWrites, UpdateWhere, Databases
  <2> QED
    BY <2>1 DEF Grow
<1>3. call[w].snap # None /\ call[w].snap.revision = disk'.session.revision
  BY <1>1, NoneAssumption DEF SnapInv, Grow, ExportedSteps, Committed
<1>4. ASSUME NEW r \in Requests, disk'.turns[r] # None, disk'.turns[r].terminal
      PROVE  disk'.session.status = "COMPLETED"
             /\ disk'.turns[r].seq = disk'.session.turn_count
  <2>1. r = call[w].req
    BY <1>0, <1>1, <1>4 DEF FileInv
  <2>2. disk'.turns[r] = TurnRecord(w)
    BY <1>0, <1>1, <2>1
  <2>3. TurnRecord(w).seq = disk'.session.turn_count
        /\ disk'.session.status = call[w].status
    BY <1>1 DEF TurnRecord, Committed
  <2>4. TurnRecord(w).terminal = (call[w].status = "COMPLETED")
    BY DEF TurnRecord
  <2> QED
    BY <1>4, <2>2, <2>3, <2>4
<1> QED
  BY <1>1, <1>2, <1>3, <1>4 DEF FileInv

\* finish closes an ACTIVE row, so no turn was terminal and no resumption follows.
LEMMA CloseFile ==
    ASSUME LogInv, OutcomeInv, FileInv, NEW w \in Workers, Close(w)
    PROVE  FileInv'
<1>0. disk \in Databases /\ disk.session \in Sessions
  BY DEF LogInv, TypeInv, TypeOK, Databases
<1>1. /\ disk'.session = [disk.session EXCEPT !.status = call[w].status, !.revision = @ + 1]
      /\ disk.session.status = "ACTIVE"
      /\ disk'.turns = disk.turns
      /\ disk'.snapshot = disk.snapshot
  BY CloseFacts
<1>2. call[w].status # "ACTIVE" /\ disk'.queue = disk.queue
  BY <1>0 DEF Close, OutcomeInv, Databases
<1>3. disk'.session.turn_count = disk.session.turn_count /\ disk'.session.status # "ACTIVE"
  BY <1>0, <1>1, <1>2 DEF Sessions
<1> QED
  BY <1>1, <1>2, <1>3 DEF FileInv

\* Every step keeps what recovery relies on in the file.
LEMMA NextFile ==
    ASSUME OneHandlerPerProcess, PromiseInv, SnapInv, FileInv, [Next]_vars
    PROVE  FileInv'
<1>0. LogInv /\ OutcomeInv
  BY DEF PromiseInv
<1>1. ASSUME Same, disk'.queue = disk.queue \/ disk'.queue = "DNC"
      PROVE  FileInv'
  BY <1>1 DEF Same, FileInv
<1>2. CASE UNCHANGED vars
  BY <1>1, <1>2 DEF vars, Same
<1>3. ASSUME NEW p \in Processes, RestoreProcessor(p) \/ Crash(p) PROVE FileInv'
  <2>1. disk' = disk
    BY <1>0, <1>3, CrashGood DEF RestoreProcessor, Crash
  <2> QED
    BY <1>1, <2>1 DEF Same
<1>4. ASSUME NEW w \in Workers, Arrive(w) \/ Continue(w) \/ Fail(w) PROVE FileInv'
  <2>1. GoodStep(w)
    BY <1>0, <1>4, HandlerGood
  <2>2. CASE Same
    BY <1>0, <1>1, <1>4, <2>1, <2>2, QueueSteps
  <2>3. CASE ~Same
    BY <1>0, <2>1, <2>3, GrowFile, CloseFile DEF GoodStep
  <2> QED
    BY <2>2, <2>3
<1> QED
  BY <1>2, <1>3, <1>4 DEF Next

------------------------------------------------------------------------------
(* The coverage it resumes with *)

\* Turns are never lost, so what fitted the file still does.
LEMMA FitsStill ==
    ASSUME NEW tally \in Tallies, NEW before, NEW after, Fits(tally, before),
           \A r \in Requests : before[r] # None => after[r] # None
    PROVE  Fits(tally, after)
<1> SUFFICES ASSUME NEW r \in Requests
             PROVE  tally[r] <= IF after[r] = None THEN 0 ELSE 1
  BY DEF Fits
<1>1. tally[r] \in Nat /\ tally[r] <= IF before[r] = None THEN 0 ELSE 1
  BY DEF Tallies, Fits
<1> QED
  BY <1>1

\* The execution a commit publishes fits the file that has the turn.
LEMMA FitsBumped ==
    ASSUME NEW tally \in Tallies, NEW r \in Requests, NEW before, NEW after,
           Fits(tally, before), before[r] = None, after[r] # None,
           \A q \in Requests : before[q] # None => after[q] # None
    PROVE  Fits(Bump(tally, r), after)
<1>1. Fits(tally, after)
  BY FitsStill
<1>2. tally[r] = 0
  BY DEF Tallies, Fits
<1>3. ASSUME NEW q \in Requests
      PROVE  Bump(tally, r)[q] <= IF after[q] = None THEN 0 ELSE 1
  BY <1>1, <1>2 DEF Tallies, Fits, Bump
<1> QED
  BY <1>3 DEF Fits

\* A handler that comes back leaves a processor that is not ahead of the file.
LEMMA ReturnCovered ==
    ASSUME TypeInv, NEW w \in Workers, Return(w), disk' = disk,
           \/ processor' = processor /\ pc[w] \notin ExportedSteps
           \/ RestoreCoverage(w) /\ pc[w] \in ExportedSteps,
           CoverageInv(w)
    PROVE  CoverageInv(w)'
<1>1. pc'[w] = "idle" /\ Home[w] \in Processes
  BY HomeAssumption DEF Return, TypeInv, TypeOK
<1>2. CASE processor' = processor /\ pc[w] \notin ExportedSteps
  BY <1>1, <1>2 DEF CoverageInv, ExportedSteps
<1>3. CASE RestoreCoverage(w) /\ pc[w] \in ExportedSteps
  <2>1. processor[Home[w]] \in Processors
    BY <1>3 DEF TypeInv, LocalsOK, ExportedSteps, RunningSteps
  <2>2. processor'[Home[w]].covered = call[w].pre
    BY <1>1, <1>3, <2>1 DEF RestoreCoverage, TypeInv, TypeOK, Processors
  <2> QED
    BY <1>1, <1>3, <2>2 DEF CoverageInv, ExportedSteps
<1> QED
  BY <1>2, <1>3

\* A handler that moves on within a turn, or outside one, keeps the relation.
LEMMA GotoCovered ==
    ASSUME TypeInv, NEW w \in Workers, NEW step, Goto(w, step), disk' = disk,
           processor' = processor,
           \/ step \in ExportedSteps /\ pc[w] \in ExportedSteps /\ call' = call
           \/ step \notin ExportedSteps \cup {"process"} /\ pc[w] \notin ExportedSteps,
           CoverageInv(w)
    PROVE  CoverageInv(w)'
<1>1. pc'[w] = step
  BY DEF Goto, TypeInv, TypeOK
<1> QED
  BY <1>1 DEF CoverageInv, ExportedSteps

\* A step without an injected failure keeps the relation of the handler that takes it.
LEMMA HandlerCovered ==
    ASSUME OneHandlerPerProcess, LogInv, NEW w \in Workers, CoverageInv(w),
           Arrive(w) \/ Continue(w) \/ Fail(w), spent'.faults = spent.faults
    PROVE  CoverageInv(w)'
<1>0. TypeInv /\ TypeOK /\ Home[w] \in Processes /\ call \in [Workers -> Calls]
  BY HomeAssumption DEF LogInv, TypeInv, TypeOK
<1>1. ~Injected("processor") /\ ~Injected("io") /\ ~Injected("locked")
  BY <1>0 DEF Injected, TypeOK
<1>2. CASE Replay(w) \/ RejectTurn(w) \/ Reply(w) \/ FinishRaises(w)
  BY <1>0, <1>2, ReturnCovered DEF Replay, RejectTurn, Reply, FinishRaises, ExportedSteps
<1>3. CASE BeginRaises(w) \/ StaleCommit(w) \/ CommitRaises(w)
  BY <1>0, <1>3, ReturnCovered DEF BeginRaises, StaleCommit, CommitRaises, Rollback,
                                   ExportedSteps
<1>4. CASE \/ \E r \in Requests : ReceiveTurn(w, r)
           \/ \E status \in {"COMPLETED", "ERROR"}, dnc \in BOOLEAN :
                 StartFinish(w, status, dnc)
           \/ LookupMiss(w) \/ CheckFinish(w)
  <2>1. PICK step \in {"lookup", "read", "finish_check", "finish_write", "finish_dnc"} :
            Goto(w, step)
    BY <1>4 DEF ReceiveTurn, LookupMiss, StartFinish, CheckFinish
  <2>2. disk' = disk /\ processor' = processor /\ pc[w] \notin ExportedSteps
    BY <1>4 DEF ReceiveTurn, LookupMiss, StartFinish, CheckFinish, ExportedSteps
  <2> QED
    BY <1>0, <2>1, <2>2, GotoCovered DEF ExportedSteps
<1>5. CASE ReadSession(w)
  <2>1. pc'[w] = "process" /\ processor' = processor /\ disk' = disk /\ pc[w] = "read"
        /\ call'[w].pre = processor[Home[w]].covered
    BY <1>0, <1>5 DEF ReadSession, Goto, TypeOK, Calls
  <2> QED
    BY <2>1 DEF CoverageInv, ExportedSteps
<1>6. ASSUME NEW terminal \in BOOLEAN, RunProcessor(w, terminal) PROVE CoverageInv(w)'
  <2> DEFINE object == [covered |-> Bump(processor[Home[w]].covered, call[w].req),
                        applied |-> Bump(processor[Home[w]].applied, call[w].req)]
  <2>1. pc'[w] = "begin" /\ processor' = [processor EXCEPT ![Home[w]] = object]
        /\ call' = [call EXCEPT ![w].status = IF terminal THEN "COMPLETED" ELSE "ACTIVE",
                                ![w].snap = Export(w, object)]
        /\ disk' = disk /\ pc[w] = "process"
    BY <1>0, <1>6 DEF RunProcessor, Goto, TypeOK
  <2>2. object.covered = Bump(processor[Home[w]].covered, call[w].req)
        /\ Export(w, object).covered = object.covered
    BY DEF Export
  <2> HIDE DEF object
  <2>3. processor'[Home[w]] = object /\ call'[w].pre = call[w].pre
        /\ call'[w].req = call[w].req /\ call'[w].snap = Export(w, object)
    BY <1>0, <2>1 DEF TypeOK, Calls
  <2>4. processor[Home[w]] \in Processors
    BY <1>0, <2>1 DEF TypeInv, LocalsOK, RunningSteps
  <2>5. processor[Home[w]] # None
    BY <2>4, NoneAssumption
  <2>6. call[w].pre = processor[Home[w]].covered /\ Fits(call[w].pre, disk.turns)
    BY <2>1, <2>5 DEF CoverageInv, ExportedSteps
  <2> QED
    BY <2>1, <2>2, <2>3, <2>6 DEF CoverageInv, ExportedSteps
<1>7. CASE BeginTurn(w) \/ CheckRevision(w)
  <2>1. PICK step \in {"check", "write"} : Goto(w, step)
    BY <1>7 DEF BeginTurn, CheckRevision
  <2> QED
    BY <1>0, <1>7, <2>1, GotoCovered DEF BeginTurn, Begin, CheckRevision, ExportedSteps
<1>8. CASE WriteTurn(w)
  <2>1. InTransaction(Home[w])
    BY <1>8, Inside DEF WriteTurn, TxnSteps
  <2>2. disk' = disk /\ pc[w] \in ExportedSteps
        /\ \/ Goto(w, "commit") /\ processor' = processor /\ call' = call
           \/ Return(w) /\ RestoreCoverage(w)
    BY <1>8, <2>1 DEF WriteTurn, Write, Rollback, ExportedSteps
  <2> QED
    BY <1>0, <2>2, ReturnCovered, GotoCovered DEF ExportedSteps
<1>9. CASE CommitTurn(w)
  <2>1. pc[w] = "commit" /\ pc'[w] = "reply" /\ processor' = processor
        /\ disk' = TurnWrites(w, disk)
    BY <1>0, <1>9 DEF CommitTurn, Commit, Goto, TypeOK, LogInv, HandlerInv, TxnInv
  <2>2. Grow(w)
    BY <2>1 DEF Grow
  <2>3. /\ call[w].req \in Requests /\ disk.turns[call[w].req] = None
        /\ disk'.turns = [disk.turns EXCEPT ![call[w].req] = TurnRecord(w)]
    BY <2>2, GrowFacts
  <2>4. TurnRecord(w) # None /\ call[w].pre \in Tallies
    BY <1>0, <2>1, TurnDataType, NoneAssumption DEF RunningSteps, TypeInv, LocalsOK
  <2>5. disk.turns \in [Requests -> TurnRecords \cup {None}]
    BY <1>0 DEF TypeOK, Databases
  <2>6. disk'.turns[call[w].req] # None
        /\ \A q \in Requests : disk.turns[q] # None => disk'.turns[q] # None
    BY <2>3, <2>4, <2>5
  <2>7. Fits(call[w].pre, disk.turns)
        /\ processor[Home[w]].covered = Bump(call[w].pre, call[w].req)
    BY <2>1 DEF CoverageInv, ExportedSteps
  <2>8. Fits(Bump(call[w].pre, call[w].req), disk'.turns)
    <3>1. PICK tally \in Tallies, r \in Requests :
              tally = call[w].pre /\ r = call[w].req
      BY <2>3, <2>4
    <3>2. Fits(tally, disk.turns) /\ disk.turns[r] = None /\ disk'.turns[r] # None
      BY <2>3, <2>6, <2>7, <3>1
    <3>3. Fits(Bump(tally, r), disk'.turns)
      BY <2>6, <3>2, FitsBumped
    <3> QED
      BY <3>1, <3>3
  <2> QED
    BY <2>1, <2>7, <2>8 DEF CoverageInv, ExportedSteps
<1>10. CASE WriteFinish(w) \/ EndFinish(w)
  <2>0. pc[w] \in {"finish_write", "finish_dnc"} /\ View(Home[w]) = disk
    BY <1>10, Outside DEF WriteFinish, EndFinish, TxnSteps
  <2>1. pc'[w] \in {"finish_dnc", "idle"} /\ processor' = processor
    BY <1>0, <1>10 DEF WriteFinish, EndFinish, Goto, Return, TypeOK
  <2>2. disk'.turns = disk.turns
    <3>1. Same \/ \E v \in Workers : Close(v) \/ Grow(v)
      BY <1>10, HandlerGood DEF GoodStep, Continue
    <3>2. Same \/ Close(w)
      BY <1>10, <2>0, HandlerGood DEF GoodStep, Continue, Grow
    <3> QED
      BY <3>2, CloseFacts DEF Same
  <2> QED
    BY <2>0, <2>1, <2>2 DEF CoverageInv, ExportedSteps
<1> QED
  BY <1>1, <1>2, <1>3, <1>4, <1>5, <1>6, <1>7, <1>8, <1>9, <1>10
     DEF Arrive, Continue, Fail, ProcessorRaises

\* A handler touches the processor of its own process only.
LEMMA ProcessorMine ==
    ASSUME TypeOK, NEW w \in Workers, Arrive(w) \/ Continue(w) \/ Fail(w),
           NEW p \in Processes, p # Home[w]
    PROVE  processor'[p] = processor[p]
<1>0. processor \in [Processes -> Processors \cup {None}]
  BY DEF TypeOK
<1>1. CASE ProcessorRaises(w)
  BY <1>0, <1>1 DEF ProcessorRaises
<1>2. ASSUME NEW terminal \in BOOLEAN, RunProcessor(w, terminal)
      PROVE  processor'[p] = processor[p]
  BY <1>0, <1>2 DEF RunProcessor
<1>3. CASE RestoreCoverage(w)
  BY <1>0, <1>3 DEF RestoreCoverage
<1>4. CASE processor' = processor
  BY <1>4
<1> QED
  BY <1>1, <1>2, <1>3, <1>4
     DEF Arrive, Continue, Fail, ReceiveTurn, Replay, LookupMiss, RejectTurn, ReadSession,
         BeginTurn, BeginRaises, CheckRevision, StaleCommit, WriteTurn, CommitTurn,
         CommitRaises, Reply, StartFinish, CheckFinish, WriteFinish, FinishRaises, EndFinish

\* Failures are only ever added.
LEMMA FaultsGrow ==
    ASSUME TypeOK, [Next]_vars, spent'.faults = 0
    PROVE  spent'.faults = spent.faults
<1>0. spent.faults \in Nat /\ spent \in [sends : Tallies, finishes : Nat, crashes : Nat,
                                         faults : Nat]
  BY DEF TypeOK
<1>1. ASSUME NEW kind, Injected(kind) PROVE FALSE
  BY <1>0, <1>1 DEF Injected
<1>2. ASSUME NEW w \in Workers, Arrive(w) PROVE spent'.faults = spent.faults
  BY <1>0, <1>2 DEF Arrive, ReceiveTurn, StartFinish
<1>3. ASSUME NEW w \in Workers, Continue(w) PROVE spent'.faults = spent.faults
  BY <1>1, <1>3 DEF Continue, Replay, LookupMiss, RejectTurn, ReadSession, RunProcessor,
                    BeginTurn, CheckRevision, StaleCommit, WriteTurn, CommitTurn, Reply,
                    CheckFinish, WriteFinish, EndFinish
<1>4. ASSUME NEW w \in Workers, Fail(w) PROVE spent'.faults = spent.faults
  BY <1>1, <1>4 DEF Fail, ProcessorRaises, BeginRaises, CommitRaises, FinishRaises
<1>5. ASSUME NEW p \in Processes, RestoreProcessor(p) \/ Crash(p)
      PROVE  spent'.faults = spent.faults
  BY <1>0, <1>5 DEF RestoreProcessor, Crash
<1> QED
  BY <1>2, <1>3, <1>4, <1>5 DEF Next, vars

\* The tallies a handler and its processor hold are tallies.
LEMMA TalliesHeld ==
    ASSUME TypeInv, NEW w \in Workers
    PROVE  /\ pc[w] \in ExportedSteps => call[w].pre \in Tallies
           /\ processor[Home[w]] # None => processor[Home[w]].covered \in Tallies
  BY HomeAssumption
     DEF TypeInv, TypeOK, LocalsOK, ExportedSteps, RunningSteps, Processors

\* A step of one handler does not disturb the coverage of the others.
LEMMA OthersCovered ==
    ASSUME OneHandlerPerProcess, LogInv, NEW w \in Workers,
           Arrive(w) \/ Continue(w) \/ Fail(w), Monotone, OthersStill(w),
           NEW v \in Workers, v # w, CoverageInv(v)
    PROVE  CoverageInv(v)'
<1>1. TypeInv /\ TypeOK /\ Home[v] \in Processes /\ Home[v] # Home[w]
  BY HomeAssumption DEF LogInv, TypeInv, OneHandlerPerProcess
<1>2. processor'[Home[v]] = processor[Home[v]]
  BY <1>1, ProcessorMine
<1>3. pc'[v] = pc[v] /\ call'[v] = call[v]
  BY DEF OthersStill
<1>4. \A r \in Requests : disk.turns[r] # None => disk'.turns[r] # None
  BY DEF Monotone
<1>5. ASSUME NEW tally \in Tallies, Fits(tally, disk.turns)
      PROVE  Fits(tally, disk'.turns)
  BY <1>4, <1>5, FitsStill
<1>6. pc[v] \in ExportedSteps => Fits(call[v].pre, disk'.turns)
  BY <1>1, <1>5, TalliesHeld DEF CoverageInv
<1>7. pc[v] \notin ExportedSteps /\ processor[Home[v]] # None =>
          Fits(processor[Home[v]].covered, disk'.turns)
  BY <1>1, <1>5, TalliesHeld DEF CoverageInv
<1> QED
  BY <1>2, <1>3, <1>6, <1>7 DEF CoverageInv

\* The published snapshot fits: it is the one published before, or the committed
\* turn's, one execution ahead of a coverage that fitted.
LEMMA SnapshotFits ==
    ASSUME LogInv, CoveredInv, Same \/ \E w \in Workers : Grow(w) \/ Close(w),
           disk'.snapshot # None
    PROVE  Fits(disk'.snapshot.covered, disk'.turns)
<1>0. TypeInv /\ disk \in Databases /\ disk.turns \in [Requests -> TurnRecords \cup {None}]
  BY DEF LogInv, TypeInv, TypeOK, Databases
<1>1. CASE Same \/ \E w \in Workers : Close(w)
  <2>1. disk'.snapshot = disk.snapshot /\ disk'.turns = disk.turns
    BY <1>1, CloseFacts DEF Same
  <2> QED
    BY <2>1 DEF CoveredInv
<1>2. ASSUME NEW w \in Workers, Grow(w) PROVE Fits(disk'.snapshot.covered, disk'.turns)
  <2>1. /\ call[w].req \in Requests /\ disk.turns[call[w].req] = None
        /\ disk'.turns = [disk.turns EXCEPT ![call[w].req] = TurnRecord(w)]
        /\ disk'.snapshot = call[w].snap /\ pc[w] = "commit"
    BY <1>2, GrowFacts DEF Grow
  <2>2. TurnRecord(w) # None /\ call[w].pre \in Tallies
    BY <1>0, <2>1, TurnDataType, NoneAssumption DEF RunningSteps, TypeInv, LocalsOK
  <2>3. Fits(call[w].pre, disk.turns)
        /\ call[w].snap.covered = Bump(call[w].pre, call[w].req)
    BY <2>1 DEF CoveredInv, CoverageInv, ExportedSteps
  <2>4. PICK tally \in Tallies, r \in Requests : tally = call[w].pre /\ r = call[w].req
    BY <2>1, <2>2
  <2>5. Fits(tally, disk.turns) /\ disk.turns[r] = None /\ disk'.turns[r] # None
        /\ \A q \in Requests : disk.turns[q] # None => disk'.turns[q] # None
    BY <1>0, <2>1, <2>2, <2>3, <2>4
  <2>6. Fits(Bump(tally, r), disk'.turns)
    BY <2>5, FitsBumped
  <2> QED
    BY <2>1, <2>3, <2>4, <2>6
<1> QED
  BY <1>1, <1>2

\* A processor restored from the file fits it: it starts at the published snapshot,
\* or from nothing.  A dead process has none.
LEMMA RecoveryCovered ==
    ASSUME LogInv, CoveredInv, NEW p \in Processes, RestoreProcessor(p) \/ Crash(p),
           NEW w \in Workers
    PROVE  CoverageInv(w)'
<1> USE HomeAssumption
<1>0. TypeInv /\ TypeOK /\ LocalsOK /\ CoverageInv(w) /\ disk' = disk
  BY DEF LogInv, TypeInv, CoveredInv, RestoreProcessor, Crash, Rollback
<1>1. CASE RestoreProcessor(p) /\ Home[w] = p
  <2>1. processor[p] = None /\ pc' = pc
    BY <1>1 DEF RestoreProcessor
  <2>2. None \notin Processors
    BY NoneAssumption
  <2>3. \A v \in Workers : Home[v] = p => pc[v] \notin RunningSteps
    BY <1>0, <2>1, <2>2 DEF LocalsOK
  <2>4. pc'[w] \notin ExportedSteps \cup {"process"}
    BY <1>1, <2>1, <2>3 DEF RunningSteps, ExportedSteps
  <2>5. View(p) = disk
    BY <2>3 DEF LogInv, LockInv, TxnSteps, RunningSteps, View
  <2>6. processor'[p].covered = NoTurns
        \/ (processor'[p].covered = disk.snapshot.covered /\ disk.snapshot # None)
    BY <1>0, <1>1, <2>5
       DEF RestoreProcessor, RecoveryStatus, FreshProcessor, TypeOK
  <2>7. Fits(NoTurns, disk.turns)
    BY DEF Fits, NoTurns
  <2>8. Fits(processor'[p].covered, disk.turns)
    BY <2>6, <2>7 DEF CoveredInv
  <2> QED
    BY <1>0, <1>1, <2>4, <2>8 DEF CoverageInv, ExportedSteps
<1>2. CASE RestoreProcessor(p) /\ Home[w] # p
  <2>1. processor'[Home[w]] = processor[Home[w]] /\ pc' = pc /\ call' = call
    BY <1>0, <1>2 DEF RestoreProcessor, TypeOK
  <2> QED
    BY <1>0, <2>1 DEF CoverageInv
<1>3. CASE Crash(p) /\ Home[w] = p
  <2>1. pc'[w] = "idle" /\ processor'[Home[w]] = None
    BY <1>0, <1>3 DEF Crash, TypeOK
  <2> QED
    BY <2>1 DEF CoverageInv, ExportedSteps
<1>4. CASE Crash(p) /\ Home[w] # p
  <2>1. pc'[w] = pc[w] /\ call'[w] = call[w] /\ processor'[Home[w]] = processor[Home[w]]
    BY <1>0, <1>4 DEF Crash, TypeOK
  <2> QED
    BY <1>0, <2>1 DEF CoverageInv
<1> QED
  BY <1>1, <1>2, <1>3, <1>4

\* Every step without an injected failure keeps processors and snapshot fitting.
LEMMA NextCovered ==
    ASSUME OneHandlerPerProcess, LogInv, CoveredInv, [Next]_vars,
           spent'.faults = spent.faults
    PROVE  CoveredInv'
<1>1. Same \/ \E w \in Workers : Grow(w) \/ Close(w)
  BY NextLog
<1>2. disk'.snapshot # None => Fits(disk'.snapshot.covered, disk'.turns)
  BY <1>1, SnapshotFits
<1>3. Monotone
  BY <1>1, FileGrows
<1>4. CASE UNCHANGED vars
  BY <1>4 DEF vars, CoveredInv, CoverageInv
<1>5. ASSUME NEW w \in Workers, Arrive(w) \/ Continue(w) \/ Fail(w),
             NEW v \in Workers
      PROVE  CoverageInv(v)'
  <2>1. OthersStill(w) /\ CoverageInv(v)
    BY <1>5, HandlerGood DEF GoodStep, CoveredInv
  <2> QED
    BY <1>3, <1>5, <2>1, HandlerCovered, OthersCovered
<1>6. ASSUME NEW p \in Processes, RestoreProcessor(p) \/ Crash(p), NEW v \in Workers
      PROVE  CoverageInv(v)'
  BY <1>6, RecoveryCovered
<1> QED
  BY <1>2, <1>4, <1>5, <1>6 DEF Next, CoveredInv

\* What bootstrap leaves in the file can be resumed.
LEMMA InitResume == Init => SnapInv /\ FileInv /\ CoveredInv
<1> SUFFICES ASSUME Init PROVE SnapInv /\ FileInv /\ CoveredInv
  OBVIOUS
<1>1. SnapInv
  BY DEF Init, SnapInv, ExportedSteps
<1>2. FileInv
  BY DEF Init, NewSession, FileInv
<1>3. ASSUME NEW w \in Workers PROVE CoverageInv(w)
  <2>1. pc[w] = "idle"
        /\ (processor[Home[w]] = None \/ processor[Home[w]] = FreshProcessor)
    BY <1>3, HomeAssumption DEF Init
  <2>2. Fits(NoTurns, disk.turns)
    BY DEF Fits, NoTurns
  <2> QED
    BY <2>1, <2>2 DEF CoverageInv, FreshProcessor, ExportedSteps
<1>4. disk.snapshot = None
  BY DEF Init
<1> QED
  BY <1>1, <1>2, <1>3, <1>4 DEF CoveredInv

\* The file can be resumed from in every reachable state.
LEMMA ResumeInvariant ==
    ASSUME OneHandlerPerProcess
    PROVE  Spec => []ResumeInv
<1> DEFINE Kept == SnapInv /\ FileInv /\ (spent.faults = 0 => CoveredInv)
<1>1. Init => Kept
  BY InitResume
<1>2. ASSUME PromiseInv, Kept, [Next]_vars PROVE Kept'
  <2>1. LogInv /\ TypeInv /\ TypeOK
    BY <1>2 DEF PromiseInv, LogInv, TypeInv
  <2>2. SnapInv' /\ FileInv'
    BY <1>2, <2>1, NextSnap, NextFile
  <2>3. ASSUME spent'.faults = 0 PROVE CoveredInv'
    <3>1. spent'.faults = spent.faults
      BY <1>2, <2>1, <2>3, FaultsGrow
    <3> QED
      BY <1>2, <2>1, <2>3, <3>1, NextCovered
  <2> QED
    BY <2>2, <2>3
<1>3. PromiseInv /\ Kept /\ [Next]_vars => Kept'
  BY <1>2
<1>4. PromiseInv /\ Kept => ResumeInv
  BY DEF ResumeInv
<1> HIDE DEF Kept
<1> QED
  BY <1>1, <1>3, <1>4, PromiseInvariant, PTL DEF Spec

\* With one handler per process a session can be picked up from the file at any
\* instant: an ACTIVE row has the snapshot of its own revision, a turn that ended the
\* call is the last one and closed the row with it, and without injected failures the
\* coverage it is resumed with counts no turn that lost its race.
THEOREM ResumableCorrect ==
    ASSUME OneHandlerPerProcess
    PROVE  Spec => []Resumable
<1>1. ASSUME ResumeInv PROVE Resumable
  <2>1. FileInv /\ LogExact(disk) /\ disk.session.turn_count \in Nat
    BY <1>1 DEF ResumeInv, PromiseInv, LogInv, TypeInv, TypeOK, Databases, Sessions
  <2>2. RecoveryStatus(disk) \in
            {"RECOVERED_TERMINAL", "RECOVERED_FRESH", "RECOVERED_ACTIVE"}
    BY <2>1 DEF FileInv, RecoveryStatus
  <2>3. RecoveryStatus(disk) = "RECOVERED_ACTIVE" =>
            disk.snapshot.revision = disk.session.revision
    BY <2>1 DEF FileInv, RecoveryStatus
  <2>4. \A r \in Requests : disk.turns[r] # None /\ disk.turns[r].terminal =>
            /\ disk.session.status = "COMPLETED"
            /\ disk.turns[r].seq = Len(disk.session.transcript)
    BY <2>1 DEF FileInv, LogExact
  <2>5. disk.snapshot # None /\ spent.faults = 0 =>
            \A r \in Requests : disk.snapshot.covered[r] <= CommittedTally[r]
    BY <1>1 DEF ResumeInv, CoveredInv, Fits, CommittedTally
  <2> QED
    BY <2>2, <2>3, <2>4, <2>5 DEF Resumable
<1>2. ResumeInv => Resumable
  BY <1>1
<1> QED
  BY <1>2, ResumeInvariant, PTL

------------------------------------------------------------------------------
(* The opt-out, with threads sharing a connection *)

\* Only one connection has a transaction open, and what it will publish has every
\* opt-out that is in the file or was written in it.
OptOutInv ==
    /\ \A p, q \in Processes : InTransaction(p) /\ InTransaction(q) => p = q
    /\ "kept" \in optedOut.fates =>
          /\ disk.queue = "DNC"
          /\ \A p \in Processes : InTransaction(p) => txn[p].queue = "DNC"
    /\ \A p \in optedOut.open : InTransaction(p) /\ txn[p].queue = "DNC"

\* A statement that leaves the queue entry as the connection sees it.
LEMMA WriteKeepsOptOut ==
    ASSUME TypeOK, OptOutInv, NEW p \in Processes, NEW db \in Databases, Write(p, db),
           db.queue = View(p).queue, optedOut' = optedOut
    PROVE  OptOutInv'
<1>1. optedOut.open \subseteq Processes /\ txn \in [Processes -> Databases \cup {None}]
  BY DEF TypeOK, OptOuts
<1>2. CASE InTransaction(p)
  BY <1>1, <1>2, NoneAssumption DEF OptOutInv, Write, View, InTransaction
<1>3. CASE ~InTransaction(p)
  <2>1. \A q \in Processes : txn[q] = None
    BY <1>3 DEF Write, LockFree, InTransaction
  <2> QED
    BY <1>1, <1>3, <2>1 DEF OptOutInv, Write, View, InTransaction
<1> QED
  BY <1>2, <1>3

\* mark_lead_dnc has returned.
LEMMA MarkKeepsOptOut ==
    ASSUME TypeOK, OptOutInv, NEW p \in Processes, OptedOut(p),
           Write(p, [View(p) EXCEPT !.queue = "DNC"])
    PROVE  OptOutInv'
<1> DEFINE db == [View(p) EXCEPT !.queue = "DNC"]
<1>1. /\ optedOut \in OptOuts
      /\ optedOut.open \subseteq Processes
      /\ txn \in [Processes -> Databases \cup {None}]
      /\ View(p) \in Databases
  BY DEF TypeOK, OptOuts, View, InTransaction
<1>2. db.queue = "DNC" /\ db \in Databases
  BY <1>1 DEF Databases
<1>3. Write(p, db)
  OBVIOUS
<1> HIDE DEF db
<1>4. CASE InTransaction(p)
  <2>1. disk' = disk /\ txn' = [txn EXCEPT ![p] = db] /\ db # None
    BY <1>2, <1>3, <1>4, NoneAssumption DEF Write
  <2>2. optedOut'.open = optedOut.open \cup {p} /\ optedOut'.fates = optedOut.fates
    BY <1>1, <1>4 DEF OptedOut, OptOuts
  <2> QED
    BY <1>1, <1>2, <1>4, <2>1, <2>2 DEF OptOutInv, InTransaction
<1>5. CASE ~InTransaction(p)
  <2>1. disk' = db /\ txn' = txn /\ \A q \in Processes : txn[q] = None
    BY <1>3, <1>5 DEF Write, LockFree, InTransaction
  <2>2. optedOut'.open = optedOut.open
    BY <1>1, <1>5 DEF OptedOut, OptOuts
  <2> QED
    BY <1>1, <1>2, <2>1, <2>2 DEF OptOutInv, InTransaction
<1> QED
  BY <1>4, <1>5

\* BEGIN, COMMIT and ROLLBACK.
LEMMA UnitsKeepOptOut ==
    ASSUME TypeOK, OptOutInv, NEW p \in Processes,
           \/ Begin(p) /\ optedOut' = optedOut
           \/ Commit(p) /\ Settle(p, "kept")
           \/ Rollback(p) /\ Settle(p, "lost")
    PROVE  OptOutInv'
<1>1. /\ optedOut \in OptOuts
      /\ optedOut.open \subseteq Processes
      /\ txn \in [Processes -> Databases \cup {None}]
  BY DEF TypeOK, OptOuts
<1>2. CASE Begin(p) /\ optedOut' = optedOut
  BY <1>1, <1>2 DEF Begin, LockFree, OptOutInv, InTransaction
<1>3. CASE Commit(p) /\ Settle(p, "kept")
  <2>1. /\ disk' = txn[p]
        /\ \A q \in Processes : ~InTransaction(q)'
        /\ \A q \in optedOut.open : q = p
    BY <1>1, <1>3 DEF Commit, OptOutInv, InTransaction
  <2>2. optedOut'.open = {}
    BY <1>1, <1>3, <2>1 DEF Settle, OptOuts
  <2>3. "kept" \in optedOut'.fates => p \in optedOut.open \/ "kept" \in optedOut.fates
    BY <1>1, <1>3 DEF Settle, OptOuts
  <2>4. "kept" \in optedOut'.fates => disk'.queue = "DNC"
    BY <1>1, <1>3, <2>1, <2>3 DEF OptOutInv, Commit
  <2> QED
    BY <2>1, <2>2, <2>4 DEF OptOutInv
<1>4. CASE Rollback(p) /\ Settle(p, "lost")
  <2>1. /\ disk' = disk
        /\ \A q \in Processes : InTransaction(q)' =>
              q # p /\ InTransaction(q) /\ txn'[q] = txn[q]
        /\ \A q \in Processes \ {p} : txn'[q] = txn[q]
    BY <1>1, <1>4 DEF Rollback, InTransaction
  <2>2. optedOut'.open = optedOut.open \ {p}
    BY <1>1, <1>4 DEF Settle, OptOuts
  <2>3. "kept" \in optedOut'.fates => "kept" \in optedOut.fates
    BY <1>1, <1>4 DEF Settle, OptOuts
  <2> QED
    BY <1>1, <2>1, <2>2, <2>3 DEF OptOutInv, InTransaction
<1> QED
  BY <1>2, <1>3, <1>4

\* Every step keeps it: the turns' and finish's writes leave the queue entry alone.
LEMMA NextOptOut ==
    ASSUME TypeInv, OptOutInv, [Next]_vars
    PROVE  OptOutInv'
<1>0. TypeOK /\ optedOut.open \subseteq Processes /\ \A w \in Workers : Home[w] \in Processes
  BY HomeAssumption DEF TypeInv, TypeOK, OptOuts
<1>1. ASSUME disk' = disk, txn' = txn, optedOut' = optedOut
      PROVE  OptOutInv'
  BY <1>1 DEF OptOutInv, InTransaction
<1>2. CASE UNCHANGED vars
  BY <1>1, <1>2 DEF vars
<1>3. ASSUME NEW p \in Processes, RestoreProcessor(p) \/ Crash(p)
      PROVE  OptOutInv'
  BY <1>0, <1>1, <1>3, UnitsKeepOptOut DEF RestoreProcessor, Crash
<1>4. ASSUME NEW w \in Workers,
             \/ Arrive(w)
             \/ Replay(w) \/ LookupMiss(w) \/ RejectTurn(w) \/ ReadSession(w)
             \/ \E terminal \in BOOLEAN : RunProcessor(w, terminal)
             \/ CheckRevision(w) \/ Reply(w) \/ CheckFinish(w)
             \/ ProcessorRaises(w) \/ BeginRaises(w) \/ FinishRaises(w)
      PROVE  OptOutInv'
  <2>1. disk' = disk /\ txn' = txn /\ optedOut' = optedOut
    BY <1>4 DEF Arrive, ReceiveTurn, StartFinish, Replay, LookupMiss, RejectTurn,
                ReadSession, RunProcessor, CheckRevision, Reply, CheckFinish,
                ProcessorRaises, BeginRaises, FinishRaises
  <2> QED
    BY <1>1, <2>1
<1>5. ASSUME NEW w \in Workers,
             BeginTurn(w) \/ StaleCommit(w) \/ CommitTurn(w) \/ CommitRaises(w)
      PROVE  OptOutInv'
  BY <1>0, <1>5, UnitsKeepOptOut DEF BeginTurn, StaleCommit, CommitTurn, CommitRaises
<1>6. ASSUME NEW w \in Workers, WriteTurn(w) PROVE OptOutInv'
  <2>1. View(Home[w]) \in Databases
    BY <1>0, ViewType DEF TypeInv
  <2>2. TurnWrites(w, View(Home[w])).queue = View(Home[w]).queue
        /\ TurnWrites(w, View(Home[w])) \in Databases
    <3>1. pc[w] \in RunningSteps
      BY <1>6 DEF WriteTurn, RunningSteps
    <3>2. TurnWrites(w, View(Home[w])) \in Databases
      BY <2>1, <3>1, TurnWritesType
    <3>3. TurnWrites(w, View(Home[w])).queue = View(Home[w]).queue
      BY <2>1 DEF TurnWrites, UpdateWhere, Databases
    <3> QED
      BY <3>2, <3>3
  <2>3. CASE View(Home[w]).turns[call[w].req] = None
    <3>1. Write(Home[w], TurnWrites(w, View(Home[w]))) /\ optedOut' = optedOut
      BY <1>6, <2>3 DEF WriteTurn
    <3> QED
      BY <1>0, <2>2, <3>1, WriteKeepsOptOut
  <2>4. CASE View(Home[w]).turns[call[w].req] # None
    <3>1. Rollback(Home[w]) /\ Settle(Home[w], "lost")
      BY <1>6, <2>4 DEF WriteTurn
    <3> QED
      BY <1>0, <3>1, UnitsKeepOptOut
  <2> QED
    BY <2>3, <2>4
<1>7. ASSUME NEW w \in Workers, WriteFinish(w) PROVE OptOutInv'
  <2>1. View(Home[w]) \in Databases
    BY <1>0, ViewType DEF TypeInv
  <2> DEFINE db == UpdateWhere(View(Home[w]), call[w].row.revision, Closed(w))
  <2>2. db.queue = View(Home[w]).queue /\ db \in Databases
    BY <1>7, <2>1, FinishWritesType DEF UpdateWhere, Databases
  <2>3. Write(Home[w], db) /\ optedOut' = optedOut
    BY <1>7 DEF WriteFinish
  <2> HIDE DEF db
  <2> QED
    BY <1>0, <2>2, <2>3, WriteKeepsOptOut
<1>8. ASSUME NEW w \in Workers, EndFinish(w) PROVE OptOutInv'
  <2>1. \/ OptedOut(Home[w]) /\ Write(Home[w], [View(Home[w]) EXCEPT !.queue = "DNC"])
        \/ disk' = disk /\ txn' = txn /\ optedOut' = optedOut
    BY <1>8 DEF EndFinish
  <2> QED
    BY <1>0, <1>1, <2>1, MarkKeepsOptOut
<1> QED
  BY <1>2, <1>3, <1>4, <1>5, <1>6, <1>7, <1>8 DEF Next, Continue, Fail

\* For any number of threads on each connection: an opt-out that was written by itself
\* or in the transaction of a turn that went through is in the file for good, and one
\* in a transaction still open is in what that will publish; only the rollback of the
\* transaction it was written in takes it back (persistent_runtime.py:505-510).
THEOREM OptOutCorrect == Spec => []OptOutDurable
<1>1. Init => OptOutInv
  BY DEF Init, OptOutInv, InTransaction
<1>2. TypeInv /\ OptOutInv /\ [Next]_vars => OptOutInv'
  BY NextOptOut
<1>3. OptOutInv => OptOutDurable
  BY DEF OptOutInv, OptOutDurable
<1> QED
  BY <1>1, <1>2, <1>3, TypeInvariant, PTL DEF Spec
=============================================================================
