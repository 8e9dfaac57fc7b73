----------------------- MODULE SessionBootstrapProofs -----------------------
(* Theorems about SessionBootstrap, for every value of its constants: any     *)
(* number of handlers may share a connection.                                 *)
EXTENDS SessionBootstrap, TLAPS

TxnSteps == {"create", "check", "consume", "commit"}

TypeInv ==
    /\ disk \in Databases
    /\ txn \in [Processes -> Databases \cup {None}]
    /\ registry \in [Processes -> SUBSET Sessions]
    /\ pc \in [Workers -> Steps]
    /\ call \in [Workers -> Calls]
    /\ told \in [Requests -> SUBSET Answers]
    /\ spent \in [sends : [Requests -> Nat], policies : Nat, crashes : Nat,
                  faults : Nat]

\* A handler has the locals the code has assigned by the step it is at.
LocalInv ==
    \A w \in Workers :
        /\ pc[w] \notin {"idle", "insert_default"} => call[w].req \in Requests
        /\ pc[w] = "record" => call[w].answer \in Answers

\* A unit of work belongs to a handler inside it, and there is one of them in
\* all processes: BEGIN IMMEDIATE waits for the file.
LockInv ==
    /\ \A p \in Processes : InTransaction(p) =>
          \E w \in Workers : Home[w] = p /\ pc[w] \in TxnSteps
    /\ \A w \in Workers : pc[w] \in TxnSteps => InTransaction(Home[w])
    /\ \A v, w \in Workers :
          pc[v] \in TxnSteps /\ pc[w] \in TxnSteps => v = w

Owns(rows, s, l) == rows[s] # None /\ LeadOf[rows[s]] = l

\* The session rows fit a lead's status.
Fits(rows, status, l) ==
    /\ \A s, t \in Sessions : Owns(rows, s, l) /\ Owns(rows, t, l) => s = t
    /\ status = "READY" => \A s \in Sessions : ~Owns(rows, s, l)
    /\ status = "IN_PROGRESS" => \E s \in Sessions : Owns(rows, s, l)

DiskInv == \A l \in Leads : Fits(disk.sessions, disk.queue[l], l)

\* The open unit of work is the file with that handler's session, and with what
\* other threads of the process have written into it: opt-outs, answers, the
\* policy.  Once the lead was found ready nobody else has it, and it had not
\* opted out when the unit of work began.
TxnOf(w) ==
    LET t == txn[Home[w]]
    IN  /\ \A l \in Leads : disk.queue[l] = "DNC" => t.queue[l] = "DNC"
        /\ pc[w] = "create" => t.sessions = disk.sessions
        /\ pc[w] # "create" =>
              /\ disk.sessions[Session(w)] = None
              /\ t.sessions = [disk.sessions EXCEPT ![Session(w)] = call[w].req]
        /\ \A l \in Leads :
              pc[w] \in {"create", "check"} \/ l # Lead(w) =>
                  Fits(disk.sessions, t.queue[l], l)
        /\ pc[w] \in {"consume", "commit"} =>
              /\ \A s \in Sessions : ~Owns(disk.sessions, s, Lead(w))
              /\ disk.queue[Lead(w)] # "DNC"
        /\ pc[w] = "commit" => t.queue[Lead(w)] # "READY"

TxnInv == \A w \in Workers : pc[w] \in TxnSteps => TxnOf(w)

Created(b) == disk.sessions[SessionOf[b]] = b

\* Whoever says CREATED says it of a session that is in the file.
CreatedInv ==
    /\ \A b \in Requests :
          /\ "CREATED" \in told[b] => Created(b)
          /\ disk.boots[b] = "CREATED" => Created(b)
          /\ \A p \in Processes :
                InTransaction(p) /\ txn[p].boots[b] = "CREATED" => Created(b)
    /\ \A w \in Workers :
          \/ pc[w] = "register"
          \/ pc[w] = "record" /\ call[w].answer = "CREATED"
          => Created(call[w].req)

IInv == TypeInv /\ LocalInv /\ LockInv /\ DiskInv /\ TxnInv /\ CreatedInv

\* One step as DncIsFinal wants it.
DncStep ==
    \A l \in Leads : disk.queue[l] = "DNC" =>
        /\ disk'.queue[l] = "DNC"
        /\ \A s \in Sessions :
              disk'.sessions[s] # disk.sessions[s] =>
                  LeadOf[disk'.sessions[s]] # l

------------------------------------------------------------------------------
LEMMA InitInv == Init => IInv
BY BootstrapAssumption
   DEF Init, IInv, TypeInv, LocalInv, LockInv, DiskInv, TxnInv, CreatedInv,
       Fits, Owns, Databases, Steps, Calls, NoCall, TxnSteps, InTransaction,
       Answers, Rejections

\* What a connection sees is a database.
LEMMA ViewType ==
    ASSUME TypeInv, NEW p \in Processes
    PROVE  View(p) \in Databases
BY DEF TypeInv, View, InTransaction

\* No handler enters or leaves the unit of work, or moves in it.
StandStill ==
    \A w \in Workers :
        pc[w] \in TxnSteps \/ pc'[w] \in TxnSteps =>
            pc'[w] = pc[w] /\ call'[w] = call[w]

\* What handlers outside do to the file and to an open unit of work: they leave
\* the sessions alone, opt leads out, and answer CREATED of created sessions.
Aside(p, db) ==
    /\ db \in Databases
    /\ db.sessions = View(p).sessions
    /\ \A l \in Leads : db.queue[l] = View(p).queue[l] \/ db.queue[l] = "DNC"
    /\ \A b \in Requests :
          db.boots[b] = "CREATED" => View(p).boots[b] = "CREATED" \/ Created(b)

DbInv ==
    /\ disk \in Databases
    /\ txn \in [Processes -> Databases \cup {None}]
    /\ LockInv /\ DiskInv /\ TxnInv
    /\ \A b \in Requests :
          /\ disk.boots[b] = "CREATED" => Created(b)
          /\ \A p \in Processes :
                InTransaction(p) /\ txn[p].boots[b] = "CREATED" => Created(b)

LEMMA SameDb ==
    ASSUME IInv, UNCHANGED <<disk, txn>>, StandStill,
           pc' \in [Workers -> Steps]
    PROVE  DbInv' /\ DncStep /\ disk'.sessions = disk.sessions
<1>1. LockInv'
  BY DEF IInv, LockInv, StandStill, InTransaction, TxnSteps
<1>2. DiskInv'
  BY DEF IInv, DiskInv, Fits, Owns
<1>3. TxnInv'
  BY DEF IInv, TxnInv, TxnOf, StandStill, Session, Lead
<1> QED
  BY <1>1, <1>2, <1>3
  DEF IInv, TypeInv, CreatedInv, Created, DbInv, DncStep, InTransaction

LEMMA WriteAside ==
    ASSUME IInv, StandStill, pc' \in [Workers -> Steps],
           NEW p \in Processes, NEW db, Aside(p, db), Write(p, db)
    PROVE  DbInv' /\ DncStep /\ disk'.sessions = disk.sessions
<1>1. CASE InTransaction(p)
  <2>1. disk' = disk /\ txn' = [txn EXCEPT ![p] = db]
    BY <1>1 DEF Write
  <2>2. View(p) = txn[p]
    BY <1>1 DEF View
  <2>3. db # None
    BY BootstrapAssumption DEF Aside
  <2>4. \A q \in Processes : InTransaction(q)' <=> InTransaction(q)
    BY <1>1, <2>1, <2>3 DEF InTransaction, IInv, TypeInv
  <2>5. LockInv'
    BY <2>4, BootstrapAssumption DEF IInv, LockInv, StandStill
  <2>6. DiskInv'
    BY <2>1 DEF IInv, DiskInv, Fits, Owns
  <2>7. TxnInv'
    <3> SUFFICES ASSUME NEW w \in Workers, pc'[w] \in TxnSteps
                 PROVE  TxnOf(w)'
      BY DEF TxnInv
    <3>1. pc'[w] = pc[w] /\ call'[w] = call[w] /\ TxnOf(w)
      BY DEF StandStill, IInv, TxnInv
    <3>2. CASE Home[w] # p
      BY <3>1, <3>2, <2>1, BootstrapAssumption
      DEF TxnOf, Session, Lead, IInv, TypeInv
    <3>3. CASE Home[w] = p
      <4>1. txn'[Home[w]] = db /\ txn[Home[w]] = View(p)
        BY <3>3, <2>1, <2>2, BootstrapAssumption DEF IInv, TypeInv
      <4>2. db.sessions = txn[Home[w]].sessions
            /\ \A l \in Leads : \/ db.queue[l] = txn[Home[w]].queue[l]
                                \/ db.queue[l] = "DNC"
        BY <4>1 DEF Aside
      <4>3. \A l \in Leads :
               Fits(disk.sessions, txn[Home[w]].queue[l], l)
                   => Fits(disk.sessions, db.queue[l], l)
        BY <4>2 DEF Fits
      <4> QED
        BY <3>1, <2>1, <4>1, <4>2, <4>3, BootstrapAssumption
        DEF TxnOf, Session, Lead, IInv, LocalInv, TxnSteps
    <3> QED
      BY <3>2, <3>3
  <2> QED
    BY <1>1, <2>1, <2>2, <2>3, <2>4, <2>5, <2>6, <2>7
    DEF IInv, TypeInv, CreatedInv, Created, DbInv, DncStep, Aside, InTransaction
<1>2. CASE ~InTransaction(p)
  <2>1. disk' = db /\ txn' = txn /\ View(p) = disk
    BY <1>2 DEF Write, View
  <2>2. \A q \in Processes : ~InTransaction(q)
    BY <1>2 DEF Write, LockFree
  <2>3. \A w \in Workers : pc[w] \notin TxnSteps /\ pc'[w] \notin TxnSteps
    BY <2>2, BootstrapAssumption DEF IInv, LockInv, StandStill
  <2>4. LockInv' /\ TxnInv'
    BY <2>1, <2>2, <2>3 DEF LockInv, TxnInv, InTransaction
  <2>5. DiskInv'
    BY <2>1 DEF IInv, DiskInv, Fits, Owns, Aside
  <2> QED
    BY <2>1, <2>2, <2>4, <2>5
    DEF IInv, TypeInv, CreatedInv, Created, DbInv, DncStep, Aside, InTransaction
<1> QED
  BY <1>1, <1>2

\* The rest of the state: handlers, what they told, and the types of both.
RestInv ==
    /\ registry \in [Processes -> SUBSET Sessions]
    /\ pc \in [Workers -> Steps]
    /\ call \in [Workers -> Calls]
    /\ told \in [Requests -> SUBSET Answers]
    /\ spent \in [sends : [Requests -> Nat], policies : Nat, crashes : Nat,
                  faults : Nat]
    /\ LocalInv
    /\ \A b \in Requests : "CREATED" \in told[b] => Created(b)
    /\ \A w \in Workers :
          \/ pc[w] = "register"
          \/ pc[w] = "record" /\ call[w].answer = "CREATED"
          => Created(call[w].req)

LEMMA Parts == DbInv' /\ RestInv' => IInv'
BY DEF IInv, TypeInv, CreatedInv, DbInv, RestInv

LEMMA Rest == IInv => RestInv
BY DEF IInv, TypeInv, CreatedInv, RestInv

SpentType == spent \in [sends : [Requests -> Nat], policies : Nat,
                        crashes : Nat, faults : Nat]

LEMMA AnswerRest ==
    ASSUME RestInv, NEW w \in Workers, NEW status \in Answers, Answer(w, status),
           call[w].req \in Requests, SpentType',
           status = "CREATED" => Created(call[w].req),
           disk'.sessions = disk.sessions, UNCHANGED <<registry, told>>
    PROVE  RestInv'
<1>1. call' \in [Workers -> Calls] /\ pc' \in [Workers -> Steps]
  BY DEF RestInv, Answer, Goto, Calls, Steps
<1>2. /\ pc'[w] = "record" /\ call'[w].req = call[w].req
      /\ call'[w].answer = status
      /\ \A v \in Workers \ {w} : pc'[v] = pc[v] /\ call'[v] = call[v]
  BY DEF RestInv, Answer, Goto, Calls
<1> QED
  BY <1>1, <1>2 DEF RestInv, LocalInv, Created, SpentType

LEMMA GoRest ==
    ASSUME RestInv, NEW w \in Workers, NEW step \in Steps \ {"register", "record"},
           Goto(w, step), call[w].req \in Requests, SpentType',
           disk'.sessions = disk.sessions, UNCHANGED <<registry, call, told>>
    PROVE  RestInv'
<1>1. /\ pc' \in [Workers -> Steps] /\ pc'[w] = step
      /\ \A v \in Workers \ {w} : pc'[v] = pc[v]
  BY DEF RestInv, Goto
<1> QED
  BY <1>1 DEF RestInv, LocalInv, Created, SpentType

LEMMA ReturnRest ==
    ASSUME RestInv, NEW w \in Workers, Return(w), SpentType',
           told' \in [Requests -> SUBSET Answers],
           \A b \in Requests : "CREATED" \in told'[b] => Created(b),
           disk'.sessions = disk.sessions, UNCHANGED registry
    PROVE  RestInv'
<1>1. /\ pc' \in [Workers -> Steps] /\ call' \in [Workers -> Calls]
      /\ pc'[w] = "idle"
      /\ \A v \in Workers \ {w} : pc'[v] = pc[v] /\ call'[v] = call[v]
  BY DEF RestInv, Return, NoCall, Calls, Steps
<1> QED
  BY <1>1 DEF RestInv, LocalInv, Created, SpentType

\* Every step but those of a unit of work.
Outside(w) ==
    \/ \E b \in Requests : Receive(w, b)
    \/ Lookup(w) \/ CheckLead(w) \/ ResolvePolicy(w) \/ Plan(w)
    \/ BeginRaises(w) \/ RegisterProcessor(w) \/ FactoryRaises(w)
    \/ RecordRaises(w)

LEMMA OutsideStep ==
    ASSUME IInv, NEW w \in Workers, Outside(w)
    PROVE  IInv' /\ DncStep
<1> USE BootstrapAssumption DEF Outside
<1>1. UNCHANGED <<disk, txn>>
  BY DEF Receive, Lookup, CheckLead, ResolvePolicy, Plan, BeginRaises,
         RegisterProcessor, FactoryRaises, RecordRaises
<1>2. /\ pc' \in [Workers -> Steps]
      /\ StandStill
  BY DEF Receive, Lookup, CheckLead, ResolvePolicy, Plan, BeginRaises,
         RegisterProcessor, FactoryRaises, RecordRaises, Goto, Return, Answer,
         IInv, TypeInv, StandStill, TxnSteps, Steps
<1>3. DbInv' /\ DncStep /\ disk'.sessions = disk.sessions
  BY <1>1, <1>2, SameDb
<1>4. call[w].req \in Requests \/ pc[w] = "idle"
  BY DEF IInv, LocalInv, Receive, Lookup, CheckLead, ResolvePolicy, Plan,
         BeginRaises, RegisterProcessor, FactoryRaises, RecordRaises
<1>5. RestInv'
  <2> HIDE DEF Outside
  <2>0. RestInv /\ SpentType
    BY Rest DEF RestInv, SpentType
  <2>1. CASE \E b \in Requests : Receive(w, b)
    BY <2>1, <2>0, <1>3
    DEF Receive, RestInv, LocalInv, Created, Calls, Steps, Goto
  <2>2. CASE Lookup(w)
    <3> DEFINE cached == View(Home[w]).boots[call[w].req]
    <3>1. call[w].req \in Requests
      BY <2>2, <1>4 DEF Lookup
    <3>2. cached \in Answers \cup {None} /\ (cached = "CREATED" => Created(call[w].req))
      BY <3>1, ViewType DEF Databases, View, IInv, CreatedInv
    <3>3. CASE cached # None
      <4>1. told' = [told EXCEPT ![call[w].req] = @ \cup {cached}] /\ Return(w)
            /\ UNCHANGED <<registry, spent>>
        BY <3>3, <2>2 DEF Lookup, Tell
      <4>2. told' \in [Requests -> SUBSET Answers]
            /\ \A b \in Requests : "CREATED" \in told'[b] => Created(b)
        BY <4>1, <3>1, <3>2, <3>3, <2>0 DEF RestInv
      <4> QED
        BY <4>1, <4>2, <2>0, <1>3, ReturnRest DEF SpentType
    <3>4. CASE cached = None
      BY <3>1, <3>4, <2>0, <2>2, <1>3, GoRest DEF Lookup, SpentType, Steps
    <3> QED
      BY <3>3, <3>4
  <2>3. CASE CheckLead(w)
    BY <2>3, <2>0, <1>3, <1>4, AnswerRest, GoRest
    DEF CheckLead, SpentType, Answers, Rejections, Steps
  <2>4. CASE ResolvePolicy(w)
    BY <2>4, <2>0, <1>3, <1>4, AnswerRest, GoRest
    DEF ResolvePolicy, SpentType, Answers, Rejections, Steps
  <2>5. CASE Plan(w)
    <3>1. SpentType'
      BY <2>5, <2>0 DEF Plan, Injected, SpentType
    <3> QED
      BY <2>5, <2>0, <3>1, <1>3, <1>4, AnswerRest, GoRest
      DEF Plan, Answers, Rejections, Steps
  <2>6. CASE BeginRaises(w)
    <3>1. SpentType'
      BY <2>6, <2>0 DEF BeginRaises, Injected, SpentType
    <3> QED
      BY <2>6, <2>0, <3>1, <1>3, <1>4, AnswerRest
      DEF BeginRaises, Answers, Rejections
  <2>7. CASE RegisterProcessor(w)
    <3>1. Created(call[w].req)
      BY <2>7, <2>0 DEF RestInv, RegisterProcessor
    <3> QED
      BY <2>7, <2>0, <3>1, <1>3, <1>4
      DEF RegisterProcessor, Answer, Goto, Session, RestInv, LocalInv, Created,
          Calls, Steps, Answers
  <2>8. CASE FactoryRaises(w) \/ RecordRaises(w)
    <3>1. SpentType'
      BY <2>8, <2>0 DEF FactoryRaises, RecordRaises, Injected, SpentType
    <3> QED
      BY <2>8, <2>0, <3>1, <1>3, ReturnRest DEF FactoryRaises, RecordRaises, RestInv
  <2> QED
    BY <2>1, <2>2, <2>3, <2>4, <2>5, <2>6, <2>7, <2>8 DEF Outside
<1> QED
  BY <1>3, <1>5, Parts

LEMMA RecordStep ==
    ASSUME IInv, NEW w \in Workers, Record(w)
    PROVE  IInv' /\ DncStep
<1> USE BootstrapAssumption
<1> DEFINE b == call[w].req
           db == View(Home[w])
           new == [db EXCEPT !.boots[b] = call[w].answer]
<1>1. b \in Requests /\ call[w].answer \in Answers /\ pc[w] = "record"
  BY DEF IInv, LocalInv, Record
<1>2. db \in Databases /\ Home[w] \in Processes
  BY ViewType DEF IInv
<1>3. pc' \in [Workers -> Steps] /\ StandStill
  BY <1>1 DEF Record, Return, IInv, TypeInv, StandStill, TxnSteps, Steps
<1>4. call[w].answer = "CREATED" => Created(b)
  BY <1>1 DEF IInv, CreatedInv
<1>5. DbInv' /\ DncStep /\ disk'.sessions = disk.sessions
  <2>1. CASE db.boots[b] = None
    <3>1. Aside(Home[w], new)
      BY <1>1, <1>2, <1>4 DEF Aside, Databases
    <3>2. Write(Home[w], new)
      BY <2>1 DEF Record
    <3> QED
      BY <1>2, <1>3, <3>1, <3>2, WriteAside
  <2>2. CASE db.boots[b] # None
    BY <2>2, <1>3, SameDb DEF Record
  <2> QED
    BY <2>1, <2>2
<1>6. RestInv'
  BY <1>1, <1>4, <1>5
  DEF Record, Tell, Return, NoCall, RestInv, IInv, TypeInv, LocalInv, CreatedInv,
      Created, Calls, Steps
<1> QED
  BY <1>5, <1>6, Parts

LEMMA MarkDncStep ==
    ASSUME IInv, NEW p \in Processes, NEW l \in Leads, MarkDnc(p, l)
    PROVE  IInv' /\ DncStep
<1>1. Aside(p, [View(p) EXCEPT !.queue[l] = "DNC"])
  BY ViewType DEF IInv, Aside, Databases
<1>2. pc' \in [Workers -> Steps] /\ StandStill
  BY DEF MarkDnc, StandStill, IInv, TypeInv
<1>3. DbInv' /\ DncStep /\ disk'.sessions = disk.sessions
  BY <1>1, <1>2, WriteAside DEF MarkDnc
<1>4. RestInv'
  BY <1>3 DEF MarkDnc, RestInv, IInv, TypeInv, LocalInv, CreatedInv, Created
<1> QED
  BY <1>3, <1>4, Parts

LEMMA PolicyStep ==
    ASSUME IInv, NEW w \in Workers, ClearDefault(w) \/ InsertDefault(w)
    PROVE  IInv' /\ DncStep
<1> USE BootstrapAssumption
<1>1. View(Home[w]) \in Databases /\ Home[w] \in Processes
  BY ViewType DEF IInv
<1>2. \A x \in BOOLEAN : Aside(Home[w], [View(Home[w]) EXCEPT !.policy = x])
  BY <1>1 DEF Aside, Databases
<1>3. pc' \in [Workers -> Steps] /\ StandStill
  BY DEF ClearDefault, InsertDefault, Goto, Return, StandStill, TxnSteps, IInv,
         TypeInv, Steps
<1>4. DbInv' /\ DncStep /\ disk'.sessions = disk.sessions
  BY <1>1, <1>2, <1>3, WriteAside DEF ClearDefault, InsertDefault
<1>5. RestInv'
  <2>0. RestInv
    BY Rest
  <2>1. SpentType'
    BY <2>0 DEF ClearDefault, InsertDefault, SpentType, RestInv
  <2>2. CASE ClearDefault(w)
    BY <2>2, <2>0, <2>1, <1>4
    DEF ClearDefault, Goto, RestInv, SpentType, LocalInv, Created, Steps
  <2>3. CASE InsertDefault(w)
    BY <2>3, <2>0, <2>1, <1>4, ReturnRest DEF InsertDefault, RestInv
  <2> QED
    BY <2>2, <2>3
<1> QED
  BY <1>4, <1>5, Parts

------------------------------------------------------------------------------
\* A unit of work is abandoned, by its handler or with its process.
LEMMA RollbackDb ==
    ASSUME IInv, NEW p \in Processes, Rollback(p), pc' \in [Workers -> Steps],
           \A w \in Workers :
              IF Home[w] = p THEN pc'[w] \notin TxnSteps
                             ELSE pc'[w] = pc[w] /\ call'[w] = call[w]
    PROVE  DbInv' /\ DncStep /\ disk'.sessions = disk.sessions
<1> USE BootstrapAssumption
<1>1. /\ disk' = disk
      /\ txn' \in [Processes -> Databases \cup {None}] /\ txn'[p] = None
      /\ \A q \in Processes \ {p} : txn'[q] = txn[q]
  BY DEF Rollback, IInv, TypeInv
<1>2. LockInv'
  BY <1>1 DEF IInv, LockInv, InTransaction
<1>3. DiskInv'
  BY <1>1 DEF IInv, DiskInv, Fits, Owns
<1>4. TxnInv'
  BY <1>1 DEF IInv, TxnInv, TxnOf, Session, Lead
<1> QED
  BY <1>1, <1>2, <1>3, <1>4
  DEF IInv, TypeInv, CreatedInv, Created, DbInv, DncStep, InTransaction

\* Handler w moves on, inside its unit of work.
Inside(w, step) ==
    /\ pc' \in [Workers -> Steps] /\ pc'[w] = step
    /\ \A v \in Workers \ {w} : pc'[v] = pc[v]
    /\ call' = call

LEMMA GoInside ==
    ASSUME IInv, NEW w \in Workers, NEW step \in Steps, Goto(w, step),
           UNCHANGED call
    PROVE  Inside(w, step)
BY DEF Goto, Inside, IInv, TypeInv

\* It is alone there, and the file is its process's to change.
LEMMA Alone ==
    ASSUME IInv, NEW w \in Workers, pc[w] \in TxnSteps
    PROVE  /\ InTransaction(Home[w]) /\ View(Home[w]) = txn[Home[w]]
           /\ Home[w] \in Processes
           /\ txn[Home[w]] \in Databases
           /\ \A v \in Workers \ {w} : pc[v] \notin TxnSteps
           /\ \A q \in Processes \ {Home[w]} : ~InTransaction(q)
           /\ TxnOf(w)
           /\ call[w].req \in Requests
<1>1. InTransaction(Home[w]) /\ Home[w] \in Processes
  BY BootstrapAssumption DEF IInv, LockInv
<1>2. \A v \in Workers \ {w} : pc[v] \notin TxnSteps
  BY DEF IInv, LockInv
<1>3. \A q \in Processes \ {Home[w]} : ~InTransaction(q)
  BY <1>2 DEF IInv, LockInv
<1>4. call[w].req \in Requests
  BY DEF IInv, LocalInv, TxnSteps
<1> QED
  BY <1>1, <1>2, <1>3, <1>4 DEF View, InTransaction, IInv, TxnInv, TypeInv

\* A step inside a unit of work that leaves the file alone.
LEMMA InsideDb ==
    ASSUME IInv, NEW w \in Workers, pc[w] \in TxnSteps,
           NEW step \in TxnSteps, Inside(w, step),
           NEW db \in Databases, disk' = disk, txn' = [txn EXCEPT ![Home[w]] = db],
           db.boots = txn[Home[w]].boots, TxnOf(w)'
    PROVE  DbInv' /\ DncStep /\ disk'.sessions = disk.sessions
<1> USE BootstrapAssumption
<1>1. /\ txn' \in [Processes -> Databases \cup {None}] /\ txn'[Home[w]] = db
      /\ \A q \in Processes \ {Home[w]} : txn'[q] = txn[q]
      /\ db # None
  BY Alone DEF IInv, TypeInv
<1>2. LockInv'
  BY <1>1, Alone DEF IInv, LockInv, InTransaction, Inside
<1>3. DiskInv'
  BY DEF IInv, DiskInv, Fits, Owns
<1>4. TxnInv'
  BY Alone DEF TxnInv, Inside
<1> QED
  BY <1>1, <1>2, <1>3, <1>4, Alone
  DEF IInv, TypeInv, CreatedInv, Created, DbInv, DncStep, InTransaction

LEMMA BeginStep ==
    ASSUME IInv, NEW w \in Workers, BeginBootstrap(w)
    PROVE  IInv' /\ DncStep
<1> USE BootstrapAssumption
<1>1. /\ \A q \in Processes : ~InTransaction(q)
      /\ \A v \in Workers : pc[v] \notin TxnSteps
      /\ Home[w] \in Processes
      /\ call[w].req \in Requests
  BY DEF BeginBootstrap, Begin, LockFree, IInv, LockInv, LocalInv
<1>2. Inside(w, "create")
  BY GoInside DEF BeginBootstrap, Steps
<1>3. /\ disk' = disk
      /\ txn' \in [Processes -> Databases \cup {None}] /\ txn'[Home[w]] = disk
      /\ \A q \in Processes \ {Home[w]} : txn'[q] = txn[q]
      /\ disk # None
  BY <1>1 DEF BeginBootstrap, Begin, IInv, TypeInv
<1>4. LockInv'
  BY <1>1, <1>2, <1>3 DEF LockInv, InTransaction, Inside, TxnSteps
<1>5. DiskInv'
  BY <1>3 DEF IInv, DiskInv, Fits, Owns
<1>6. TxnInv'
  <2>1. TxnOf(w)'
    BY <1>2, <1>3 DEF TxnOf, Inside, Fits, Owns, IInv, DiskInv
  <2> QED
    BY <2>1, <1>1, <1>2 DEF TxnInv, Inside
<1>7. DbInv' /\ DncStep /\ disk'.sessions = disk.sessions
  BY <1>1, <1>3, <1>4, <1>5, <1>6
  DEF IInv, TypeInv, CreatedInv, Created, DbInv, DncStep, InTransaction
<1>8. RestInv'
  BY <1>1, <1>7, Rest, GoRest DEF BeginBootstrap, Steps, RestInv, SpentType
<1> QED
  BY <1>7, <1>8, Parts

\* A refused transition or a taken session id abandons the unit of work.
LEMMA ConflictStep ==
    ASSUME IInv, NEW w \in Workers, pc[w] \in TxnSteps,
           Rollback(Home[w]), Answer(w, "CONCURRENCY_CONFLICT"),
           UNCHANGED <<registry, told, spent>>
    PROVE  IInv' /\ DncStep
<1>1. /\ pc' \in [Workers -> Steps] /\ pc'[w] = "record"
      /\ \A v \in Workers \ {w} : pc'[v] = pc[v] /\ call'[v] = call[v]
  BY DEF Answer, Goto, IInv, TypeInv, Steps
<1>2. DbInv' /\ DncStep /\ disk'.sessions = disk.sessions
  BY <1>1, Alone, RollbackDb DEF TxnSteps
<1>3. RestInv'
  BY <1>2, Alone, Rest, AnswerRest DEF Answers, Rejections, RestInv, SpentType
<1> QED
  BY <1>2, <1>3, Parts

LEMMA CreateStep ==
    ASSUME IInv, NEW w \in Workers, CreateSession(w)
    PROVE  IInv' /\ DncStep
<1> USE BootstrapAssumption
<1> DEFINE db == txn[Home[w]]
           new == [db EXCEPT !.sessions[Session(w)] = call[w].req]
<1>0. pc[w] \in TxnSteps
  BY DEF CreateSession, TxnSteps
<1>1. CASE /\ db.sessions[Session(w)] = None
           /\ Write(Home[w], new)
           /\ Goto(w, "check")
           /\ UNCHANGED <<call, registry, told, spent>>
  <2>1. Inside(w, "check")
    BY <1>1, GoInside DEF Steps
  <2>2. disk' = disk /\ txn' = [txn EXCEPT ![Home[w]] = new]
    BY <1>0, <1>1, Alone DEF Write
  <2>3. Session(w) \in Sessions /\ db \in Databases /\ new \in Databases
    BY <1>0, Alone DEF Session, Databases
  <2>4. /\ new.queue = db.queue /\ new.boots = db.boots
        /\ new.sessions = [db.sessions EXCEPT ![Session(w)] = call[w].req]
    BY <2>3 DEF Databases
  <2>5. TxnOf(w)'
    <3>1. txn'[Home[w]] = new
      BY <2>2, <1>0, Alone DEF IInv, TypeInv
    <3>2. pc[w] = "create" /\ pc'[w] = "check" /\ call' = call
      BY <2>1 DEF CreateSession, Inside
    <3>3. /\ db.sessions = disk.sessions
          /\ \A l \in Leads : disk.queue[l] = "DNC" => db.queue[l] = "DNC"
          /\ \A l \in Leads : Fits(disk.sessions, db.queue[l], l)
      BY <3>2, <1>0, Alone DEF TxnOf
    <3> HIDE DEF new
    <3> QED
      BY <3>1, <3>2, <3>3, <2>2, <2>4, <1>1 DEF TxnOf, Session, Lead
  <2>6. DbInv' /\ DncStep /\ disk'.sessions = disk.sessions
    BY <1>0, <2>1, <2>2, <2>3, <2>4, <2>5, InsideDb DEF TxnSteps
  <2>7. RestInv'
    BY <1>0, <1>1, <2>6, Alone, Rest, GoRest DEF Steps, RestInv, SpentType
  <2> QED
    BY <2>6, <2>7, Parts
<1>2. CASE Rollback(Home[w]) /\ Answer(w, "CONCURRENCY_CONFLICT")
           /\ UNCHANGED <<registry, told, spent>>
  BY <1>0, <1>2, ConflictStep
<1> QED
  BY <1>0, <1>1, <1>2, Alone DEF CreateSession

LEMMA CheckStep ==
    ASSUME IInv, NEW w \in Workers, CheckReady(w)
    PROVE  IInv' /\ DncStep
<1> USE BootstrapAssumption
<1> DEFINE db == txn[Home[w]]
<1>0. pc[w] \in TxnSteps /\ pc[w] = "check"
  BY DEF CheckReady, TxnSteps
<1>1. CASE /\ db.queue[Lead(w)] = "READY"
           /\ Goto(w, "consume")
           /\ UNCHANGED <<disk, txn, call, registry, told, spent>>
  <2>1. Inside(w, "consume")
    BY <1>1, GoInside DEF Steps
  <2>2. disk' = disk /\ txn' = [txn EXCEPT ![Home[w]] = db] /\ txn' = txn
    BY <1>1 DEF IInv, TypeInv
  <2>3. Lead(w) \in Leads
    BY <1>0, Alone DEF Lead
  <2>4. TxnOf(w)'
    <3>1. pc'[w] = "consume" /\ call' = call
      BY <2>1 DEF Inside
    <3>2. Fits(disk.sessions, "READY", Lead(w))
      <4>1. Fits(disk.sessions, db.queue[Lead(w)], Lead(w))
        BY <2>3, <1>0, Alone DEF TxnOf
      <4> QED
        BY <4>1, <1>1
    <3>3. disk.queue[Lead(w)] # "DNC"
      BY <2>3, <1>0, <1>1, Alone DEF TxnOf
    <3> QED
      BY <3>1, <3>2, <3>3, <2>2, <1>0, Alone DEF TxnOf, Session, Lead, Fits
  <2>5. DbInv' /\ DncStep /\ disk'.sessions = disk.sessions
    BY <1>0, <2>1, <2>2, <2>4, Alone, InsideDb DEF TxnSteps
  <2>6. RestInv'
    BY <1>0, <1>1, <2>5, Alone, Rest, GoRest DEF Steps, RestInv, SpentType
  <2> QED
    BY <2>5, <2>6, Parts
<1>2. CASE Rollback(Home[w]) /\ Answer(w, "CONCURRENCY_CONFLICT")
           /\ UNCHANGED <<registry, told, spent>>
  BY <1>0, <1>2, ConflictStep
<1> QED
  BY <1>0, <1>1, <1>2, Alone DEF CheckReady

LEMMA ConsumeStep ==
    ASSUME IInv, NEW w \in Workers, ConsumeLead(w)
    PROVE  IInv' /\ DncStep
<1> USE BootstrapAssumption
<1> DEFINE db == txn[Home[w]]
           new == IF db.queue[Lead(w)] = "READY"
                     THEN [db EXCEPT !.queue[Lead(w)] = "IN_PROGRESS"]
                     ELSE db
<1>0. pc[w] \in TxnSteps /\ pc[w] = "consume"
  BY DEF ConsumeLead, TxnSteps
<1>1. Inside(w, "commit")
  BY GoInside DEF ConsumeLead, Steps
<1>2. disk' = disk /\ txn' = [txn EXCEPT ![Home[w]] = new]
  BY <1>0, Alone DEF ConsumeLead, Write
<1>3. Lead(w) \in Leads /\ db \in Databases
  BY <1>0, Alone DEF Lead
<1>4. /\ new \in Databases
      /\ new.sessions = db.sessions /\ new.boots = db.boots
      /\ \A l \in Leads \ {Lead(w)} : new.queue[l] = db.queue[l]
      /\ new.queue[Lead(w)] # "READY"
  BY <1>3 DEF Databases
<1>5. TxnOf(w)'
  <2>1. pc'[w] = "commit" /\ call' = call
    BY <1>1 DEF Inside
  <2>2. txn'[Home[w]] = new
    BY <1>0, <1>2, Alone DEF IInv, TypeInv
  <2> HIDE DEF new
  <2> QED
    BY <2>1, <2>2, <1>0, <1>2, <1>3, <1>4, Alone DEF TxnOf, Session, Lead
<1>6. DbInv' /\ DncStep /\ disk'.sessions = disk.sessions
  <2> HIDE DEF new
  <2> QED
    BY <1>0, <1>1, <1>2, <1>4, <1>5, InsideDb DEF TxnSteps
<1>7. RestInv'
  BY <1>0, <1>6, Alone, Rest, GoRest DEF ConsumeLead, Steps, RestInv, SpentType
<1> QED
  BY <1>6, <1>7, Parts

LEMMA CommitStep ==
    ASSUME IInv, NEW w \in Workers, CommitBootstrap(w)
    PROVE  IInv' /\ DncStep
<1> USE BootstrapAssumption
<1> DEFINE t == txn[Home[w]]
           s0 == Session(w)
<1>0. pc[w] \in TxnSteps /\ pc[w] = "commit"
  BY DEF CommitBootstrap, TxnSteps
<1>1. Inside(w, "register")
  BY GoInside DEF CommitBootstrap, Steps
<1>2. /\ disk' = t /\ t \in Databases
      /\ txn' \in [Processes -> Databases \cup {None}]
      /\ \A q \in Processes : txn'[q] = None
  BY <1>0, Alone DEF CommitBootstrap, Commit, InTransaction, IInv, TypeInv
<1>3. \A v \in Workers : pc'[v] \notin TxnSteps
  BY <1>0, <1>1, Alone DEF Inside, TxnSteps
<1>4. /\ s0 \in Sessions /\ Lead(w) \in Leads /\ disk \in Databases
      /\ disk.sessions[s0] = None
      /\ t.sessions = [disk.sessions EXCEPT ![s0] = call[w].req]
  BY <1>0, Alone DEF Session, Lead, TxnOf, IInv, TypeInv
<1>5. /\ t.sessions[s0] = call[w].req /\ call[w].req # None
      /\ \A s \in Sessions \ {s0} : t.sessions[s] = disk.sessions[s]
  BY <1>0, <1>4, Alone DEF Databases
<1>6. LockInv' /\ TxnInv'
  BY <1>2, <1>3 DEF LockInv, TxnInv, InTransaction
<1>7. DiskInv'
  <2> SUFFICES ASSUME NEW l \in Leads PROVE Fits(t.sessions, t.queue[l], l)
    BY <1>2 DEF DiskInv, Fits, Owns
  <2>1. CASE l # Lead(w)
    <3>1. Fits(disk.sessions, t.queue[l], l)
      BY <2>1, <1>0, Alone DEF TxnOf
    <3>2. \A s \in Sessions : Owns(t.sessions, s, l) <=> Owns(disk.sessions, s, l)
      BY <2>1, <1>4, <1>5 DEF Owns, Lead
    <3> QED
      BY <3>1, <3>2 DEF Fits
  <2>2. CASE l = Lead(w)
    <3>1. \A s \in Sessions : ~Owns(disk.sessions, s, l)
      BY <2>2, <1>0, Alone DEF TxnOf
    <3>2. \A s \in Sessions : Owns(t.sessions, s, l) <=> s = s0
      BY <2>2, <3>1, <1>4, <1>5 DEF Owns, Lead
    <3>3. t.queue[l] # "READY"
      BY <2>2, <1>0, Alone DEF TxnOf
    <3> QED
      BY <3>2, <3>3, <1>4 DEF Fits
  <2> QED
    BY <2>1, <2>2
<1>8. DncStep
  <2>1. disk.queue[Lead(w)] # "DNC"
    BY <1>0, Alone DEF TxnOf
  <2>2. \A l \in Leads : disk.queue[l] = "DNC" => t.queue[l] = "DNC"
    BY <1>0, Alone DEF TxnOf
  <2> QED
    BY <2>1, <2>2, <1>2, <1>5 DEF DncStep, Lead
<1>9. /\ \A b \in Requests : Created(b) => Created(b)'
      /\ Created(call[w].req)'
  <2>1. \A b \in Requests : Created(b) => Created(b)'
    <3> SUFFICES ASSUME NEW b \in Requests, Created(b) PROVE Created(b)'
      OBVIOUS
    <3>1. SessionOf[b] \in Sessions \ {s0}
      BY <1>4 DEF Created
    <3> QED
      BY <3>1, <1>2, <1>5 DEF Created
  <2>2. call' = call
    BY <1>1 DEF Inside
  <2> QED
    BY <2>1, <2>2, <1>2, <1>5 DEF Created, Session
<1>10. DbInv'
  <2>1. \A b \in Requests : disk'.boots[b] = "CREATED" => Created(b)'
    BY <1>0, <1>2, <1>9, Alone DEF IInv, CreatedInv
  <2> QED
    BY <1>2, <1>6, <1>7, <2>1 DEF DbInv, InTransaction
<1>11. RestInv'
  <2>1. UNCHANGED <<registry, told, spent, call>>
    BY DEF CommitBootstrap
  <2>2. LocalInv'
    BY <1>0, <1>1, <2>1, Alone DEF LocalInv, Inside, IInv
  <2>3. (\A v \in Workers :
            \/ pc[v] = "register"
            \/ pc[v] = "record" /\ call[v].answer = "CREATED"
            => Created(call[v].req))'
    <3> SUFFICES ASSUME NEW v \in Workers,
                        (\/ pc[v] = "register"
                         \/ pc[v] = "record" /\ call[v].answer = "CREATED")'
                 PROVE  Created(call[v].req)'
      OBVIOUS
    <3>1. CASE v = w
      BY <3>1, <1>9
    <3>2. CASE v # w
      <4>1. /\ pc[v] = pc'[v] /\ call' = call
            /\ call[v].req \in Requests /\ Created(call[v].req)
        BY <3>2, <2>1, <1>1 DEF Inside, IInv, CreatedInv, LocalInv
      <4>2. Created(call[v].req)'
        BY <4>1, <1>2, <1>4, <1>5 DEF Created
      <4> QED
        BY <4>2
    <3> QED
      BY <3>1, <3>2
  <2> QED
    BY <2>1, <2>2, <2>3, <1>1, <1>9, Rest DEF RestInv, Inside
<1> QED
  BY <1>8, <1>10, <1>11, Parts

LEMMA CrashStep ==
    ASSUME IInv, NEW p \in Processes, Crash(p)
    PROVE  IInv' /\ DncStep
<1>1. /\ pc' \in [Workers -> Steps] /\ call' \in [Workers -> Calls]
      /\ \A w \in Workers :
            IF Home[w] = p THEN pc'[w] = "idle"
                           ELSE pc'[w] = pc[w] /\ call'[w] = call[w]
  BY DEF Crash, IInv, TypeInv, Steps, NoCall, Calls
<1>2. DbInv' /\ DncStep /\ disk'.sessions = disk.sessions
  BY <1>1, RollbackDb DEF Crash, TxnSteps
<1>3. RestInv'
  <2>1. /\ registry' \in [Processes -> SUBSET Sessions] /\ told' = told
        /\ SpentType'
    BY DEF Crash, IInv, TypeInv, SpentType
  <2>2. LocalInv'
    BY <1>1 DEF IInv, LocalInv
  <2> QED
    BY <1>1, <1>2, <2>1, <2>2 DEF RestInv, SpentType, IInv, TypeInv, CreatedInv, Created
<1> QED
  BY <1>2, <1>3, Parts

------------------------------------------------------------------------------
LEMMA NextInv == IInv /\ Next => IInv' /\ DncStep
<1> SUFFICES ASSUME IInv, Next PROVE IInv' /\ DncStep
  OBVIOUS
<1>1. CASE \E w \in Workers : Outside(w)
  BY <1>1, OutsideStep
<1>2. CASE \E w \in Workers :
              BeginBootstrap(w) \/ CreateSession(w) \/ CheckReady(w)
                 \/ ConsumeLead(w) \/ CommitBootstrap(w)
  BY <1>2, BeginStep, CreateStep, CheckStep, ConsumeStep, CommitStep
<1>3. CASE \E w \in Workers : Record(w) \/ ClearDefault(w) \/ InsertDefault(w)
  BY <1>3, RecordStep, PolicyStep
<1>4. CASE \E p \in Processes : Crash(p) \/ \E l \in Leads : MarkDnc(p, l)
  BY <1>4, CrashStep, MarkDncStep
<1> QED
  BY <1>1, <1>2, <1>3, <1>4 DEF Next, Continue, Fail, Outside

LEMMA StutterInv == IInv /\ UNCHANGED vars => IInv' /\ DncStep
<1> SUFFICES ASSUME IInv, UNCHANGED vars PROVE IInv' /\ DncStep
  OBVIOUS
<1>1. StandStill /\ pc' \in [Workers -> Steps]
  BY DEF vars, StandStill, IInv, TypeInv
<1>2. DbInv' /\ DncStep
  BY <1>1, SameDb DEF vars
<1>3. RestInv'
  BY Rest DEF vars, RestInv, LocalInv, Created
<1> QED
  BY <1>2, <1>3, Parts

\* Bootstrap keeps IInv whatever the handlers, opt-outs and crashes do.
THEOREM Invariant == Spec => []IInv
<1>1. IInv /\ [Next]_vars => IInv'
  BY NextInv, StutterInv
<1> QED
  BY InitInv, <1>1, PTL DEF Spec

\* No orphan session and no falsely consumed lead: the database and the answers
\* about it agree in every state start_session can leave.
THEOREM LeadCorrect == Spec => []LeadHasItsSession
<1>1. IInv => LeadHasItsSession
  BY DEF IInv, DiskInv, CreatedInv, Created, Fits, Owns, LeadHasItsSession,
         SessionsFor
<1> QED
  BY Invariant, <1>1, PTL

\* mark_dnc is final, and it wins against any start_session in flight.
THEOREM DncCorrect == Spec => DncIsFinal
<1>1. IInv /\ [Next]_vars =>
         [\A l \in Leads : disk.queue[l] = "DNC" =>
             /\ disk'.queue[l] = "DNC"
             /\ \A s \in Sessions :
                   disk'.sessions[s] # disk.sessions[s] =>
                       LeadOf[disk'.sessions[s]] # l]_vars
  BY NextInv DEF DncStep
<1> QED
  BY Invariant, <1>1, PTL DEF Spec, DncIsFinal

=============================================================================
