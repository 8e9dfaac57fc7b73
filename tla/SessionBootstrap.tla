-------------------------- MODULE SessionBootstrap --------------------------
(***************************************************************************)
(* PersistentSalesRuntime.start_session: a lead's READY queue entry is     *)
(* consumed and its session created in one transaction, while the answer   *)
(* is remembered under the bootstrap_request_id in a statement of its own. *)
(* Handlers of several processes, DNC writes, a policy being re-registered *)
(* and crashes interleave with it.                                         *)
(*                                                                         *)
(* Abstractions.  A session row is represented by the request that created *)
(* it.  A request in Unplannable is one whose identity, lead or context    *)
(* the checks before the policy refuse, whatever the state of the queue.   *)
(* One campaign.                                                           *)
(***************************************************************************)
EXTENDS Naturals, SqliteConnection

CONSTANTS Workers, Home,
          Requests,     \* bootstrap_request_ids
          Sessions,     \* session ids the clients choose
          Leads,
          SessionOf,    \* request -> the session id it asks for
          LeadOf,       \* request -> the lead it asks for
          Unplannable,
          MaxSends,     \* deliveries of each request
          MaxPolicies,  \* calls of register_default
          MaxCrashes, MaxFaults,
          Faults        \* injected failures: "locked", "factory", "pcie"

Rejections == {"NOT_ELIGIBLE", "CONTEXT_INVALID", "POLICY_NOT_FOUND",
               "PCIE_FAILED", "CONCURRENCY_CONFLICT", "SESSION_CREATION_FAILED"}

Answers == {"CREATED"} \cup Rejections

Databases == [sessions : [Sessions -> Requests \cup {None}],
              queue : [Leads -> {"READY", "IN_PROGRESS", "DNC"}],
              boots : [Requests -> Answers \cup {None}],
              policy : BOOLEAN]

Steps == {"idle", "lookup", "lead", "policy", "plan", "begin", "create",
          "check", "consume", "commit", "register", "record", "insert_default"}

\* The request a handler serves and the answer it is about to give.
Calls == [req : Requests \cup {None}, answer : Answers \cup {None}]

ASSUME BootstrapAssumption ==
    /\ Home \in [Workers -> Processes]
    /\ SessionOf \in [Requests -> Sessions]
    /\ LeadOf \in [Requests -> Leads]
    /\ Unplannable \subseteq Requests
    /\ MaxSends \in Nat /\ MaxPolicies \in Nat
    /\ MaxCrashes \in Nat /\ MaxFaults \in Nat
    /\ Faults \subseteq {"locked", "factory", "pcie"}
    /\ None \notin Databases /\ None \notin Requests /\ None \notin Answers

VARIABLES
    registry,  \* process -> sessions it holds a processor for
    pc, call,
    told,      \* request -> statuses start_session has returned for it
    spent

vars == <<disk, txn, registry, pc, call, told, spent>>

NoCall == [req |-> None, answer |-> None]

Init ==
    /\ disk = [sessions |-> [s \in Sessions |-> None],
               queue |-> [l \in Leads |-> "READY"],
               boots |-> [b \in Requests |-> None],
               policy |-> TRUE]
    /\ txn = [p \in Processes |-> None]
    /\ registry = [p \in Processes |-> {}]
    /\ pc = [w \in Workers |-> "idle"]
    /\ call = [w \in Workers |-> NoCall]
    /\ told = [b \in Requests |-> {}]
    /\ spent = [sends |-> [b \in Requests |-> 0], policies |-> 0,
                crashes |-> 0, faults |-> 0]

------------------------------------------------------------------------------
Goto(w, step) == pc' = [pc EXCEPT ![w] = step]

Return(w) ==
    /\ pc' = [pc EXCEPT ![w] = "idle"]
    /\ call' = [call EXCEPT ![w] = NoCall]

\* The answer is settled: it goes to the idempotency table, then the client.
Answer(w, status) ==
    /\ Goto(w, "record")
    /\ call' = [call EXCEPT ![w].answer = status]

Injected(kind) ==
    /\ kind \in Faults
    /\ spent.faults < MaxFaults
    /\ spent' = [spent EXCEPT !.faults = @ + 1]

Tell(w, status) ==
    told' = [told EXCEPT ![call[w].req] = @ \cup {status}]

Lead(w) == LeadOf[call[w].req]

Session(w) == SessionOf[call[w].req]

------------------------------------------------------------------------------
Receive(w, b) ==
    /\ pc[w] = "idle"
    /\ spent.sends[b] < MaxSends
    /\ spent' = [spent EXCEPT !.sends[b] = @ + 1]
    /\ call' = [call EXCEPT ![w].req = b]
    /\ Goto(w, "lookup")
    /\ UNCHANGED <<disk, txn, registry, told>>

\* 1. Durable idempotency check: a remembered answer is replayed as it is.
Lookup(w) ==
    LET cached == View(Home[w]).boots[call[w].req]
    IN  /\ pc[w] = "lookup"
        /\ \/ /\ cached # None
              /\ Tell(w, cached)
              /\ Return(w)
           \/ /\ cached = None
              /\ Goto(w, "lead")
              /\ UNCHANGED <<call, told>>
        /\ UNCHANGED <<disk, txn, registry, spent>>

\* 2-5. Identity, lead, queue entry, context.
CheckLead(w) ==
    LET status == View(Home[w]).queue[Lead(w)]
    IN  /\ pc[w] = "lead"
        /\ \/ call[w].req \in Unplannable /\ Answer(w, "CONTEXT_INVALID")
           \/ /\ call[w].req \notin Unplannable
              /\ status # "READY"
              /\ Answer(w, "NOT_ELIGIBLE")
           \/ /\ call[w].req \notin Unplannable
              /\ status = "READY"
              /\ Goto(w, "policy")
              /\ UNCHANGED call
        /\ UNCHANGED <<disk, txn, registry, told, spent>>

\* 6. The campaign's default policy at this moment.
ResolvePolicy(w) ==
    /\ pc[w] = "policy"
    /\ \/ View(Home[w]).policy /\ Goto(w, "plan") /\ UNCHANGED call
       \/ ~View(Home[w]).policy /\ Answer(w, "POLICY_NOT_FOUND")
    /\ UNCHANGED <<disk, txn, registry, told, spent>>

\* 7. The pre-call plan.
Plan(w) ==
    /\ pc[w] = "plan"
    /\ \/ Goto(w, "begin") /\ UNCHANGED <<call, spent>>
       \/ Injected("pcie") /\ Answer(w, "PCIE_FAILED")
    /\ UNCHANGED <<disk, txn, registry, told>>

\* 8. create_session_and_consume_lead.
BeginBootstrap(w) ==
    /\ pc[w] = "begin"
    /\ Begin(Home[w])
    /\ Goto(w, "create")
    /\ UNCHANGED <<registry, call, told, spent>>

BeginRaises(w) ==
    /\ pc[w] = "begin"
    /\ \/ InTransaction(Home[w]) /\ UNCHANGED spent
       \/ ~LockFree(Home[w]) /\ Injected("locked")
    /\ Answer(w, "SESSION_CREATION_FAILED")
    /\ UNCHANGED <<disk, txn, registry, told>>

\* sessions.create: the INSERT fails on an existing session id.
CreateSession(w) ==
    LET db == View(Home[w])
    IN  /\ pc[w] = "create"
        /\ \/ /\ db.sessions[Session(w)] = None
              /\ Write(Home[w], [db EXCEPT !.sessions[Session(w)] = call[w].req])
              /\ Goto(w, "check")
              /\ UNCHANGED call
           \/ /\ db.sessions[Session(w)] # None
              /\ Rollback(Home[w])
              /\ Answer(w, "CONCURRENCY_CONFLICT")
        /\ UNCHANGED <<registry, told, spent>>

\* Mutants: the transition refuses DNC only, or nothing.
CheckNotDnc(w) ==
    /\ pc[w] = "check"
    /\ View(Home[w]).queue[Lead(w)] # "DNC"
    /\ Goto(w, "consume")
    /\ UNCHANGED <<disk, txn, registry, call, told, spent>>

CheckNothing(w) ==
    /\ pc[w] = "check"
    /\ Goto(w, "consume")
    /\ UNCHANGED <<disk, txn, registry, call, told, spent>>

\* queue.transition READY -> IN_PROGRESS reads the entry again.
CheckReady(w) ==
    LET status == View(Home[w]).queue[Lead(w)]
    IN  /\ pc[w] = "check"
        /\ \/ /\ status = "READY"
              /\ Goto(w, "consume")
              /\ UNCHANGED <<disk, txn, call>>
           \/ /\ status # "READY"
              /\ Rollback(Home[w])
              /\ Answer(w, "CONCURRENCY_CONFLICT")
        /\ UNCHANGED <<registry, told, spent>>

\* Its UPDATE ... WHERE status = 'READY': matching no row is no error.
ConsumeLead(w) ==
    LET db == View(Home[w])
    IN  /\ pc[w] = "consume"
        /\ Write(Home[w], IF db.queue[Lead(w)] = "READY"
                             THEN [db EXCEPT !.queue[Lead(w)] = "IN_PROGRESS"]
                             ELSE db)
        /\ Goto(w, "commit")
        /\ UNCHANGED <<registry, call, told, spent>>

CommitBootstrap(w) ==
    /\ pc[w] = "commit"
    /\ Commit(Home[w])
    /\ Goto(w, "register")
    /\ UNCHANGED <<registry, call, told, spent>>

\* 9. create_for_session; nothing handles its exceptions.
RegisterProcessor(w) ==
    /\ pc[w] = "register"
    /\ registry' = [registry EXCEPT ![Home[w]] = @ \cup {Session(w)}]
    /\ Answer(w, "CREATED")
    /\ UNCHANGED <<disk, txn, told, spent>>

FactoryRaises(w) ==
    /\ pc[w] = "register"
    /\ Injected("factory")
    /\ Return(w)
    /\ UNCHANGED <<disk, txn, registry, told>>

\* 10 and _reject_bootstrap: an answer already recorded is left as it is.
Record(w) ==
    LET db == View(Home[w])
        b  == call[w].req
    IN  /\ pc[w] = "record"
        /\ IF db.boots[b] = None
              THEN Write(Home[w], [db EXCEPT !.boots[b] = call[w].answer])
              ELSE UNCHANGED <<disk, txn>>
        /\ Tell(w, call[w].answer)
        /\ Return(w)
        /\ UNCHANGED <<registry, spent>>

RecordRaises(w) ==
    /\ pc[w] = "record"
    /\ ~LockFree(Home[w])
    /\ Injected("locked")
    /\ Return(w)
    /\ UNCHANGED <<disk, txn, registry, told>>

------------------------------------------------------------------------------
\* mark_dnc, from a live conversation or an operator.
MarkDnc(p, l) ==
    /\ View(p).queue[l] # "DNC"
    /\ Write(p, [View(p) EXCEPT !.queue[l] = "DNC"])
    /\ UNCHANGED <<registry, pc, call, told, spent>>

\* register_default: two autocommitted statements.
ClearDefault(w) ==
    /\ pc[w] = "idle"
    /\ spent.policies < MaxPolicies
    /\ spent' = [spent EXCEPT !.policies = @ + 1]
    /\ Write(Home[w], [View(Home[w]) EXCEPT !.policy = FALSE])
    /\ Goto(w, "insert_default")
    /\ UNCHANGED <<registry, call, told>>

InsertDefault(w) ==
    /\ pc[w] = "insert_default"
    /\ Write(Home[w], [View(Home[w]) EXCEPT !.policy = TRUE])
    /\ Return(w)
    /\ UNCHANGED <<registry, told, spent>>

Crash(p) ==
    /\ spent.crashes < MaxCrashes
    /\ spent' = [spent EXCEPT !.crashes = @ + 1]
    /\ Rollback(p)
    /\ registry' = [registry EXCEPT ![p] = {}]
    /\ pc' = [w \in Workers |-> IF Home[w] = p THEN "idle" ELSE pc[w]]
    /\ call' = [w \in Workers |-> IF Home[w] = p THEN NoCall ELSE call[w]]
    /\ UNCHANGED told

------------------------------------------------------------------------------
Continue(w) ==
    \/ Lookup(w) \/ CheckLead(w) \/ ResolvePolicy(w) \/ Plan(w)
    \/ BeginBootstrap(w) \/ CreateSession(w) \/ CheckReady(w) \/ ConsumeLead(w)
    \/ CommitBootstrap(w) \/ RegisterProcessor(w) \/ Record(w)
    \/ InsertDefault(w)

Fail(w) == BeginRaises(w) \/ FactoryRaises(w) \/ RecordRaises(w)

Next ==
    \/ \E w \in Workers :
          \/ \E b \in Requests : Receive(w, b)
          \/ ClearDefault(w)
          \/ Continue(w)
          \/ Fail(w)
    \/ \E p \in Processes : Crash(p) \/ \E l \in Leads : MarkDnc(p, l)

Spec == Init /\ [][Next]_vars

------------------------------------------------------------------------------

SessionsFor(l) ==
    {s \in Sessions : disk.sessions[s] # None /\ LeadOf[disk.sessions[s]] = l}

\* "No orphan session, no falsely consumed lead": a lead in progress has exactly
\* one session, a ready one has none, no race or crash gives it two, and a
\* remembered or returned CREATED is about a session that request created.
LeadHasItsSession ==
    /\ \A l \in Leads :
          /\ \A s, t \in SessionsFor(l) : s = t
          /\ disk.queue[l] = "READY" => SessionsFor(l) = {}
          /\ disk.queue[l] = "IN_PROGRESS" => SessionsFor(l) # {}
    /\ \A b \in Requests :
          disk.boots[b] = "CREATED" \/ "CREATED" \in told[b] =>
              disk.sessions[SessionOf[b]] = b

\* Nobody starts talking to a lead that is on the do-not-call list, and a lead
\* never leaves it.
DncIsFinal ==
    [][\A l \in Leads : disk.queue[l] = "DNC" =>
          /\ disk'.queue[l] = "DNC"
          /\ \A s \in Sessions :
                disk'.sessions[s] # disk.sessions[s] =>
                    LeadOf[disk'.sessions[s]] # l]_vars

=============================================================================
