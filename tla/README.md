# A TLA+ verification of call_forge

call_forge runs sales conversations: a lead is taken from a campaign queue, a
session is created for it, the prospect's turns are processed one by one
through a conversation pipeline, and the session ends with an outcome. The live
deployment keeps sessions in one SQLite file shared by the request handlers of
one or more server processes. This directory models the parts of the program
where order, failure and retry decide correctness, checks the models with TLC
and proves the central properties with TLAPS.

All paths below are relative to the repository's `app/` directory unless they
start with `tests/`.

## 1. Inventory

| Component | State it keeps | Operations | Hard behaviour | What makes it correct |
|---|---|---|---|---|
| SQLite connection (`persistence/sqlite/connection.py`) | the file, one open transaction per connection | `transaction()`, autocommit statements | one connection shared by the thread pool (`check_same_thread=False`), busy file, failing COMMIT | a unit of work is published whole or not at all; the lock is always given back |
| Repositories and stores (`persistence/sqlite/*`) | sessions, queue, policies, bootstrap answers, turn records, snapshots | CRUD, optimistic revision, queue transition, DNC | check-then-write in separate statements | revisions linear, DNC final |
| Persistent runtime (`application/sales_runtime/persistent_runtime.py`) | registry of live processors, everything in the file | `start_session`, `process_turn`, `finish_session`, `mark_lead_dnc`, `restore_processor_if_possible` | retries, concurrent handlers, crash between steps, memory ahead of the file | one history per session, answers durable, closed is final |
| Recovery (`application/sales_runtime/recovery.py`) | none | `recover` | runs after a crash on whatever is in the file | an active session is always resumable |
| API (`api/routes`, `api/websocket`) | none | start, turn, finish, WebSocket chat | thread pool, stale read before the call | errors reach the client, no double turn |
| Turn coordinator (`runtime/turn_coordinator.py`) | last sequence, event ids, turn ids, active delivery, interruptions | `handle(event)` | duplicated, late, reordered events; barge-in; failing turns; hang-up | a turn runs once and in order, one voice at a time, interruptions told |
| Turn processor (`application/production_turn_processor.py`) | trusted context, turn and reasoning-call counts, coverage, business conversation, participant, stage | `process_turn`, `export_snapshot` | counts and context ahead of the commit, a snapshot that holds part of the state | the budget follows the committed turns; only the confirmed contact qualifies |
| Brain (`brain/`) | none | priority, budget, scope, authority | which gate wins: priority, budget, provider, scope, authority | an opt-out ends the call whatever the other gates would say |
| Conversation engine, state machine, guardrails (`conversation/`) | machine state, detour stack; context with candidate, offers, clarification | `execute_approved_action`, `execute_authority_approved_action`, `apply_transition` | detours, bounded clarification, contact correction, fallbacks of fallbacks, restart with half the state | a misstep never ends the call, a question returns, an opt-out always ends |
| Participants, supervisor, business memory (`conversation/participant`, `supervisor`, `prospect_intelligence`, `business_conversation`, `qualification`, the processor's fields) | who speaks, what each heard, what is known of person and business, the newest advice | continuity decision, update, archive, record and consume advice, export, restore | handoffs, late and repeated advice, failed commits, a restart from a partial snapshot | nobody gets another's words, a restart forgets nothing it promised to keep, advice in order |
| Diagnosis, steering, mental model, playbook (`conversation/business_diagnostic`, `conversation_steering`, `business_memory`, `sales_playbook`) | graph with archive, curiosity memory | one function each per turn | what is replaced, corrected, asked or offered over many turns | the model is current, nothing asked twice, advice fits |
| Context, strategy, policies, plan, words (`conversation/context`, `strategy`, `sales_cognition`, `consultative`, `escalation`, `response_planning`, `response_rendering`, `realization`, `brain`) | stage, recent questions, pending problem | one function each per turn | many gates, each over a part of the reply; a provider that words anything | nothing beyond evidence, authority and capability |
| Knowledge (`knowledge/`) | document versions, snapshots, an index, what was told | upload, publish, archive, prepare, index, plan, retrieve, validate, teach, ground | the index holds copies of older versions, backends fail or answer wrongly, filters in sequence | nothing unpublished, contradicted or outdated is told; no text lost in preparation |
| Lead intake, pre-call plan (`leads/importer`, `normalizer`, `enrichment`, `precall`) | none | import, reconcile, plan | a provider contradicts the file or fails | the plan takes nothing for known that is not |
| Campaign queue (`leads/campaign`, `persistence/sqlite/repositories.py`) | queue entries | select, transition, save, DNC | old copies of an entry, read-then-replace | one call per lead, DNC never regressed |
| In-memory chat runtime, bootstrap, lifecycle, outcome (`runtime/chat`) | dictionaries, a processor per session | bootstrap, turn, finish, outcome | two threads in one session, retries, a failing processor | a transcript of what was answered, honest outcomes |
| Export, browser client, LLM providers, models, repositories, services, workers, voice, simulations | files, rows or none | text, parsing, thin CRUD | - | unit tests reach them, or the running program does not compose them |

Interactions: a route reads the session and calls the runtime; the runtime
calls the processor in memory, then writes session, snapshot and idempotency
row through one connection; the queue entry of the lead is consumed with the
session and later only marked DNC; the turn coordinator wraps `process_turn`
for a voice transport.

## 2. Modules

| Module | Models | Built on |
|---|---|---|
| `SqliteConnection` | the file, one transaction per process, lock, autocommit, joining statements | - |
| `SalesRuntime` | a live session: turns, finish, DNC, crash, processor recovery | `SqliteConnection`; refines `DurableSession` |
| `DurableSession` | the abstract promise of `SalesRuntime` | - |
| `SessionBootstrap` | `start_session`, DNC, policy replacement, crash, retry | `SqliteConnection` |
| `TurnCoordinator` | the voice event handler | `Python` |
| `ConversationTurn` | execution of a turn: priority, budget, approval, validator, machine, fallback, clarification, confirmation, commit, restart | - |
| `CallMemory` | what one call remembers, over turns, commits, failures and restarts | `ProspectIntelligence` (people and what is known of them), `BusinessConversation` |
| `Insight` | the playbooks, and what the processor makes of the business it hears of | `Steering` (diagnosis, steering, mental model) |
| `Reply` | the reply pipeline of a turn, from context to words | `BrainDecision`, `SalesStrategy`, `Consultative`, `Escalation`, `ResponsePlanner`, `ResponseRenderer` |
| `KnowledgeCall` | a knowledge base from upload to what is said of it | `Library`, `Evidence`, `SalesKnowledge` |
| `ChatCampaign` | a campaign through the in-memory runtime | `Leads` (import, what is known before a call, the queue, the outcome) |
| `Python` | `None`, list comprehensions, the update of a dict and `sorted` | - |
| `MC...` | the instances TLC checks | the module they are named after |
| `...Proofs` | theorems | the module they are named after; `TurnProofs` on `TurnCoordinator` and `Reply` |

### The file and its connections: `SqliteConnection`

`disk` is the committed content of the file and `txn[p]` the unit of work open
on the connection of process `p`. `Begin` is `BEGIN IMMEDIATE`, enabled while no
other connection holds the write lock. A statement executed while the
connection is inside a transaction joins it, whichever thread executes it: the
connection is opened with `check_same_thread=False` and the route handlers run
in a thread pool. Waiting for the lock is the disabled action; its time-out
(`busy_timeout`) is a failure the modules above inject ("locked").

### A live session: `SalesRuntime`

A handler (`Workers`) executes a call step by step; `pc` is where it is and
`call` its arguments and locals, so that what it read before is stale exactly
as in the code. The steps of `process_turn` are the lookup of the idempotency
row, the read of the session with its checks, the processor's work in memory,
`BEGIN`, the revision check of `sessions.update`, the writes, `COMMIT` and the
reply; `finish_session` is read, check of the revision, UPDATE, and the DNC
write. A route reads the session before it calls `process_turn`
(`ReceiveTurn`), which is where the expected sequence number comes from.

A request stands for its message, so a transcript is a sequence of requests.
The processor object is two counts per request: `covered`, the executions in
the part of its state that a failed commit restores (`_discussion_coverage`,
`_reasoning_calls`), and `applied`, those in the rest of what it exports. The
three statements of a turn's unit of work after the revision check are one
step, and so are the several reads of recovery.

Failures: a BEGIN or UPDATE that times out on the lock ("locked"), a COMMIT
that fails ("io"), a processor that raises ("processor"), a process that
dies at any step and loses its transaction, its registry and its handlers.
`restore_processor_if_possible` runs at any time in any process; it is called
by tests only, the routes and `main.py` never ask for it.

### Starting one: `SessionBootstrap`

The same handlers and connections, with sessions, the queue entries of the
leads, the bootstrap answers and the default policy in the file.
`register_default` is two autocommitted statements and is modelled as two. A
session row is the request that created it; an `Unplannable` request is one the
checks on identity, lead and context refuse whatever the queue says.

### A voice call: `TurnCoordinator`

One action per kind of event with each of its early returns; a turn that is
processed, and one whose processing raises, are two actions after the
interruption has been decided. `issued` is the history of the instructions the
player was given, `runs` of the turns the processor was given.

### Inside a turn: `ConversationTurn`

`Rules` and `StateFallback` are `conversation_config.yaml`; `Valid`, `Applied`,
`FallbackPath`, `RunClarification`, `HandleConfirmation` and `OfferPath` are the
validator, the machine and the engine's paths, each giving the new machine and
context and the path taken. The actions are what the orchestrator can decide:
a trusted priority, a wind-down, nothing approved, or an approved action by one
of the engine's specialised paths. `Take` is what the processor does around all
of them. What the provider proposes and what scope, authority and service
selection make of it is external: any verdict.

A turn is two steps, because the runtime commits what the processor has already
done in memory. Between them: `Commit`; `CommitFails`, which puts the call count
back and nothing else; `TurnRaises`, planning or rendering failing after the
engine has run, which puts nothing back; `Restart`, a new process with only
the snapshot. The snapshot holds the machine's state and the call count; the
candidate, the offers, the clarification, the detour stack and the turn count
are not in it. `Restart` hands the count to the processor as the factory of the
canonical end-to-end test does; see the divergence below on `main.py`.

### What a call remembers: `CallMemory`

`live` is the part of `ProductionTurnProcessor` that outlives a turn and is not
the machine: the active participant and the archived ones, prospect
intelligence, the business conversation, qualification, discussion coverage,
the language and the supervisor's buffer. `Turn(u)` is a turn with everything
that changes them in the processor's order - `Advised`, `Heard`, `Speaking`,
`Learned`, `Qualified`, `Delivered`, `Completed` -, `TurnRefused` and
`TurnOverflows` the two ways it raises. The utterance says what the providers
make of it. `Commit` saves the payloads (`Export`), `CommitFails` restores the
coverage and nothing else, `Restart` rebuilds the memory (`Recalled`) from
`saved`. `BeginAnalysis` and `RecordAnalysis` are the supervisor's background
work: it ends at any time, in any order, after handoffs and restarts.
`discarded` is a history that tells when a reference was minted for nobody.

### What a call makes of the business: `Insight`

A turn on the normal path files the evidence (`BusinessConversation`),
diagnoses and steers, projects the mental model (`Steering`) and consults the
playbooks (`Evaluate`). A turn a trusted fact decides skips all of it and clears
steering and guidance. The order is the processor's: the context of the turn is
built, then the Brain's offer - of any eligible service, advised or not - is
executed, then the playbooks advise from that context. `shown` is what it showed
as offered, `offered` what has been offered by now. What the prospect says of the
problem (impact, whether it matters) is the prospect's own and independent of the
problems noted of the business.

### What a turn says: `Reply`

Each stage of `process_turn` is an action, so that it can be compared with the
code's order: hear, lean context, strategy, Brain, escalation and consultative
decision, guidance, plan, render and realize (`Hear`, `Decide`, `Consult`,
`Respond`). `turn` is what the stages have found out so far about the utterance
`turn.heard`, `Seen` the call as the context of the turn shows it. A statement,
clause or question is a model value; a text is a sequence of sets of them, so
that the number of sentences and what they say remain. What a model proposes
(`Proposals`), how a provider words the plan (`Candidates`) and how far the engine
gets with what was approved (`Outcomes`) is arbitrary: the properties are about
what the gates let through.

`Decide` does not run the state machine, which is `ConversationTurn`'s: the action
it took is the approved one, another contact action the resolution called for, one
the configuration names as a recovery (`Recoveries`), or none. A recovery is passed
to the planner like any other action. A contact becomes a candidate when it was
understood and is confirmed only by the action that ends the call with it; a call
can also start with a confirmed one, from the context its caller passes.

A candidate is its text and what the strict reader of `realization/validator.py`
finds in it: marks of what must not be said, and its terms, the words of capability
and the numbers. A word of capability must be in an approved statement the text
quotes; a number passes when its digits occur anywhere in the approved text
(lines 114-116), so `Business.covers` says which numbers the characters of a
statement happen to contain, and `Business.found` which the reader finds in it.
`EvidenceOnly` therefore says two things: the agent's own words state only
approved evidence; a provider's have no term that the characters of approved
evidence do not contain. That the number is the number of the same thing, nobody
checks. The reader does not look for offers of a follow-up, so `OfferIsBacked` is
about the agent's own words (`reply.worded` says whose they are). The processor
never asks for a disclosure of identity, so the branch for it is there and not
taken (`disclose`). What may be executed is stated once, as `Permitted`.

### What it knows: `KnowledgeCall`

`Library` is the registry and the preparation of a document down to lines,
sections and chunks; `Evidence` plans, merges two ranked lists, and filters
claims by scope, status, version, conflict and duplication; `SalesKnowledge`
chooses what to teach (`Design`) and turns it into what is said (`Compose`). `Index` copies
what the library holds at that moment, so that later turns meet stale copies.

### A campaign: `ChatCampaign`

Two drivers select leads from the queue, each keeps the copy of the entry it was
given, bootstraps a session, lets callers submit turns, and records the outcome
with that copy. `Terminate`, `RetryBootstrap`, `MarkDnc` and `PauseOrResume` come
at any time.

No store takes a lock, and each compares before it writes, so a write is two steps:

| Operation | Reads and compares | Writes |
|---|---|---|
| a turn, a termination (`runtime/chat/repository.py:41-49`) | `CompareTurn`, `Terminate` | `StoreSession` |
| `transition` (`persistence/sqlite/repositories.py:312-334`) | `CompareEntry` | `MoveEntry`: a row whose status is another by then stays as it is, and the driver is told it moved |
| `save` (261-281) | `Record` | `SaveEntry`: the row is replaced |

A turn has a third step before them, the copy of the session the processor works
on (`BeginTurn`). `Bootstrap` is the checks up to the creation of the session, with
whatever may be wrong with the request (`Troubles`); then the queue moves, or
refuses or fails and the session is taken back (`TakeBack`). `crossedLeads` and
`crossedSessions` are histories: they hold the leads and sessions that somebody
wrote, or compared in order to write, between another's comparison and write. The
properties say what holds where that did not happen; where it did, a lead may be
called twice, an opt-out or a turn be lost (section 5). One request has one session id, and no two
drivers send the same request at once.

## 3. Runs

| Run | Question | Result |
|---|---|---|
| `isolated` | Two processes, one handler each, two requests sent twice, a finish, a DNC, a crash, a failure of any kind: is there one history per session? | passes, with the abstract promise |
| `threads` | Two threads on one connection and a third in another process, with a DNC write that may join another thread's transaction: is the opt-out in the file unless that transaction was rolled back, and does every handler come back? | passes, the latter under weak fairness |
| `bootstrap` | Three requests, two for one lead and two for one session id, in two processes with three handlers, DNC, policy change, crash: one session per consumed lead, and nobody bootstraps an opted-out lead? | passes |
| `voice_call` | Six events in every order and repetition: turns once and in order, one voice, interruptions told? | passes, with deadlock check |
| `conversation` | Every path of a turn, with failing commits, raising turns and restarts: opt-outs end, missteps do not, the confirmed contact qualifies, questions return, the budget holds? | passes |
| `call_memory` | Three turns of six kinds, a handoff, late advice, a failed commit, a restart: whose words, what is forgotten, who is who? | passes |
| `reply` | Three turns of thirteen kinds, six proposals, contradictory evidence, any wording: does a reply stay within evidence, authority and capability, and the call go forward? | passes |
| `insight` | Three turns of seven kinds of evidence and five moods, with any eligible service offered in any of them: is the model current, is anything asked twice, does the advice fit? | passes |
| `knowledge` | Two documents, two contents, publications, archivals, an index of old copies, backends that answer well, wrongly or not: what may be told? | passes, with deadlock check |
| `campaign` | Two drivers with old copies of the entries of two leads out of five rows, opt-outs, refusals and failures at any time: one call per lead, opt-outs for good, plans that assume nothing, honest outcomes? Two threads in one session, failing turns and terminations: an exact transcript? | passes, for leads and sessions that were not crossed |
| `finish_lost` | Is a session that was reported as finished closed? | no: a turn committing between the revision check and the UPDATE leaves the row ACTIVE |
| `dnc_outcome` | Does the stored outcome of a call that ended in an opt-out say so? | no: the lifecycle computes it without the flag |

Bounds. Deliveries of a request, finishes, crashes, policy changes and injected
failures are capped by the constants `MaxSends`, `MaxFinishes`, `MaxCrashes`,
`MaxPolicies`, `MaxFaults`, tested in the guards of the actions they count.
Two requests are enough for one to be lost, overtaken or repeated by another;
two deliveries for a retry against its original; one crash because a second one
finds a state a first could have left; one fault because each error path ends
the call it occurs in. The six events of `voice_call` hold a response that is cut
by a turn which fails, a third turn that must still be told, and late reports of
either. In `ConversationTurn` nothing is capped but what the code caps:
`MaxTurns` 4 per process (a restart starts it over, so calls are longer: the
shortest qualified one has eight turns), `MaxCalls` 9, `MaxOffers` 1 of two
services, `MaxAttempts` 2 where the configuration has 3.

`CallMemory`, `Reply` and `Insight` have three turns (`MaxTurns`): enough for
something to be said, contradicted or archived, and used afterwards; one
failed commit (`MaxFailures`) and one restart (`MaxRestarts`). `MaxCoverage` is 2
instead of 128 entries and `Limit` 2 instead of the graph's limit, so that a
full coverage and a full archive occur. In `KnowledgeCall` two versions in all
(`VersionIds`, `MaxVersions`) and chunks of 10 characters (`ChunkLimit`): a
document is revised or two exist, and a sentence longer than a chunk, one that
fills it, and one that runs over a page break all occur. In `ChatCampaign`
the constraint `Bounded` of the run looks at the races of the queue with two drivers, two
sessions and one turn of one caller, and at those within a session with one driver,
one session and two callers with three turns answered or under way (`MaxTurns`): a
caller and a driver of another session touch nothing in common. There is a call at a
time, two retries and a calling window over midnight. `bootstrap` sends each
request once (`MaxSends` 1): the double delivery of one request is in the theorem
only. Two threads on one connection are in `threads`; in
`isolated` each process has one handler. In `Reply` the person is curious in
every turn (`MCMoods`), in `Insight` two of the three services are eligible. The sets of utterances, proposals,
moods, findings and documents are chosen so that every action and every branch
with an effect on a property fires; they are named in the `MC` modules.
Symmetry is declared only where the values are merely compared, and not in the
run with liveness.

Deadlock. A bounded number of clients eventually stops calling, a call that has
ended stays ended, a campaign runs out of leads: `CHECK_DEADLOCK FALSE` there.
That no handler is stuck in the middle is `HandlersReturn`. The knowledge base
and the voice call never stop, and are checked for deadlock.

Fairness. Only `threads` has any: weak fairness of `Continue(w)`, the next
step of a handler's call, because a thread in the pool keeps being scheduled.
Nothing makes a client send, a fault occur or a process die. Weak fairness is
enough although `BEGIN` waits for the lock: the bounded number of calls makes
it free for good in the end; the code itself waits at most `busy_timeout`. The
other modules promise no progress: what goes on in them is up to the people on
the line and to providers that may never answer.

Each property is there for a hazard of the code that several steps, usually of
several actors, must combine to hit. For each one a mutated form of a
definition it depends on - a dropped guard, an old copy, a missing reset - is
kept next to the definition and violates it in the run that checks it.

## 4. Proofs

| Theorem | Says | Assumes |
|---|---|---|
| `SalesRuntimeProofs!TypeCorrect`, `OptOutCorrect` | `TypeOK`, `OptOutDurable` of `SalesRuntime` | nothing: threads may share a connection |
| `SalesRuntimeProofs!TurnLogCorrect`, `AnswersCorrect`, `ClosedCorrect`, `RevisionsCorrect`, `ResumableCorrect` | `TurnLogExact`, `AckedTurnsDurable`, `ClosedIsFinal`, `RevisionsLinear`, `Resumable` | `OneHandlerPerProcess` |
| `SalesRuntimeProofs!PromiseKept` | `SalesRuntime` implements `DurableSession` | `OneHandlerPerProcess` |
| `SessionBootstrapProofs!LeadCorrect`, `DncCorrect` | `LeadHasItsSession`, `DncIsFinal` | nothing: threads may share a connection |
| `TurnProofs!TypeCorrect`, `OneVoiceCorrect`, `TurnsOnceCorrect`, `InterruptionsToldCorrect` | `TypeOK`, `OneVoice`, `TurnsOnceInOrder`, `InterruptionsTold` | nothing |
| `ConversationTurnProofs!TypeCorrect`, `DncCorrect`, `QualifiedCorrect`, `OneDetourCorrect`, `QuestionCorrect`, `BudgetCorrect`, `ClosedCorrect` | the types, the properties of the `conversation` run, `OneDetour`, `ClosedWhenEnded` | nothing |
| `ConversationTurnProofs!MisstepCorrect` | `MisstepGoesOn` | `~HasCallback` |
| `ChatCampaignProofs!TypeCorrect`, `TranscriptCorrect`, `OneCallCorrect`, `PlanCorrect`, `OutcomeCorrect`, `OptOutCorrect` | the types, `TranscriptExact`, `OneCallPerLead`, `PlanAssumesNothing`, `OutcomeHonest`, `OptedOutForGood` | the contracts below |
| `CallMemoryProofs!InsightsCorrect`, `ExplanationsCorrect`, `ReferencesCorrect`, `RestartCorrect`, `WordsCorrect` | `InsightsInOrder`, `OneExplanationPerTurn`, `NoOneTwice`, `RestartForgetsNothing`, `OwnWords` | the contracts below |
| `KnowledgeCallProofs!LifecycleCorrect`, `SnapshotsCorrect`, `ApprovedCorrect`, `TeachingCorrect` | `LifecycleForward`, `SnapshotsComplete`, `ApprovedIsSound`, `TeachesWhatItMay` | the contracts below |
| `InsightProofs!AskedOnceCorrect`, `ModelIsCurrentCorrect`, `AdviceFitsCorrect` | `AskedOnce`, `ModelIsCurrent`, `AdviceFits` | the contracts below |
| `TurnProofs!EvidenceOnlyCorrect`, `NothingBeyondAuthorityCorrect`, `OfferIsBackedCorrect`, `NoQuestionTwiceCorrect`, `StageNeverBackCorrect` | `EvidenceOnly`, `NothingBeyondAuthority`, `OfferIsBacked`, `NoQuestionTwice`, `StageNeverBack` of `Reply` | the contracts below |
| `TurnProofs!ReplyIInvCorrect` | the invariant they follow from, with the shape of every record | the contracts below |
| `KnowledgeCallProofs!JoinedCorrect` | joining wrapped lines to paragraphs loses and mixes up no text | no line is empty |

They hold for any number of processes, handlers, requests, events, turns,
contacts, channels, services, drivers, callers, leads, sessions, utterances,
playbooks, concepts, evidence, policies, proposals and candidates and any bounds.

`OneHandlerPerProcess` is the rule of `persistence/sqlite/connection.py:160-163`
("Not thread-safe by itself - each process should hold its own instance").
The route handlers do not keep it, and with two threads on one connection a
turn's UPDATE may match no row (section 5): the theorems say what keeping it is
worth.
`~HasCallback`: nothing in `src/` sets the context's callback. With one known in
advance the fallback of `schedule_callback` is valid and ends the call.
The contracts: `ChatCampaign` assumes of the configuration, the policy and what
was found out about a lead what their dataclasses declare, and that `None` is
none of them. `ImportAssumption` says that a lead's id is a row number. The fold
over the rows computes it so; TLC evaluates it, because a fact about a fold is an
induction over data. `CallMemory` assumes of its utterances that each is a turn
whose evidence is well formed and which does not state and infer one slot at once
(`UtteranceAssumption`), of a campaign that it has finitely many fields and an id,
of a language that its stored form is a language and that no language is stored
as none, and of an analysis that it infers the slots it may. `KnowledgeCall`
assumes that an upload is read as a list of blocks of lines none of which is empty
(`ContentAssumption`: the parsers are external, and `_clean_blocks` drops empty
lines), that the facts of a chunk are a list, that chunks have a positive limit, and that
`None` is no reason to refuse or to hold back. Nothing is assumed of what a backend
answers. `Insight` assumes that an evidence is of the declared kinds, a playbook
of the declared topics and that there are finitely many, that a prospect is
qualified by finitely many fields, that the archive has a positive limit, and
that `None` is no service, no steering and no mood. How a context is derived from a business (`Known`) is
arbitrary. `Reply` assumes of the policies what their loaders refuse to load
otherwise (`PoliciesAssumption`): tiers that exist, no autonomous default, limits
of at least one; of the business that it has finitely many items of evidence with
numbers for ids, that there is at most one rule for a service, which the campaign
is authorized to offer, that `None` is no such service, that no item says
word for word one of the renderer's own sentences, and that the characters of a
statement contain the terms found in it (`BusinessAssumption`); of a
provider's words that the strict reader finds in them the terms of the statements
they contain (`CandidatesAssumption`); that the recoveries are those the
configuration names (`RecoveriesAssumption`). Nothing is assumed of the turns
heard or of what is proposed.

The invariant of the turn log (`LogInv`). `TurnLogExact` is not inductive: a
handler may sit on an old row or in an open transaction. `LockInv` says that an
open transaction belongs to the one handler inside it; `RowInv` that a row held
by a handler is older than the file's or equal to it, so that a matching
revision means a matching row; `SeqInv` that the number of the turn is the next
of that row; `TxnInv` that the open transaction is the file plus exactly that
handler's writes; `ReplyInv` that what is about to be answered is committed.
Every step then leaves the log alone, extends it by one turn (`Grow`) or closes
it (`Close`), and the refinement reads off which.

The invariant of recovery (`ResumeInv`). `Resumable` relates three tables of the
file, and the coverage of a snapshot is written by a processor that may have run
a turn nobody committed. `SnapInv`: the snapshot a handler is about to write is
of the revision its row will have. `FileInv`: an ACTIVE row with turns has the
snapshot of its revision, a terminal turn is the last one and closed the row.
`CoverageInv`: between two calls
a processor counts no request oftener than the file has it; while a turn is in
flight it is one execution ahead, and the copy taken before the turn
(`call[w].pre`), which a failure puts back, still fits. With it a commit writes a
snapshot that fits, and a restart reads one.

The invariant of an opt-out (`OptOutInv`), for any number of threads on a
connection. Its write joins whatever transaction is open there, or publishes
itself. `optedOut` remembers where it went: the connections whose open transaction
has it, and what became of it, "kept" or "lost". One connection at a time has a
transaction open; once an opt-out was kept the file has it and so has the open
transaction, because its copy of the file is of the moment it began or had the
opt-out joined to it, so that no turn and no finish publishes an older entry
over it.

The invariant of bootstrap (`IInv` of `SessionBootstrapProofs`). `LeadHasItsSession`
is broken for the length of a unit of work as its connection sees it, so it is
not inductive. `LockInv`: one unit of work in all processes, and the handler
inside it. `TxnOf`: what it will publish is the file with that handler's session
and whatever other threads of the process wrote into it, which can only opt leads
out, settle answers or touch the policy (`Aside`); once the lead was found ready,
no session has it and the file does not list it as opted out. `CreatedInv`: an
answer CREATED, told, recorded or about to be, has its session in the file.

The invariant of the coordinator. `OneVoice` is inductive together with the
types: it is phrased over the whole history of instructions. The order of turns
needs `OrderInv`: whatever has run or been spoken is in `processedTurns`, and no
run is newer than the last accepted sequence number. `InterruptionsTold` compares
what a turn was told with what had been ordered before it and is completed, now
or later. `SpokenInv`: the active delivery is the response ordered last;
`NewsInv`: what the next turn is going to be told is that response, unless it was
delivered to its end; `SettledInv`: a response ordered before a turn ran is no
longer playing, so that no late report makes what the turn was told untrue.

The invariant of the pipeline (`IInv`). `StackInv`: an open detour was entered
from `origin`, its only entry, unless the call has ended; `ContactInv`: the
candidate is the last contact heard or forgotten by a restart, and confirmation
and opt-out imply the end; `BudgetInv`: processor, open turn and snapshot agree
on the committed calls; `ClosedInv`: row, open turn and machine agree; `TurnInv`:
what the open turn did follows from why it ran. Lemmas on each engine path say
which moves it can make (`...Moves`), what it can end (`...GoesOn`, `DncEnds`) and that
it keeps the types.

The invariant of a campaign (`IInv` of `ChatCampaignProofs`). A driver decides on
a copy of the entry, so `OneCallPerLead` needs what the copy and the queue have
to do with each other. `CopyInv`: the copy could be called when it was chosen, and
what is about to be saved is off the phone. `CallInv`: a lead whose entry was not
crossed has one driver about to write it, the entry is still the one he compared,
and one driver calls it; so the write does what the comparison allowed. A second
driver with an old copy meets the queue's status in `CompareEntry` and takes its
session back. `RequestInv` and `SessionInv`: a session is there while its bootstrap
goes on and after it was answered as created, and is used after that only;
`DrivenInv`: a session that goes on has its driver; `EntryInv`: attempts and status
agree. Transcripts: `TurnInv` and `RisingInv`, whatever is about to be stored rises
to its turn count and holds answered turns, or the one about to be; `ExactInv`:
where the session was not crossed, one caller at a time is about to store, a copy
with the stored revision is the stored session, and so what is stored extends
what is there and loses nothing. `PlanInv` says that a plan is
that of the lead as imported, and `PlansSound` that such a plan asks for what is
unknown or contradictory, the primary target first: that needs the least element
of a set of ranks (`LeastNumber`, by the well-foundedness of the naturals).
`OutcomeHonest` is kept by every step because the outcome is computed from the
session and the report it is stored with (`LeadOutcomeHonest`). `OptedOutForGood`
is an action property: an opt-out is overwritten only by a save whose comparison
is older, and then the lead was crossed.

The invariant of a call's memory (`IInv` of `CallMemoryProofs`). The five
properties are about what is in memory, and a failed commit leaves in memory a
turn that is not counted. So memory is `Sound` for the turn after the last one
committed, and what a restart would recall of the snapshot (`Stored`) is `Sound`
for the last one committed. `Sound`: read over all who spoke in turn (`Views`),
words are settled, none is of a later turn, and nobody has one older than the
newest of somebody before him; no stated fact about the business is older than an
archived one of its kind. `ToldOnce`: the coverage in memory, the copy an open
turn would put back and the stored one have one entry for a turn.
`EachHisNumber`: those who left have the references 1, 2, ... and the one on the
line the next, and what is filed of them is what the coverage says of their
reference. `AdviceInOrder`: insights used rise and are of turns before the one
that waits in the buffer, or, when none waits, before every analysis still out.
Each turn is one step of many engines, so most of the module shows what each
engine (`Reconcile`, the handoff, inference, recall) does to a `Sound` memory.

The invariant of a knowledge base (`IInv` of `KnowledgeCallProofs`). The registry
is `LibraryType` and `OnePublished`; every one of its steps goes `Forward`, which
keeps what was built from older versions true: `SnapshotsOfVersions` (a snapshot
is of its version's content, prepared, and of no other's) and `IndexOfVersions`
(what was indexed as published is no draft again). An answer is a function of the
index, so `ApprovedIsSound` and `TeachesWhatItMay` follow from what each stage
does to any input: retrieval finds only what a backend answered rightly
(`RetrieveSources`), each filter of the validator keeps some of what the ones before
left and adds one fact that the later ones do not undo (`WithoutDuplicatesKeeps`,
`FreshKeeps`, `ConsistentKeeps`, `RankedKeeps`), and the ranking is split at places
(`SplitIsSound`). For `SnapshotsComplete` every step of cleaning, cutting into
sections and chunking adds the texts of its item at the end (`LeadsAdds`).

The invariant of what a call makes of a business (`IInv` of `InsightProofs`).
`AskedOnce` is about a list that only grows, so what was asked about must stay
settled (`SteeringOf`): it is explored, or will be when the next turn has it
still, or the focus has moved past it. The last holds because, while nothing is
archived, kinds are only added (`Grows`) and the diagnosis looks for the more
urgent first (`Rank`, `FocusMovesUp`). `ModelIsCurrent` needs that the business
has one finding of a kind (`BusinessOf`), without which two nodes would share a
key, and that archives only receive what was archived or current (`Archives`): what
the conversation puts away was a node of the model and is in its archive now
(`ProjectIs`). `AdviceFits` relates the advice to the mood of the turn and to what
its context showed (`AdviceInv`): sorting the candidates invents none (`SortedIs`),
each item of the topics and of what may come later passed its test (`TopicsAre`,
`FutureIs`), and a service is in `shown` unless this very turn offered it.

The invariant of the reply (`ReplyIInv` of `TurnProofs`). The pipeline is four
steps, and what the last one says depends on what each of the others left in
`turn`. `Shapes` has the fields of every record. `ClearContext`: past `Hear` the
context shown does not contradict itself, so that of one fact only one statement
can be read from it. `Onward`: the stage advised is not behind the call's. `Approved`:
what the Brain executed is `Permitted`, which the steps after it do not touch.
`Advising`: escalation, service answer and guidance are those of the context the
turn was given, although the call has changed in between by what the turn
executed; this is what relates the words of `Respond` to the context of `Hear`.
`Remembered`: a question asked in one of the last turns is among the recent
concepts, and no further back than the turns since; a concept falls off the end of
the list only when its turn is too old to matter. For the words there is one
set, `Sayable`: the renderer's own sentences, the offer the escalation makes, the
statements cited by it and the approved one of the service. Whatever the plan and
its inputs may say is in it (`Lets`), a lemma per part of the renderer shows that
it composes of nothing else (`Tells`), and `SayableIs` that each member is backed:
a statement by an item in sight that applies and that nothing contradicts, an
offer by a capability and, in writing, a confirmed contact. The number of sentences
is what `Acceptable` and the fallback leave. A provider's text passes `Valid`, and
every term of it is then one that approved evidence contains (`Counted`).

The library's induction theorems take an operator and cannot be used. What a
recursive function of `BusinessConversation` computes is proved by the least
counterexample instead (`Counting`, by the well-foundedness of the naturals),
over a set of lengths for which the function is as it should be. The same is done
once for `Only`, `Sorted`, `FlattenSeq` and the folds of the knowledge base: each is
the result of a sequence of steps (`Leads`), and what every step keeps, the result
has (`LeadInduction`). `FoldLeft` takes an operator, so that it is such a result is
one lemma per operator folded (`JoinLineLeads`, `FillLeads`, ...).

Only model-checked: liveness (`HandlersReturn`) is out of the prover's reach and
stays with TLC, as do the two runs that expect a violation. Every other property
of a run is a theorem.

## 5. Divergences from the comments

Two are the violation runs, `finish_lost` and `dnc_outcome`. The others were met
on the way and read from the code; PROJECT.json lists those that a comment
contradicts.

The durable runtime:

- `persistent_runtime.py:413`: `process_turn` of the processor is outside the
  `try` that restores the budget, so a turn that raises half-way has spent its
  calls; lines 402-403 ask for "identical remaining allowance".
  `CommittedBudget` therefore claims only a lower bound after such a turn.
- `persistent_runtime.py:469`: a failed commit restores coverage and calls; the
  machine, the stage, the business and the participants keep the failed turn, so
  that a retried handoff archives somebody who never spoke. `persistent_runtime.py:387`:
  a process keeps its processor while another commits turns of the session, and
  later exports a snapshot without them.
- `repositories.py:97`: with two threads on a connection a turn's UPDATE may match
  no row and its snapshot and answer commit without it: `TurnLogExact` is
  checked and proved for one handler per process.
- `persistent_runtime.py:509-510`: a DNC write made inside another thread's
  transaction is rolled back with it, after `mark_lead_dnc` has called it durable.
  `OptOutDurable` says for any number of threads that nothing
  but that rollback takes it back.
- `persistent_runtime.py:301`: a crash before the answer is recorded leaves a
  session whose request is refused for good; lines 311-312 call a concurrent
  duplicate safe, two simultaneous deliveries can be told CREATED and a conflict.
- `production_turn_processor.py:669-670`: "One committed turn's snapshot is
  enough to rebuild a semantically equivalent processor." The detour stack is
  not in it: restored in `handle_question`, a session rejects ANSWER_QUESTION for
  good. `QuestionReturns` holds there because the question can only end the call.
  The same comment promises observed DNC and NOT_INTERESTED markers; lines
  757-758 write FALSE.
- `main.py:185`: the application's `create_from_snapshot` restores the machine's
  state alone, against `production_turn_processor.py:726-727`. `CallMemory` and
  `ConversationTurn` restart as the factory of
  `tests/integration/test_slice51j_canonical_e2e.py` does.
- `persistent_runtime.py:503` says `mark_lead_dnc` is triggered by priority logic;
  `process_turn` never calls it. A DNC turn ends the conversation and leaves the
  queue entry to `finish_session(is_dnc=...)`, which ignores a failure of the write.
- A terminal turn whose commit fails leaves the machine at its end under an
  ACTIVE row; a next turn that executes nothing commits a snapshot in `end_call`
  under an ACTIVE row, which cannot be restored. `ClosedWhenEnded` is stated for
  histories without failures.
- `current_contact_id`, without which no confirmation is complete, is set by
  tests and simulations only; with `HasContactId` FALSE no call is ever qualified.
- `guardrails/priority.py:52`: a client who is not interested in `introduce` or
  `reason_for_call` gets the next step of the pitch, END_CALL being no transition.

The call:

- `participant/policy.py:261-307`: who never heard a concept others heard, and
  asks about it, is given nothing.
- A reference minted and discarded before a restart is used again (`NoOneTwice`
  is stated for calls without one). An insight about one person's turn that
  arrives after a handoff is merged into the next person's picture, as a guess.
  The preferred language does not survive a restart.
- `production_turn_processor.py:1056-1065`: coverage advances although a priority
  decides the turn; 1116: a terminal turn's question is cleared after it was
  rendered; 1087-1095: the guidance's question counts as asked whatever question
  the plan asks; 1466: a turn not addressed to the agent runs the Brain all the
  same; 1577: the seconds left are always the full allowance.
- `renderer.py:336`: the polite wrap-up has two sentences where its plan allows
  one, so the fallback "Could you clarify what you need?" ends the call.
- `context/builder.py:173-200`: the view holds eight items by id, so a conflict
  with the ninth is not seen; a conflict that is seen makes every later turn fail.
- `composition.py:27`: a renderer wrapped twice frames twice.
- `brain/authority/models.py:143`: only AUTO_EXECUTE is refused as a default tier.
  With `policy_bounded` and no discount rule a discount is executed without a
  maximum, against `brain/authority/validator.py:180` ("fail-closed"). `Permitted`
  excepts it; the shipped policies have another default.
- `realization/validator.py:60-126`: a provider's words may offer a call back or a
  person, whatever the campaign can do, and may state what has neither a word of
  capability nor a number in it; a number they state need only occur somewhere in
  the approved text, as part of another number or of another fact.
- `conversation_steering/engine.py:37`: one archived fact marks every later priority
  corrected; a turn a priority decides forgets what was explored.
- `production_turn_processor.py:1438`: the playbooks read what was offered from the
  context built before the Brain ran, so a service offered in a turn may be put
  off for later in the same turn. `AdviceFits` excepts it.
- `sales_playbook/engine.py:113`: provider satisfaction is asked for although known.
- `business_conversation/contracts.py:126`: observations of 160 characters quote
  problems of 200, and the turn raises in between.

Knowledge, leads and chat:

- `sales_intelligence/engine.py:408, 506`: choices among a set depend on the hash
  order of the run; the model leaves them open.
- The registry may publish an older draft over a newer published version and
  refuses to upload earlier content again; the index never asks the registry;
  `COMPARE` and the evidence quality SUPPORTED are never reached.
- `reconciler.py:72`: a failed enrichment still makes a website candidate. Leads
  with an invalid phone are accepted and can be called.
- `campaign/engine.py:57`: two drivers on old views of the queue may exceed the
  limit of concurrent calls. `persistence/sqlite/repositories.py:325`: `transition`
  ("Atomic state transition", line 311) tells both that they have the lead;
  268: `save` ("DNC must survive everything", 263) overwrites an
  opt-out that comes between its two statements. Both happen in the model: `OneCallPerLead` and
  `OptedOutForGood` except the leads in `crossedLeads`.
- `runtime/chat/repository.py:43-48`: between two threads a turn that was answered is
  lost from the transcript. The class says that it is not for threads (line 24), so
  this is no finding; `TranscriptExact` says that nothing else loses one.
- `bootstrap/service.py:140`: the stale revision check is `pass`.
- `lifecycle/service.py:73`: a retried bootstrap registers a fresh processor in
  the middle of a conversation. `runtime/chat/engine.py:81-104`: a turn whose
  update is stale has advanced the processor, and runs again when retried.
- `outcome/engine.py`: ending the conversation counts as a next step, so a
  follow-up may be needed by somebody who showed no interest.

## 6. Not modelled, and why

- Text: parsing of documents, prompts, the wording of replies and variants,
  scores and their thresholds where no decision turns on them, the contracts'
  length limits, logging and tracing. The models keep what a text says, and how
  many sentences it has.
- External services: reasoning, understanding, realization, embedding and search
  providers, spreadsheets and the phone library are arbitrary well-formed
  answers or failures.
- `export/writer.py`, the browser client, the models, repositories and services
  of the first version, workers, voice transport and simulations: sequential file
  or row handling, or code that the running program does not compose.
- `main.py` deletes its development database at start and is only wiring.
- One turn is told by several modules - `ConversationTurn` its execution,
  `CallMemory`, `Insight`, `Reply` and `KnowledgeCall` what its stages read and
  write - which share no state: their product is beyond TLC. Where one reads what
  another writes, its inputs are arbitrary. `SalesRuntime` abstracts them all to
  the requests a processor has folded into its state.
