----------------------------- MODULE KnowledgeCall -----------------------------
(* The knowledge base of a business, from upload to what is said of it: the   *)
(* registry and the pipeline (Library), an index filled from both by whoever  *)
(* runs it, and turns that plan, retrieve, validate, choose and ground.       *)
EXTENDS Library, Evidence, SalesKnowledge

CONSTANTS
    Catalog,        \* [Documents -> [service, purpose, priority, language]]
    Facts,          \* [Contents -> for each chunk, the claims about it]
    IndexVersions,  \* the versions of the index that are written
    Searches(_, _), \* what the repository and the backends may answer
    Configs,        \* retrieval configurations
    Policy,         \* the retrieval, validation and disclosure policies
    Needs,          \* the sets of needs a turn may have
    Contexts,       \* what the diagnosis and the mental model say
    Situations      \* inputs of the teaching without the evidence and what was told

ASSUME SituationAssumption ==
    \A s \in Situations : {"evidence", "told"} \subseteq DOMAIN s

\* The claims about a chunk are listed.
ASSUME FactAssumption ==
    \A c \in Contents : Prepared[c] # None =>
        \A i \in DOMAIN Prepared[c] : Facts[c][i] \in Seq(Range(Facts[c][i]))

VARIABLES
    index,    \* the versions that were indexed, as they were then
    told,     \* the approvals the caller remembers to have told
    answer    \* what a turn is answering, None between turns

vars == <<libraryVars, index, told, answer>>

Init == InitLibrary /\ index = {} /\ told = {} /\ answer = None

Keep == LibraryNext /\ UNCHANGED <<index, told, answer>>

\* A claim is made of one chunk of one version.
IndexedChunk(d, n, i) ==
    LET snapshot == snapshots[<<d, n>>]
        chunk == snapshot.chunks[i]
        checksum == [texts |-> chunk.texts, length |-> chunk.length]
        facts == Facts[snapshot.checksum][i]
    IN  [section |-> chunk.section, checksum |-> checksum,
         purpose |-> Catalog[d].purpose,
         claims |-> [k \in DOMAIN facts |->
            facts[k] @@ [id |-> k, version |-> n, checksum |-> checksum,
                         service |-> Catalog[d].service,
                         language |-> Catalog[d].language]]]

Entry(d, n, indexVersion) ==
    [scope |-> Policy.scope, document |-> d, id |-> library[d][n].id,
     version |-> n, service |-> Catalog[d].service,
     status |-> library[d][n].status,
     active |-> library[d][n].status = "published",
     priority |-> Catalog[d].priority, index |-> indexVersion,
     language |-> Catalog[d].language,
     chunks |-> [i \in DOMAIN snapshots[<<d, n>>].chunks |-> IndexedChunk(d, n, i)]]

\* Whoever indexes copies the status of the moment, and may never look again.
Index(d, n, indexVersion) ==
    /\ <<d, n>> \in DOMAIN snapshots
    /\ index' = {e \in index : e.document # d \/ e.version # n}
                \cup {Entry(d, n, indexVersion)}
    /\ UNCHANGED <<libraryVars, told, answer>>

\* A turn: what is needed is planned, retrieved, validated, chosen and grounded,
\* and the caller remembers what was told.
Turn(needs, context, config, search, situation) ==
    LET plan == Plan(needs, Policy, context)
        found == Retrieve(IF search.readable THEN index ELSE None, plan, config,
                          search.lexical, search.semantic)
        approved == Validate(found.candidates, Policy)
        input == [situation EXCEPT !.evidence = approved, !.told = told]
        teaching == Design(input)
    IN  /\ answer' = [plan |-> plan, found |-> found, approved |-> approved,
                      input |-> input, teaching |-> teaching,
                      search |-> search, grounded |-> Compose(teaching, input)]
        /\ told' = told \cup {e.id : e \in Range(teaching.selected)}
        /\ UNCHANGED <<libraryVars, index>>

\* The answer has been given.
Given == answer' = None /\ UNCHANGED <<libraryVars, index, told>>

Next ==
    \/ answer # None /\ Given
    \/ /\ answer = None
       /\ \/ Keep
          \/ \E d \in Documents, n \in 1..MaxVersions, v \in IndexVersions :
                Index(d, n, v)
          \/ \E needs \in Needs, context \in Contexts, config \in Configs,
                situation \in Situations :
                \E search \in Searches(index, config) :
                   Turn(needs, context, config, search, situation)

Spec == Init /\ [][Next]_vars

---------------------------------------------------------------------------
Step == [draft |-> 0, published |-> 1, archived |-> 2]

\* A version keeps its id and its content for good and only ever goes forward,
\* and a document has at most one published version, whichever draft is
\* published in whatever order: transition_document rewrites all the versions.
LifecycleForward ==
    [][\A d \in Documents :
          /\ \A n \in DOMAIN library[d] :
                /\ n \in DOMAIN library'[d]
                /\ library'[d][n].id = library[d][n].id
                /\ library'[d][n].checksum = library[d][n].checksum
                /\ Step[library'[d][n].status] >= Step[library[d][n].status]
          /\ Cardinality({n \in DOMAIN library'[d] :
                            library'[d][n].status = "published"}) <= 1]_vars

TextsBelow(p) == IF IsHeading(p) THEN <<>> ELSE p.texts

TextsOf(block) ==
    IF block.level # 0 THEN <<>>
    ELSE FlattenSeq([i \in DOMAIN block.paragraphs |->
                        TextsBelow(block.paragraphs[i])])

\* The text of an upload that is in no heading.
TextBelowHeadings ==
    [c \in Contents |->
        LET blocks == Raw[c].blocks
        IN  FlattenSeq([i \in DOMAIN blocks |->
                TextsOf([level |-> blocks[i].level,
                         paragraphs |-> Joined(KeptLines(blocks, blocks[i]))])])]

\* Every snapshot is of its version's content and of no other version's; its
\* chunks hold all of the text below the headings, once and in order, none
\* longer than a chunk may be: _build_sections and _split_text lose, repeat and
\* mix up nothing of the paragraphs.
SnapshotsComplete ==
    /\ \A p, q \in DOMAIN snapshots :
          snapshots[p].checksum = snapshots[q].checksum => p = q
    /\ \A p \in DOMAIN snapshots :
          LET chunks == snapshots[p].chunks
          IN  /\ snapshots[p].checksum = library[p[1]][p[2]].checksum
              /\ snapshots[p].id = library[p[1]][p[2]].id
              /\ FlattenSeq([i \in DOMAIN chunks |-> chunks[i].texts])
                     = TextBelowHeadings[snapshots[p].checksum]
              /\ \A i \in DOMAIN chunks : chunks[i].length \in 1..ChunkLimit

\* What a backend answered in the last turn, when all of it was right.
Answered(backend, entries) ==
    IF /\ backend.health = "healthy"
       /\ \A i \in DOMAIN backend.hits : \E e \in entries :
              /\ e.id = backend.hits[i].chunk[1]
              /\ backend.hits[i].chunk[2] \in DOMAIN e.chunks
              /\ e.chunks[backend.hits[i].chunk[2]].checksum = backend.hits[i].checksum
       /\ \A i, j \in DOMAIN backend.hits :
              backend.hits[i].chunk = backend.hits[j].chunk => i = j
    THEN {backend.hits[i].chunk : i \in DOMAIN backend.hits} ELSE {}

\* What a turn may tell was published when it was indexed, found by a backend
\* that answered nothing wrong, not contradicted by anything else it may tell,
\* and not older than what was found: each filter of the validator sees only
\* what the ones before it left.
ApprovedIsSound ==
    answer # None =>
        \A a \in Range(answer.approved) :
            /\ \E e \in index :
                  /\ e.document = a.document /\ e.version = a.version
                  /\ e.status = "published"
                  /\ library[e.document][e.version].status # "draft"
            /\ \E backend \in {answer.search.lexical, answer.search.semantic} :
                  a.id[3] \in Answered(backend, index)
            /\ \A b \in Range(answer.approved) :
                  b.about = a.about => b.value = a.value
            /\ \A x \in Range(AcceptedClaims(answer.found.candidates, Policy)) :
                  About(x) = a.about => x.claim.version <= a.version

\* What is taught was approved, was not told before, and is all that is
\* grounded; terms wait for trust; what is approved is either taught or
\* suppressed, never both; and a caller told that the prospect has heard it all
\* is given nothing to tell.
TeachesWhatItMay ==
    answer # None =>
        LET taught == Range(answer.teaching.selected)
            withheld == {x.item : x \in Range(answer.teaching.suppressed)}
        IN  /\ taught \cup withheld = Range(answer.approved)
            /\ taught \cap withheld = {}
            /\ \A e \in taught : e.id \notin answer.input.told
            /\ answer.input.guidance.trust \in Distrust =>
                  \A e \in taught : e.group # "commercial_policy"
            /\ {item.evidence : item \in Range(answer.grounded.items)} = taught
            /\ Len(answer.teaching.selected) <= answer.teaching.most
            /\ answer.teaching.saturated => taught = {}
=============================================================================
