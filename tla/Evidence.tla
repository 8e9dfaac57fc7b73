------------------------------ MODULE Evidence ------------------------------
(* KnowledgeRetrievalPlanner.plan and HybridRetrievalEngine.retrieve: which   *)
(* knowledge a turn needs, and the chunks that two search backends find of    *)
(* what is indexed.  A backend answers anything, or not at all.               *)
EXTENDS Python, Integers, Sequences, SequencesExt, FiniteSets, TLC

Precedence == [direct_typed_request |-> 4, response_planning |-> 3,
               consultative_decision |-> 2, structured_understanding |-> 1]

\* The need whose source comes first, then the last by its id.
ChosenNeed(needs) ==
    CHOOSE n \in needs :
        \A o \in needs \ {n} :
            \/ Precedence[n.source] > Precedence[o.source]
            \/ Precedence[n.source] = Precedence[o.source] /\ n.id > o.id

PurposesOf(kind) ==
    CASE kind = "comparison" -> {"service_knowledge", "faq"}
      [] kind = "case_study" -> {"case_study"}
      [] kind = "commercial_information" -> {"pricing_policy"}
      [] kind = "policy_information" -> {"legal_policy", "internal_sop"}
      [] OTHER ->
           IF kind = "implementation_information"
           THEN {"technical_documentation", "service_knowledge"}
           ELSE IF kind = "faq" THEN {"faq"}
           ELSE IF kind \in {"technical_detail", "feature_clarification"}
           THEN {"technical_documentation"}
           ELSE {"service_knowledge", "faq"}

NoPlan(status) == [status |-> status, required |-> FALSE, concept |-> None,
                   service |-> None, purposes |-> {}]

\* What the concept leaves open comes from the mental model and the diagnosis.
Refined(concept, context) ==
    [concept EXCEPT
        !.category = IF @ = None THEN context.industry ELSE @,
        !.aspect = IF @ = "general" /\ context.focus # None
                   THEN context.focus ELSE @]

Plan(needs, policy, context) ==
    LET need == ChosenNeed(needs)
        required == need.direct /\ ~need.sufficient
        premature == context.premature /\ ~need.direct
    IN  IF needs = {} THEN NoPlan("not_needed")
        ELSE IF need.kind = "none" THEN NoPlan("not_needed")
        ELSE IF \/ need.kind = "unknown" \/ need.unclear \/ need.concept = None
        THEN NoPlan("needs_clarification")
        ELSE IF need.service \notin policy.services \cup {None}
        THEN NoPlan("invalid_scope")
        ELSE IF need.kind = "commercial_information" /\ ~policy.commercial
        THEN NoPlan("blocked_by_policy")
        ELSE [status |-> IF premature THEN "not_needed" ELSE "ready",
              required |-> required,
              concept |-> Refined(need.concept, context),
              service |-> need.service, purposes |-> PurposesOf(need.kind)]

---------------------------------------------------------------------------
(* What may be searched: an index entry is a document version as it was when  *)
(* it was indexed, with its chunks.                                           *)

InScope(entry, plan, config) ==
    /\ entry.scope = config.scope
    /\ plan.service # None => entry.service = plan.service
    /\ entry.status = "published" /\ entry.active
    /\ entry.index \in config.indexes
    /\ plan.purposes # {} =>
           \E i \in DOMAIN entry.chunks : entry.chunks[i].purpose \in plan.purposes

\* In the preferred language, else in the other one if there is one.
EligibleEntries(index, plan, config) ==
    LET inScope == {e \in index : InScope(e, plan, config)}
        in(language) == {e \in inScope : e.language = language}
    IN  IF config.preferred # None /\ in(config.preferred) # {}
        THEN in(config.preferred)
        ELSE IF config.fallback # None THEN in(config.fallback)
        ELSE IF config.preferred = None THEN inScope ELSE {}

ChunkId(entry, i) == <<entry.id, i>>

EligibleChunks(entries) ==
    UNION {{ChunkId(e, i) : i \in DOMAIN e.chunks} : e \in entries}

EntryOf(entries, id) == CHOOSE e \in entries : e.id = id[1] /\ id[2] \in DOMAIN e.chunks

\* A backend may only answer a list of chunks it was asked about, as they are,
\* and once.
HitsValid(hits, entries, index) ==
    /\ hits \in Seq(Range(hits))
    /\ \A i \in DOMAIN hits :
          /\ hits[i].chunk \in EligibleChunks(entries)
          /\ hits[i].index = index
          /\ hits[i].checksum = EntryOf(entries, hits[i].chunk).chunks[hits[i].chunk[2]].checksum
    /\ \A i, j \in DOMAIN hits : hits[i].chunk = hits[j].chunk => i = j

\* What a search adds up to: hits only of a backend that did everything right.
Search(backend, entries, index) ==
    IF backend.health # "healthy" THEN [health |-> backend.health, hits |-> <<>>]
    ELSE IF HitsValid(backend.hits, entries, index)
    THEN [health |-> "healthy", hits |-> backend.hits]
    ELSE [health |-> "corrupt", hits |-> <<>>]

RankIn(hits, chunk) ==
    IF \E i \in DOMAIN hits : hits[i].chunk = chunk
    THEN hits[CHOOSE i \in DOMAIN hits : hits[i].chunk = chunk].rank ELSE None

\* Reciprocal ranks, over a common denominator.
Scale(config, hits) ==
    FoldLeft(LAMBDA x, h : x * (config.rrf + h.rank), 1, hits)

Share(config, hits, scale, chunk) ==
    IF RankIn(hits, chunk) = None THEN 0
    ELSE scale \div (config.rrf + RankIn(hits, chunk))

HitChunks(hits) == [i \in DOMAIN hits |-> hits[i].chunk]

\* The hits of both, best first: by their score, then by how well they match
\* the plan (when a language is preferred, all are of the same), the document's
\* priority, and the order in the document.
Fused(lexical, semantic, entries, plan, config) ==
    LET scale == Scale(config, lexical \o semantic)
        score(c) == Share(config, lexical, scale, c)
                    + Share(config, semantic, scale, c)
        match(c) == IF EntryOf(entries, c).chunks[c[2]].purpose \in plan.purposes
                    THEN 1 ELSE 0
        key(c) == <<-score(c), -match(c), -EntryOf(entries, c).priority, c[2], c[1]>>
        other == {i \in DOMAIN semantic :
                     RankIn(lexical, semantic[i].chunk) = None}
        found == HitChunks(lexical) \o Only(HitChunks(semantic), other)
    IN  Sorted(found, [i \in DOMAIN found |-> key(found[i])])

\* The first chunks of the first documents, within the budget.
Bounded(chunks, entries, config) ==
    LET document(i) == EntryOf(entries, chunks[i]).document
        full(taken, n) ==
            LET same == {i \in taken : document(i) = document(n)}
            IN  \/ Cardinality(same) >= config.perDocument
                \/ /\ same = {}
                   /\ Cardinality({document(i) : i \in taken}) >= config.documents
                \/ Cardinality(taken) >= config.candidates
        taken[n \in 0..Len(chunks)] ==
            IF n = 0 THEN {}
            ELSE IF full(taken[n - 1], n) THEN taken[n - 1]
            ELSE taken[n - 1] \cup {n}
    IN  Only(chunks, taken[Len(chunks)])

CandidateFor(entries, chunks, i, index) ==
    LET e == EntryOf(entries, chunks[i])
        chunk == e.chunks[chunks[i][2]]
    IN  [document |-> e.document, id |-> e.id, version |-> e.version,
         chunk |-> chunks[i], section |-> chunk.section, rank |-> i,
         language |-> e.language, purpose |-> chunk.purpose,
         priority |-> e.priority, scope |-> e.scope, status |-> e.status,
         active |-> e.active, service |-> e.service, index |-> index,
         checksum |-> chunk.checksum, claims |-> chunk.claims]

NoCandidates(status) == [status |-> status, candidates |-> <<>>]

\* The index, None when it cannot be read, is searched by whatever backends the
\* mode has, and what they find is fused.
Retrieve(index, plan, config, lexical, semantic) ==
    LET entries == EligibleEntries(index, plan, config)
        l == Search(lexical, entries, config.lexicalIndex)
        s == Search(semantic, entries, config.vectorIndex)
        chunks == Bounded(Fused(l.hits, s.hits, entries, plan, config),
                          entries, config)
        ran == {l.health, s.health} \ {"not_run"}
    IN  IF plan.status # "ready" THEN NoCandidates("invalid_plan")
        ELSE IF index = None THEN NoCandidates("index_unavailable")
        ELSE IF entries = {} THEN NoCandidates("no_candidates")
        ELSE [candidates |-> [i \in DOMAIN chunks |->
                    CandidateFor(entries, chunks, i,
                                 IF RankIn(s.hits, chunks[i]) = None
                                 THEN config.lexicalIndex
                                 ELSE config.vectorIndex)],
              status |-> IF chunks = <<>> THEN "no_candidates"
                         ELSE IF ran = {"healthy"} THEN "ready" ELSE "partial"]

-----------------------------------------------------------------------------
(* EvidenceValidationEngine.validate: which claims of the retrieved chunks    *)
(* may be told.  A candidate is refused whole; then duplicates, old versions  *)
(* and contradictions go, and what is left is approved up to its limits.      *)

\* None is no reason.
ASSUME RefusalAssumption ==
    None \notin {"version_mismatch", "checksum_failed", "missing_metadata",
                 "commercial_restricted", "policy_blocked"}

\* Why a candidate is refused, in the order it is looked at; None if it is not.
MetadataRefusal(c, policy) ==
    CASE c.claims = <<>> -> "missing_metadata"
      [] c.claims # <<>> /\ c.scope # policy.scope -> "wrong_scope"
      [] OTHER ->
           IF c.status = "draft" THEN "draft"
           ELSE IF c.status = "archived" \/ ~c.active THEN "archived"
           ELSE IF c.index \notin policy.indexes THEN "version_mismatch"
           ELSE IF c.purpose \notin policy.purposes THEN "policy_blocked"
           ELSE IF c.service \notin policy.services \cup {None}
           THEN "wrong_service"
           ELSE IF c.language \notin policy.languages THEN "wrong_language"
           ELSE None

ClaimRefusal(c, claim, policy) ==
    CASE claim.version # c.version -> "version_mismatch"
      [] claim.version = c.version /\ claim.checksum # c.checksum ->
             "checksum_failed"
      [] OTHER ->
           IF claim.language # c.language \/ claim.service # c.service
           THEN "missing_metadata"
           ELSE IF claim.visibility = "commercial_only"
           THEN "commercial_restricted"
           ELSE IF claim.visibility # "customer_visible" THEN "policy_blocked"
           ELSE IF /\ claim.type = "commercial_policy"
                   /\ claim.key \notin policy.disclosed
           THEN "commercial_restricted" ELSE None

Accepts(c, policy) ==
    /\ MetadataRefusal(c, policy) = None
    /\ \A i \in DOMAIN c.claims : ClaimRefusal(c, c.claims[i], policy) = None

\* The claims of what is accepted, each with its candidate, in ranked order.
AcceptedClaims(candidates, policy) ==
    FlattenSeq([i \in DOMAIN candidates |->
        IF ~Accepts(candidates[i], policy) THEN <<>>
        ELSE [k \in DOMAIN candidates[i].claims |->
                [candidate |-> candidates[i], claim |-> candidates[i].claims[k]]]])

\* What a claim is about, and what it says.
About(x) == <<x.claim.key, x.claim.scope, x.claim.service>>
Says(x) == <<About(x), x.claim.version, x.claim.value>>

WithoutDuplicates(items) ==
    Only(items, {i \in DOMAIN items :
                    \A j \in 1..(i - 1) : Says(items[j]) # Says(items[i])})

\* The versions of different documents are compared as well.
Fresh(items) ==
    Only(items, {i \in DOMAIN items : \A j \in DOMAIN items :
                    About(items[j]) = About(items[i]) =>
                        items[j].claim.version <= items[i].claim.version})

\* What wins a contradiction: nothing, the latest or the most important.
Winner(rivals, mode) ==
    LET weight(x) == IF mode = "latest_version" THEN x.claim.version
                     ELSE x.candidate.priority
        beats(x, y) == \/ weight(x) > weight(y)
                       \/ /\ weight(x) = weight(y)
                          /\ x.candidate.rank <= y.candidate.rank
    IN  IF mode = "reject_all" THEN None
        ELSE CHOOSE x \in rivals : \A y \in rivals : beats(x, y)

\* Mutant: a contradiction is only seen between different documents' versions.
ConsistentWithin(items, mode) ==
    Only(items, {i \in DOMAIN items :
        LET x == items[i]
            rivals == {y \in Range(items) :
                          /\ About(y) = About(x)
                          /\ y.claim.version # x.claim.version
                          /\ y.claim.value # x.claim.value}
        IN  rivals = {} \/ Winner(rivals \cup {x}, mode) = x})

Consistent(items, mode) ==
    Only(items, {i \in DOMAIN items :
        LET x == items[i]
            rivals == {y \in Range(items) : About(y) = About(x)}
        IN  \/ \A y \in rivals : y.claim.value = x.claim.value
            \/ Winner(rivals, mode) = x})

\* Approved in ranked order, so many in all, of a document and of a section.
\* After duplicates and old versions are gone no claim has a second source, so
\* the quality "supported" is never given.
Quality(x, items) ==
    LET sources == {y \in Range(items) : /\ About(y) = About(x)
                                         /\ y.claim.value = x.claim.value}
    IN  IF Cardinality(sources) > 1 THEN "supported"
        ELSE IF x.claim.type = "case_study" THEN "limited" ELSE "direct"

Ranked(items) ==
    Sorted(items, [i \in DOMAIN items |->
                      <<items[i].candidate.rank, items[i].claim.id>>])

Approval(x, items) ==
    [id |-> <<x.claim.id, x.candidate.document, x.candidate.chunk>>,
     document |-> x.candidate.document, section |-> x.candidate.section,
     about |-> About(x), value |-> x.claim.value, version |-> x.claim.version,
     group |-> x.claim.type, quality |-> Quality(x, items)]

WithinLimits(approvals, policy) ==
    LET full(taken, a) ==
            LET same == {i \in taken : approvals[i].document = a.document}
            IN  \/ Cardinality(taken) >= policy.approved
                \/ Cardinality(same) >= policy.perDocument
                \/ Cardinality({i \in same : approvals[i].section = a.section})
                       >= policy.perSection
        taken[n \in 0..Len(approvals)] ==
            IF n = 0 THEN {}
            ELSE IF full(taken[n - 1], approvals[n]) THEN taken[n - 1]
            ELSE taken[n - 1] \cup {n}
    IN  Only(approvals, taken[Len(approvals)])

\* The approved evidence.
Validate(candidates, policy) ==
    LET kept == Consistent(Fresh(WithoutDuplicates(
                    AcceptedClaims(candidates, policy))), policy.conflicts)
        ranked == Ranked(kept)
    IN  WithinLimits([i \in DOMAIN ranked |-> Approval(ranked[i], kept)], policy)
=============================================================================
