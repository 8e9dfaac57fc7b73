----------------------------- MODULE MCKnowledge -----------------------------
(* Two documents on one service, two versions in all, an upload of two pages  *)
(* and one that contradicts it, and backends that answer well, wrongly or not *)
(* at all.                                                                    *)
EXTENDS KnowledgeCall

Line(text, length, ends, kind) ==
    [text |-> text, length |-> length, ends |-> ends, kind |-> kind]
Block(page, lines) == [page |-> page, level |-> 0, lines |-> lines]

TwoPages ==
    <<Block(1, <<Line("header", 3, "open", "plain"),
                 Line("Features", 9, "colon", "known"),
                 Line("s1", 4, "stop", "plain"), Line("s2", 6, "stop", "plain")>>),
      Block(2, <<Line("header", 3, "open", "plain"),
                 Line("s3", 13, "open", "plain"), Line("s4", 8, "stop", "plain"),
                 Line("2", 1, "open", "number")>>)>>

OneLine == <<Block(None, <<Line("s5", 5, "stop", "plain")>>)>>

MCContents == {"long", "short"}
MCRaw == [long |-> [format |-> "pdf", blocks |-> TwoPages],
          short |-> [format |-> "txt", blocks |-> OneLine]]
MCDeclared == [long |-> "pdf", short |-> "txt"]

Fact(key, value, type, visibility) ==
    [key |-> key, value |-> value, type |-> type, visibility |-> visibility,
     scope |-> "business"]
MCFacts ==
    [long |-> <<<<Fact("speed", "fast", "benefit", "customer_visible")>>,
                <<Fact("cost", "low", "feature", "internal_only")>>,
                <<Fact("terms", "monthly", "commercial_policy", "customer_visible")>>,
                <<>>, <<>>>>,
     short |-> <<<<Fact("speed", "slow", "benefit", "customer_visible"),
                   Fact("story", "shop", "case_study", "customer_visible")>>>>]

MCCatalog ==
    [d1 |-> [service |-> 1, purpose |-> "service_knowledge", priority |-> 1,
             language |-> "english"],
     d2 |-> [service |-> 1, purpose |-> "faq", priority |-> 2,
             language |-> "english"]]
MCDocuments == DOMAIN MCCatalog

MCPolicy(conflicts) ==
    [scope |-> "campaign", services |-> {1}, commercial |-> FALSE,
     indexes |-> {"lexical", "vector"}, purposes |-> {"service_knowledge", "faq"},
     languages |-> {"english"}, disclosed |-> {"terms"}, conflicts |-> conflicts,
     approved |-> 3, perDocument |-> 2, perSection |-> 2]
PriorityPolicy == MCPolicy("highest_priority")

MCConfigs ==
    {[scope |-> "campaign", indexes |-> {"lexical", "vector"},
      lexicalIndex |-> "lexical", vectorIndex |-> "vector", rrf |-> 2,
      perDocument |-> 2, documents |-> 2, candidates |-> 3,
      preferred |-> None, fallback |-> "english"]}

Hit(entries, id, rank, v) ==
    [chunk |-> id, rank |-> rank, index |-> v,
     checksum |-> EntryOf(entries, id).chunks[id[2]].checksum]
Healthy(hits) == [health |-> "healthy", hits |-> hits]
Failed(how) == [health |-> how, hits |-> <<>>]
\* The first of every version and the third of the long ones, best or worst
\* first; a backend may answer twice the same, and nothing may answer at all.
MCSearches(entries, config) ==
    LET nth(n) == SelectSeq(<<<<1, n>>, <<2, n>>>>,
                            LAMBDA id : id \in EligibleChunks(entries))
        firsts == nth(1)
        all == firsts \o nth(3)
        hits(ids, v) == [i \in DOMAIN ids |-> Hit(entries, ids[i], i, v)]
        found(lexical, semantic) ==
            [readable |-> semantic # Failed("failed"), lexical |-> lexical,
             semantic |-> semantic]
    IN  {found(Failed("failed"), Failed("failed")),
         found(Healthy(hits(Reverse(all), "lexical")), Failed("not_run")),
         found(Healthy(hits(firsts \o firsts, "lexical")),
               Healthy(hits(all, "vector")))}

Need(kind, direct) ==
    [id |-> 1, source |-> "direct_typed_request", kind |-> kind, direct |-> direct,
     sufficient |-> FALSE, unclear |-> FALSE, service |-> 1,
     concept |-> [aspect |-> "general", category |-> None]]
MCNeeds == {{Need("service_explanation", TRUE)},
            {Need("faq", FALSE),
             [Need("commercial_information", TRUE)
                EXCEPT !.source = "structured_understanding"]}}
MCContexts == {[industry |-> "retail", focus |-> "workflow", premature |-> FALSE]}

Situation(depth, trust, interest, topic) ==
    [guidance |-> [depth |-> depth, trust |-> trust, interest |-> interest,
                   objection |-> "none", momentum |-> "stable"],
     prospect |-> [explicit |-> None, likely |-> "owner"],
     problem |-> [requested |-> FALSE, category |-> "website",
                  meaningful |-> TRUE, process |-> FALSE],
     facts |-> {}, formal |-> FALSE, casual |-> TRUE, playbook |-> None,
     goals |-> {}, topic |-> topic, pending |-> None,
     evidence |-> <<>>, told |-> {}]
MCSituations ==
    {Situation("short", "building", "moderate", None),
     Situation("normal", "established", "strong", None)}
=============================================================================
