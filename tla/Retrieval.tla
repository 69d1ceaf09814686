----------------------------- MODULE Retrieval -----------------------------
(***************************************************************************)
(* The search routes of rag-retrieval: retrieve (api/routes/search.rs),    *)
(* retrieve_multi (multi.rs) and explain (explain.rs), over the embedding  *)
(* service, the two stores that HybridSearcher joins (hybrid/searcher.rs), *)
(* the reranker and the result cache in Redis (query/cache.rs and          *)
(* cache/retrieval.rs), under the timeout of the server (server.rs).       *)
(*                                                                         *)
(* All requests ask the same query.  A hit is a chunk with the readers its *)
(* ACL named when a store returned it: AccessControl is about how a store  *)
(* finds them.  Scores are not modelled: a store, the score threshold and  *)
(* the reranker keep any of the hits.                                      *)
(***************************************************************************)
EXTENDS Integers, FiniteSets, FiniteSetsExt

CONSTANTS
    Chunks, Readers,        \* what is searched, and for whom
    Handlers,               \* bound: requests of a behaviour, each its handler
    Scenarios,              \* which requests arrive, one per handler
    SubQueries,             \* queries of a multi-query request
    ResultCache, Reranker,  \* BOOLEAN: what is configured
    ServerTimeout,          \* the timeout of the server, in ticks
    CacheTtl,               \* the time to live of a cached result, in ticks
    MaxAclChanges, MaxOutages   \* bounds

Legs == {"semantic", "keyword"}
SearchModes == {"hybrid", "semantic", "keyword"}

SearchRequests == [kind : {"retrieve", "multi", "explain"}, user : Readers,
                   admin : BOOLEAN, mode : SearchModes, rerank : BOOLEAN]
NoSearch == [kind |-> "none"]

ASSUME RetrievalAssumption ==
    /\ IsFiniteSet(Chunks) /\ IsFiniteSet(SubQueries)
    /\ SubQueries # {}
    /\ Scenarios \subseteq [Handlers -> SearchRequests \cup {NoSearch}]
    /\ \A c \in Scenarios, r \in Handlers : c[r].kind = "multi" => c[r].mode = "hybrid"
    /\ ResultCache \in BOOLEAN /\ Reranker \in BOOLEAN
    /\ ServerTimeout \in Nat \ {0} /\ CacheTtl \in Nat \ {0}
    /\ MaxAclChanges \in Nat /\ MaxOutages \in Nat

VARIABLES
    readers,    \* of each chunk, as both stores hold it
    handler,    \* of each request: the request, or NoSearch
    stage,      \* where the handler stands
    waited,     \* since it started
    part,       \* the searches of its queries
    found,      \* the hits it holds, in the end the answer
    outcome,    \* ComponentOutcome, merged for a multi-query request
    mode,       \* degradation_mode of its answer
    cacheHit,   \* metrics.cache_hit of its answer
    failed,     \* history: the components that failed it
    cached,     \* Redis: the results under each key
    changes, outages

searchVars == <<handler, stage, waited, part, found, outcome, mode, cacheHit, failed>>
retrVars == <<readers, searchVars, cached, changes, outages>>

----------------------------------------------------------------------------
(* Data.                                                                   *)

Hit(c, age) == [chunk |-> c, readers |-> readers[c], age |-> age]
MaxAge == ServerTimeout + CacheTtl

\* ComponentOutcome: the flags that are set.
NoOutcome == {}
WithLeg(leg, ok) ==
    IF leg = "semantic"
    THEN {"semantic_attempted"} \cup (IF ok THEN {"semantic_ok"} ELSE {})
    ELSE {"keyword_attempted"} \cup (IF ok THEN {"keyword_ok"} ELSE {})
WithRerank(requested, ok) ==
    (IF requested THEN {"rerank_requested"} ELSE {}) \cup (IF ok THEN {"rerank_ok"} ELSE {})

SemanticFailed(o) == "semantic_attempted" \in o /\ "semantic_ok" \notin o
KeywordFailed(o) == "keyword_attempted" \in o /\ "keyword_ok" \notin o
RerankSkipped(o) == "rerank_requested" \in o /\ "rerank_ok" \notin o

\* determine_mode of evaluate.
DetermineMode(searchMode, o) ==
    IF searchMode = "hybrid" /\ SemanticFailed(o) /\ KeywordFailed(o) THEN "minimal"
    ELSE IF searchMode = "hybrid" /\ SemanticFailed(o) THEN "keyword_only"
    ELSE IF searchMode = "hybrid" /\ KeywordFailed(o) THEN "semantic_only"
    ELSE IF RerankSkipped(o) THEN "rerank_skipped"
    ELSE "None"

MultiMode(evaluated, someFailed, someDegraded) ==
    IF someFailed /\ evaluated = "None" THEN "partial_queries_failed"
    ELSE IF someDegraded /\ evaluated = "None" THEN "partial_queries_degraded"
    ELSE evaluated

\* One query: the legs it waits for, what they returned, and what came of it.
Queries(s) == IF s.kind = "multi" THEN SubQueries ELSE {CHOOSE q \in SubQueries : TRUE}
UsesSemantic(s) == s.mode \in {"hybrid", "semantic"}
LegsOf(s) == IF s.mode = "hybrid" THEN Legs ELSE {s.mode}
IdlePart == [at |-> "off", leg |-> [l \in Legs |-> "off"],
             got |-> [l \in Legs |-> {}], hits |-> {}, outcome |-> NoOutcome]
Search(p, at, legs) ==
    [p EXCEPT !.at = at, !.leg = [l \in Legs |-> IF l \in legs THEN "wait" ELSE "off"],
              !.got = [l \in Legs |-> {}]]
StartPart(s) ==
    IF UsesSemantic(s) \/ s.kind = "explain"
    THEN [IdlePart EXCEPT !.at = "embed"]
    ELSE Search(IdlePart, "search", LegsOf(s))

\* QueryCache.build_key: everything the request names, but not is_admin.
CacheKey(s) == <<s.user, s.mode, s.rerank>>
CacheKeys == Readers \X SearchModes \X BOOLEAN
NoEntry == [hits |-> {}, age |-> CacheTtl, failed |-> {}]

CanAccessFull(s, h) == s.admin \/ s.user \in h.readers

RetrInit ==
    /\ readers \in [Chunks -> SUBSET Readers]
    /\ handler \in Scenarios
    /\ stage = [r \in Handlers |-> "idle"]
    /\ waited = [r \in Handlers |-> 0]
    /\ part = [r \in Handlers |-> [q \in SubQueries |-> IdlePart]]
    /\ found = [r \in Handlers |-> {}]
    /\ outcome = [r \in Handlers |-> NoOutcome]
    /\ mode = [r \in Handlers |-> "None"]
    /\ cacheHit = [r \in Handlers |-> FALSE]
    /\ failed = [r \in Handlers |-> {}]
    /\ cached = [k \in CacheKeys |-> NoEntry]
    /\ changes = 0 /\ outages = 0

Ended == {"done", "error", "forbidden", "timeout"}
InFlight(r) == stage[r] \notin Ended \cup {"idle"}

----------------------------------------------------------------------------
(* The end of a request, and what every step of one shares.                *)

\* The handler returns: only its answer is left.
Return(r, how, hits, m) ==
    /\ stage' = [stage EXCEPT ![r] = how]
    /\ waited' = [waited EXCEPT ![r] = 0]
    /\ part' = [part EXCEPT ![r] = [q \in SubQueries |-> IdlePart]]
    /\ found' = [found EXCEPT ![r] = hits]
    /\ outcome' = [outcome EXCEPT ![r] = NoOutcome]
    /\ mode' = [mode EXCEPT ![r] = m]

Parts(r) == {part[r][q] : q \in Queries(handler[r])}
Unserved(r) == {p \in Parts(r) : p.at = "failed"}

DegradationMode(r, o) ==
    LET evaluated == DetermineMode(handler[r].mode, o)
    IN IF handler[r].kind = "multi"
       THEN MultiMode(evaluated, Unserved(r) # {},
                      \E p \in Parts(r) \ Unserved(r) :
                          SemanticFailed(p.outcome) \/ KeywordFailed(p.outcome))
       ELSE evaluated

\* Behind the reranker: the ACL filter, the score threshold and top_k, then
\* the cache for a retrieve request, the answer for the others.
Conclude(r, hits, o) ==
    \E kept \in SUBSET {h \in hits : CanAccessFull(handler[r], h)} :
        IF handler[r].kind = "retrieve" /\ ResultCache
        THEN /\ stage' = [stage EXCEPT ![r] = "store"]
             /\ found' = [found EXCEPT ![r] = kept]
             /\ outcome' = [outcome EXCEPT ![r] = o]
             /\ UNCHANGED <<waited, part, mode>>
        ELSE Return(r, "done", kept, DegradationMode(r, o))

Fails(r, component) ==
    /\ outages < MaxOutages
    /\ outages' = outages + 1
    /\ failed' = [failed EXCEPT ![r] = @ \cup {component}]

----------------------------------------------------------------------------
(* The start of a request.                                                 *)

StartSearch(r) ==
    /\ stage' = [stage EXCEPT ![r] = "search"]
    /\ part' = [part EXCEPT ![r] =
            [q \in SubQueries |->
                IF q \in Queries(handler[r]) THEN StartPart(handler[r]) ELSE IdlePart]]

\* Validation has passed; explain is for administrators.
Arrive(r) ==
    /\ stage[r] = "idle" /\ handler[r] # NoSearch
    /\ IF handler[r].kind = "explain" /\ ~handler[r].admin
       THEN stage' = [stage EXCEPT ![r] = "forbidden"] /\ UNCHANGED part
       ELSE IF handler[r].kind = "retrieve" /\ ResultCache
       THEN stage' = [stage EXCEPT ![r] = "lookup"] /\ UNCHANGED part
       ELSE StartSearch(r)
    /\ UNCHANGED <<readers, handler, waited, found, outcome, mode, cacheHit, failed, cached,
                   changes, outages>>

\* Mutant: a hit is answered as it is.
AnswerUnfiltered(r) ==
    LET entry == cached[CacheKey(handler[r])]
    IN /\ stage[r] = "lookup" /\ entry.age < CacheTtl
       /\ Return(r, "done", entry.hits, DetermineMode(handler[r].mode, NoOutcome))
       /\ cacheHit' = [cacheHit EXCEPT ![r] = TRUE]
       /\ failed' = [failed EXCEPT ![r] = entry.failed]
       /\ UNCHANGED <<readers, handler, cached, changes, outages>>

\* A hit is filtered by the ACLs it was stored with, and answered at once with
\* the outcome of a request that has attempted nothing.
AnswerFromCache(r) ==
    LET entry == cached[CacheKey(handler[r])]
        readable == {h \in entry.hits : CanAccessFull(handler[r], h)}
    IN /\ stage[r] = "lookup" /\ entry.age < CacheTtl
       /\ Return(r, "done", readable, DetermineMode(handler[r].mode, NoOutcome))
       /\ cacheHit' = [cacheHit EXCEPT ![r] = TRUE]
       /\ failed' = [failed EXCEPT ![r] = entry.failed]
       /\ UNCHANGED <<readers, handler, cached, changes, outages>>

\* QueryCache.get turns an error of Redis into a miss.
MissCache(r) ==
    /\ stage[r] = "lookup"
    /\ \/ cached[CacheKey(handler[r])].age = CacheTtl /\ UNCHANGED outages
       \/ outages < MaxOutages /\ outages' = outages + 1
    /\ StartSearch(r)
    /\ UNCHANGED <<readers, handler, waited, found, outcome, mode, cacheHit, failed,
                   cached, changes>>

----------------------------------------------------------------------------
(* The queries of a request, in parallel.                                  *)

Step(r, q, p) ==
    /\ part' = [part EXCEPT ![r][q] = p]
    /\ UNCHANGED <<readers, handler, stage, waited, found, outcome, mode, cacheHit,
                   cached, changes>>

Embedding(r, q) == stage[r] = "search" /\ part[r][q].at = "embed"

Embed(r, q) ==
    /\ Embedding(r, q)
    /\ Step(r, q, Search([part[r][q] EXCEPT !.outcome = {"embedding_ok"}],
                         "search", LegsOf(handler[r])))
    /\ UNCHANGED <<failed, outages>>

\* Mutant: no fallback without an embedding.
EmbedFailsHard(r, q) ==
    /\ Embedding(r, q)
    /\ Fails(r, "embedding")
    /\ Step(r, q, [IdlePart EXCEPT !.at = "failed"])

\* Without an embedding the hybrid search of retrieve and multi falls back to
\* keywords; a semantic search and explain fail.
EmbedFails(r, q) ==
    /\ Embedding(r, q)
    /\ Fails(r, "embedding")
    /\ Step(r, q,
            IF handler[r].kind # "explain" /\ handler[r].mode = "hybrid"
            THEN Search([part[r][q] EXCEPT !.outcome = WithLeg("semantic", FALSE)],
                        "search", {"keyword"})
            ELSE [IdlePart EXCEPT !.at = "failed"])

\* HybridSearcher.search: a chunk that both legs return has the data of the
\* semantic one.
Fuse(got) ==
    got["semantic"] \cup
    {h \in got["keyword"] : \A g \in got["semantic"] : g.chunk # h.chunk}

Failed(p) == {l \in Legs : p.leg[l] = "failed"}
Answered(p) == {l \in Legs : p.leg[l] = "ok"}

Serve(p, hits, o) == [IdlePart EXCEPT !.at = "ok", !.hits = hits, !.outcome = o]
Refuse == [IdlePart EXCEPT !.at = "failed"]

\* After the fallback of a hybrid search: the leg that answered, the larger
\* one when both did, and the other counts as failed.
FallBack(p) ==
    IF Answered(p) = {} THEN Refuse
    ELSE LET leg == IF Cardinality(Answered(p)) = 1
                    THEN CHOOSE l \in Legs : l \in Answered(p)
                    ELSE IF Cardinality(p.got["semantic"]) >= Cardinality(p.got["keyword"])
                         THEN "semantic" ELSE "keyword"
         IN Serve(p, p.got[leg],
                  p.outcome \cup UNION {WithLeg(l, l = leg) : l \in Legs})

\* When the last leg of a query has ended.
Joined(s, p) ==
    IF "wait" \in {p.leg[l] : l \in Legs} THEN p
    ELSE IF p.at = "fallback" THEN FallBack(p)
    ELSE IF Failed(p) = {}
         THEN Serve(p, Fuse(p.got),
                    p.outcome \cup UNION {WithLeg(l, TRUE) : l \in Answered(p)})
    ELSE IF s.kind # "explain" /\ p.leg["semantic"] # "off" /\ p.leg["keyword"] # "off"
         THEN Search(p, "fallback", Legs)
    ELSE Refuse

Waiting(r, q, leg) == stage[r] = "search" /\ part[r][q].leg[leg] = "wait"

\* A store returns what its filter lets the user read: AccessControl.
Readable(s) == {c \in Chunks : s.admin \/ s.user \in readers[c]}

SearchStore(r, q, leg) ==
    /\ Waiting(r, q, leg)
    /\ \E chunks \in SUBSET Readable(handler[r]) :
           Step(r, q, Joined(handler[r],
                [part[r][q] EXCEPT !.leg[leg] = "ok",
                                   !.got[leg] = {Hit(c, 0) : c \in chunks}]))
    /\ UNCHANGED <<failed, outages>>

SearchFails(r, q, leg) ==
    /\ Waiting(r, q, leg)
    /\ Fails(r, leg)
    /\ Step(r, q, Joined(handler[r], [part[r][q] EXCEPT !.leg[leg] = "failed"]))

----------------------------------------------------------------------------
(* The rest of the handler.                                                *)

\* All queries have ended: their results are aggregated, their outcomes merged.
Gather(r) ==
    LET served == Parts(r) \ Unserved(r)
        hits == UNION {p.hits : p \in served}
        merged == UNION {p.outcome : p \in served}
    IN /\ stage[r] = "search"
       /\ \A p \in Parts(r) : p.at \in {"ok", "failed"}
       /\ IF served = {} THEN Return(r, "error", {}, "None")
          ELSE IF handler[r].rerank /\ Reranker
          THEN /\ stage' = [stage EXCEPT ![r] = "rerank"]
               /\ found' = [found EXCEPT ![r] = hits]
               /\ outcome' = [outcome EXCEPT ![r] = merged]
               /\ UNCHANGED <<waited, part, mode>>
          ELSE Conclude(r, hits, merged)
       /\ UNCHANGED <<readers, handler, cacheHit, failed, cached, changes, outages>>

\* rerank_results returns its best top_k, before the ACL filter.
Rerank(r) ==
    /\ stage[r] = "rerank"
    /\ \E best \in SUBSET found[r] :
           Conclude(r, best, outcome[r] \cup WithRerank(TRUE, TRUE))
    /\ UNCHANGED <<readers, handler, cacheHit, failed, cached, changes, outages>>

RerankFails(r) ==
    /\ stage[r] = "rerank"
    /\ Fails(r, "reranker")
    /\ Conclude(r, found[r], outcome[r] \cup WithRerank(TRUE, FALSE))
    /\ UNCHANGED <<readers, handler, cacheHit, cached, changes>>

Entry(r) == [hits |-> found[r], age |-> 0, failed |-> failed[r]]

\* RetrievalCache.set, degraded results included, and the answer.
Store(r) ==
    /\ stage[r] = "store"
    /\ \/ cached' = [cached EXCEPT ![CacheKey(handler[r])] = Entry(r)] /\ UNCHANGED outages
       \/ outages < MaxOutages /\ outages' = outages + 1 /\ UNCHANGED cached
    /\ Return(r, "done", found[r], DegradationMode(r, outcome[r]))
    /\ UNCHANGED <<readers, handler, cacheHit, failed, changes>>

\* Mutant: the timeout does not cover the reranker.
TimeOutSearch(r) ==
    /\ InFlight(r) /\ waited[r] = ServerTimeout /\ stage[r] # "rerank"
    /\ Return(r, "timeout", {}, "None")
    /\ \/ stage[r] = "store" /\ cached' = [cached EXCEPT ![CacheKey(handler[r])] = Entry(r)]
       \/ UNCHANGED cached
    /\ UNCHANGED <<readers, handler, cacheHit, failed, changes, outages>>

\* TimeoutLayer drops the handler at any await; a SET on its way may arrive.
TimeOut(r) ==
    /\ InFlight(r) /\ waited[r] = ServerTimeout
    /\ Return(r, "timeout", {}, "None")
    /\ \/ stage[r] = "store" /\ cached' = [cached EXCEPT ![CacheKey(handler[r])] = Entry(r)]
       \/ UNCHANGED cached
    /\ UNCHANGED <<readers, handler, cacheHit, failed, changes, outages>>

----------------------------------------------------------------------------
(* Around the service.                                                     *)

Older(hits) == {[h EXCEPT !.age = @ + 1] : h \in hits}

\* A tick passes; an entry that reaches its time to live is gone.
Tick ==
    /\ \A r \in Handlers : InFlight(r) => waited[r] < ServerTimeout
    /\ waited' = [r \in Handlers |-> IF InFlight(r) THEN waited[r] + 1 ELSE 0]
    /\ found' = [r \in Handlers |-> IF InFlight(r) THEN Older(found[r]) ELSE found[r]]
    /\ part' = [r \in Handlers |-> [q \in SubQueries |->
            [part[r][q] EXCEPT !.got = [l \in Legs |-> Older(@[l])], !.hits = Older(@)]]]
    /\ cached' = [k \in CacheKeys |->
            IF cached[k].age + 1 >= CacheTtl THEN NoEntry
            ELSE [cached[k] EXCEPT !.age = @ + 1, !.hits = Older(@)]]
    /\ UNCHANGED <<readers, handler, stage, outcome, mode, cacheHit, failed, changes, outages>>

\* Ingestion rewrites the ACL of a chunk in both stores; the cache of results
\* is not told of it.
ChangeAcl(c, to) ==
    /\ changes < MaxAclChanges /\ to # readers[c]
    /\ readers' = [readers EXCEPT ![c] = to]
    /\ changes' = changes + 1
    /\ UNCHANGED <<searchVars, cached, outages>>

SearchStep(r) ==
    \/ Arrive(r)
    \/ AnswerFromCache(r) \/ MissCache(r)
    \/ \E q \in SubQueries : Embed(r, q) \/ EmbedFails(r, q)
    \/ \E q \in SubQueries, leg \in Legs : SearchStore(r, q, leg) \/ SearchFails(r, q, leg)
    \/ Gather(r) \/ Rerank(r) \/ RerankFails(r) \/ Store(r)
    \/ TimeOut(r)

RetrNext ==
    \/ \E r \in Handlers : SearchStep(r)
    \/ Tick
    \/ \E c \in Chunks, to \in SUBSET Readers : ChangeAcl(c, to)

RetrSpec == RetrInit /\ [][RetrNext]_retrVars

\* The clock advances, and the timeout fires when it is due; nothing else is
\* assumed of the services behind the routes.
RetrFairSpec ==
    RetrSpec /\ WF_retrVars(Tick) /\ \A r \in Handlers : WF_retrVars(TimeOut(r))

----------------------------------------------------------------------------
(* Properties.                                                             *)

\* Whatever a request is answered with, from a store or from the cache, its
\* user was allowed to read when a store returned it, and that was at most the
\* server's timeout and the cache's time to live ago: a revoked reader loses
\* the chunk by then, although nothing invalidates the cache.
StaleAnswerBounded ==
    \A r \in Handlers : stage[r] = "done" =>
        \A h \in found[r] :
            (handler[r].admin \/ handler[r].user \in h.readers) /\ h.age <= MaxAge

\* A hybrid search of retrieve and retrieve_multi ends in an error only when
\* two of the embedding service and the two stores have failed it: one alone
\* degrades the answer.
OneFailureTolerated ==
    \A r \in Handlers :
        stage[r] = "error" /\ handler[r].kind # "explain" /\ handler[r].mode = "hybrid"
            => Cardinality(failed[r] \cap (Legs \cup {"embedding"})) >= 2

\* An answer that was computed, by whatever route and fallback, names a
\* degradation mode if any component failed on the way to it.
DegradationReported ==
    \A r \in Handlers :
        stage[r] = "done" /\ ~cacheHit[r] /\ failed[r] # {} => mode[r] # "None"

\* "None: all requested components completed successfully" (degradation.rs),
\* for every answer: one from the cache was computed from what the cache holds.
DegradedAnswerMarked ==
    \A r \in Handlers : stage[r] = "done" /\ failed[r] # {} => mode[r] # "None"

\* Whatever the services behind it do, a request gets an answer or an error.
EveryRequestEnds == \A r \in Handlers : InFlight(r) ~> stage[r] \in Ended

\* A failure behind a search costs results, not the answer, and the answer that
\* was computed without a component says so.
FailuresDegrade == OneFailureTolerated /\ DegradationReported
=============================================================================
