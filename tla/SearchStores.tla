---------------------------- MODULE SearchStores ----------------------------
(***************************************************************************)
(* The two stores a search reads: the vector collection (rag-vectorstore)  *)
(* and the keyword index (rag-search), as the index coordinator fills and  *)
(* empties them and SemanticSearcher, KeywordSearcher and the hybrid       *)
(* searcher read them, up to the record an answer shows.                   *)
(*                                                                         *)
(* The index is created with the mappings of create_documents_index, or by *)
(* the first write to it; then OpenSearch maps each string dynamically, as *)
(* analysed text with an exact subfield ".keyword".  Which of the two it   *)
(* was decides what a term query finds.  No call asks for a refresh: until *)
(* OpenSearch makes one of its own, a search and a deletion by query meet  *)
(* what the last refresh showed.                                           *)
(*                                                                         *)
(* Scores are raw whole numbers; a normalised score is in units of         *)
(* 1 / ScoreUnit.                                                          *)
(***************************************************************************)
EXTENDS Integers, SequencesExt, FiniteSetsExt, Functions

CONSTANTS
    StoredChunks,   \* bound: [id -> [document, tenant, source, title]],
                    \* source being the source_type in the metadata
    Hyphenated,     \* values that the analyser splits: UUIDs
    NoValue,        \* null, and what a field that is missing reads as
    StoreQueries,   \* bound: the queries
    Relevance,      \* [query -> [chunk -> raw score]]; 0: the query does not match
    StoreFilters,   \* bound: [source, document], each a value or NoValue
    StoreTopK,      \* top_k: [semantic, keyword]
    ScoreUnit,      \* bound: the unit of normalised scores
    MaxReports      \* bound on the reports kept in outcomes

\* SemanticSearchConfig and KeywordSearchConfig: each has a top_k of its own,
\* which neither the setters nor the environment bound.
SemanticConfigured == StoreTopK.semantic \in Nat \ {0}
KeywordConfigured == StoreTopK.keyword \in Nat \ {0}
\* multi_match: how well a query matches a chunk; no words in common, no hit.
MatchesAreScored == \A q \in StoreQueries : \A c \in DOMAIN StoredChunks : Relevance[q][c] \in Nat

ASSUME StoresAssumption ==
    /\ SemanticConfigured /\ KeywordConfigured /\ MatchesAreScored /\ ScoreUnit \in Nat \ {0} /\ MaxReports \in Nat
    /\ IsFiniteSet(DOMAIN StoredChunks) /\ IsFiniteSet(StoreQueries)

VARIABLES
    mapping,        \* "absent", "explicit" or "dynamic": the keyword index
    entries,        \* chunk ids in the keyword index
    visible,        \* what a query meets: the entries at the last refresh
    unseen,         \* the entries written since the last refresh
    collection,     \* whether the vector collection exists
    points,         \* chunk ids in the collection
    outcomes,       \* what the coordinator was last told of a document; up to
                    \* MaxReports are kept, up to the next search:
                    \* [document -> [keyword, semantic : "none", "written", "erased", "failed"]]
    missed,         \* [document -> its chunks that were unseen when it was erased]
    search          \* the last search: [store, tenant, filters, queries, hits]

indexVars == <<mapping, entries, visible, unseen>>
storesVars == <<indexVars, collection, points, outcomes, missed, search>>

ChunkIds == DOMAIN StoredChunks
StoredDocuments == {StoredChunks[c].document : c \in ChunkIds}
ChunksOfDocument(d) == {c \in ChunkIds : StoredChunks[c].document = d}
StoreTenants == {StoredChunks[c].tenant : c \in ChunkIds}

----------------------------------------------------------------------------
(* What is written for a chunk.                                            *)

\* Of the metadata of a request a source_type is part only when the caller put
\* it there; the number of chunks is never part of it.
ChunkMetadata(c) ==
    IF StoredChunks[c].source = NoValue THEN [chunking_strategy |-> "recursive"]
    ELSE [chunking_strategy |-> "recursive", source_type |-> StoredChunks[c].source]

\* The fields of f and, beside them, those of g.
Beside(f, g) == [n \in DOMAIN f \cup DOMAIN g |-> IF n \in DOMAIN f THEN f[n] ELSE g[n]]

Common(c) == [chunk_id |-> c, document_id |-> StoredChunks[c].document,
              tenant_id |-> StoredChunks[c].tenant, title |-> StoredChunks[c].title,
              content |-> c, visibility |-> "tenant"]

\* write_to_qdrant: the metadata at the top level.
Payload(c) == Beside(Common(c), ChunkMetadata(c))

\* write_to_opensearch: the metadata in a field of its own.
Source(c) == Beside(Common(c), [metadata |-> ChunkMetadata(c)])

\* json_to_qdrant_value and back: what is read is what was written; null stays null.
FromQdrant(payload) == payload

----------------------------------------------------------------------------
(* Term queries.                                                           *)

\* A term query for a value on a field, or on its exact subfield.
TermHit(name, exact, value, c) ==
    /\ name \in DOMAIN Source(c) /\ Source(c)[name] = value
    /\ CASE mapping = "explicit" -> ~exact
         [] mapping = "dynamic"  -> exact \/ value \notin Hyphenated

\* BM25Request.with_tenant and with_filter; a filter is a value, or NoValue.
KeywordFilterHit(tenant, filters, c) ==
    /\ TermHit("tenant_id", TRUE, tenant, c)
    /\ filters.source # NoValue => TermHit("source_type", FALSE, filters.source, c)
    /\ filters.document # NoValue => TermHit("document_id", FALSE, filters.document, c)

\* FilterBuilder: tenant, source_type and document over the payload.
SemanticFilterHit(tenant, filters, c) ==
    LET payload == FromQdrant(Payload(c))
    IN /\ payload.tenant_id = tenant
       /\ filters.source # NoValue =>
            "source_type" \in DOMAIN payload /\ payload["source_type"] = filters.source
       /\ filters.document # NoValue => payload.document_id = filters.document

\* delete_from_opensearch: the query of delete_by_query.
EraseHit(d, c) == TermHit("document_id", FALSE, d, c)

----------------------------------------------------------------------------
(* Searches.                                                               *)

\* The best k of a set by score, in some order among equals.
Ranked(S, score, k) ==
    LET order == CHOOSE s \in SetToSeqs(S) :
                    \A i, j \in DOMAIN s : i < j => score[s[i]] >= score[s[j]]
    IN SubSeq(order, 1, Min({k, Cardinality(S)}))
Scored(ids, score) == [i \in DOMAIN ids |-> [chunk |-> ids[i], score |-> score[ids[i]]]]

\* SemanticSearcher.search: every point that passes the filter has a score.
SemanticHits(tenant, filters, q) ==
    LET found == {c \in points : SemanticFilterHit(tenant, filters, c)}
    IN Scored(Ranked(found, Relevance[q], StoreTopK.semantic), Relevance[q])

\* KeywordSearcher.search up to the hits; operator "or": one word is enough.
KeywordRaw(tenant, filters, q) ==
    LET found == {c \in visible : KeywordFilterHit(tenant, filters, c) /\ Relevance[q][c] > 0}
    IN Scored(Ranked(found, Relevance[q], StoreTopK.keyword), Relevance[q])

\* normalize_results, convert_hit: min-max over the hits, 1 if all are equal.
NormalizedHits(hits) ==
    LET scores == {hits[i].score : i \in DOMAIN hits}
        range == Max(scores) - Min(scores)
    IN [i \in DOMAIN hits |->
         [hits[i] EXCEPT !.score = IF range = 0 THEN ScoreUnit
                                   ELSE ((@ - Min(scores)) * ScoreUnit) \div range]]
KeywordHits(tenant, filters, q) ==
    LET hits == KeywordRaw(tenant, filters, q)
    IN IF hits = <<>> THEN <<>> ELSE NormalizedHits(hits)

\* aggregate_results: of each chunk the best score over the lists.
BestHits(lists) ==
    LET all == UNION {Range(lists[i]) : i \in DOMAIN lists}
    IN [c \in {h.chunk : h \in all} |-> Max({h.score : h \in {g \in all : g.chunk = c}})]
AggregatedHits(lists, k) ==
    LET best == BestHits(lists) IN Scored(Ranked(DOMAIN best, best, k), best)

\* One query, or search_multi_vector and search_with_expansion for several.
HitsOf(store, tenant, filters, q) ==
    IF store = "semantic" THEN SemanticHits(tenant, filters, q) ELSE KeywordHits(tenant, filters, q)
HitLists(store, tenant, filters, queries) ==
    [i \in DOMAIN queries |-> HitsOf(store, tenant, filters, queries[i])]
SearchHits(store, tenant, filters, queries) ==
    LET lists == HitLists(store, tenant, filters, queries)
    IN IF Len(queries) = 1 THEN lists[1] ELSE AggregatedHits(lists, StoreTopK[store])

----------------------------------------------------------------------------
(* From a hit to the record of an answer.                                  *)

Without(f, names) == Restrict(f, DOMAIN f \ names)

\* The fields of SemanticResult and of KeywordResult that are read out of what
\* the store returned; of the semantic one chunk_id is the id of the point.
SemanticResult == {"document_id", "title", "content", "visibility"}
KeywordResult == {"chunk_id", "document_id", "title", "content", "visibility"}

\* convert_hit and convert_result: the named fields; the rest is metadata.
KeywordRecord(c, source) ==
    Beside([f \in KeywordResult |-> source[f]],
           [metadata |-> Without(source, KeywordResult \cup {"tenant_id"})])
SemanticRecord(c, payload) ==
    Beside([f \in SemanticResult |-> payload[f]],
           [chunk_id |-> c, metadata |-> Without(payload, SemanticResult \cup {"tenant_id"})])

\* HybridSearcher.search: the semantic record where there is one.
Enriched(c, semantic, keyword) ==
    IF c \in semantic THEN SemanticRecord(c, FromQdrant(Payload(c)))
    ELSE KeywordRecord(c, Source(c))

\* convert_to_response: source_type and total_chunks come out of the metadata.
FromMetadata(record, name, default) ==
    IF name \in DOMAIN record.metadata THEN record.metadata[name] ELSE default
Response(record) ==
    [chunk_id |-> record.chunk_id, document_id |-> record.document_id,
     title |-> record.title, content |-> record.content,
     source_type |-> FromMetadata(record, "source_type", NoValue),
     total_chunks |-> FromMetadata(record, "total_chunks", 1)]

----------------------------------------------------------------------------

NoSearch == [store |-> "none"]
NoOutcomes == [d \in StoredDocuments |-> [keyword |-> "none", semantic |-> "none"]]
NoneMissed == [d \in StoredDocuments |-> {}]
NoFilters == [source |-> NoValue, document |-> NoValue]

StoresInit ==
    /\ mapping = "absent" /\ entries = {} /\ visible = {} /\ unseen = {}
    /\ collection = FALSE /\ points = {}
    /\ outcomes = NoOutcomes /\ missed = NoneMissed
    /\ search = NoSearch

\* create_documents_index; an index that exists is an error and stays.
CreateIndex ==
    /\ mapping = "absent" /\ mapping' = "explicit"
    /\ UNCHANGED <<entries, visible, unseen, collection, points, outcomes, missed, search>>

\* create_collection.
CreateCollection ==
    /\ ~collection /\ collection' = TRUE
    /\ UNCHANGED <<indexVars, points, outcomes, missed, search>>

\* delete_index.
DropIndex ==
    /\ mapping # "absent" /\ mapping' = "absent"
    /\ entries' = {} /\ visible' = {} /\ unseen' = {}
    /\ outcomes' = [d \in StoredDocuments |-> [outcomes[d] EXCEPT !.keyword = "none"]]
    /\ missed' = NoneMissed
    /\ search' = NoSearch /\ UNCHANGED <<collection, points>>

\* OpenSearch by itself: what was written and deleted so far is searched from now on.
Refresh ==
    /\ visible # entries \/ unseen # {}
    /\ visible' = entries /\ unseen' = {}
    /\ search' = NoSearch /\ UNCHANGED <<mapping, entries, collection, points, outcomes, missed>>

\* One more report is kept only up to the bound.
Reported == {r \in StoredDocuments \X {"keyword", "semantic"} : outcomes[r[1]][r[2]] # "none"}
Room(d, store) == <<d, store>> \in Reported \/ Cardinality(Reported) < MaxReports
Told(d, store, what) == [outcomes EXCEPT ![d][store] = what]

\* Mutant: the errors of single items are not looked at.
BulkSaysWritten(d, written) == "written"
\* bulk_index: Ok unless an item failed.
BulkSays(d, written) == IF written = ChunksOfDocument(d) THEN "written" ELSE "failed"

\* bulk_index of a document: each item is written or not, or the request fails.
BulkIndex(d) ==
    /\ Room(d, "keyword")
    /\ \E written \in SUBSET ChunksOfDocument(d) :
        /\ entries' = entries \cup written /\ unseen' = unseen \cup written
        /\ mapping' = IF mapping = "absent" /\ written # {} THEN "dynamic" ELSE mapping
        /\ outcomes' = Told(d, "keyword", BulkSays(d, written))
    /\ missed' = [missed EXCEPT ![d] = {}]
    /\ search' = NoSearch /\ UNCHANGED <<visible, collection, points>>

\* upsert of a document: one request for all of its points.
Upsert(d) ==
    /\ Room(d, "semantic")
    /\ \/ collection /\ points' = points \cup ChunksOfDocument(d)
          /\ outcomes' = Told(d, "semantic", "written")
       \/ points' = points /\ outcomes' = Told(d, "semantic", "failed")
    /\ search' = NoSearch /\ UNCHANGED <<indexVars, collection, missed>>

\* What delete_by_query finds, and what of it is still as it was found; one
\* that was written again or deleted since is a version conflict.
QueryHits(d) == {c \in visible : EraseHit(d, c)}
Erasable(d) == QueryHits(d) \cap (entries \ unseen)

\* delete_by_query; an index that is absent, a conflict or a failure is an
\* error, and part of the hits may be deleted by then.
DeleteByQuery(d) ==
    /\ Room(d, "keyword")
    /\ \/ /\ mapping # "absent" /\ Erasable(d) = QueryHits(d)
          /\ entries' = entries \ QueryHits(d)
          /\ outcomes' = Told(d, "keyword", "erased")
          /\ missed' = [missed EXCEPT ![d] = ChunksOfDocument(d) \cap unseen]
       \/ /\ \E gone \in SUBSET Erasable(d) : entries' = entries \ gone
          /\ outcomes' = Told(d, "keyword", "failed")
          /\ missed' = [missed EXCEPT ![d] = {}]
    /\ search' = NoSearch /\ UNCHANGED <<mapping, visible, unseen, collection, points>>

\* delete_by_filter.
DeleteByFilter(d) ==
    /\ Room(d, "semantic")
    /\ \/ /\ collection
          /\ points' = {c \in points : FromQdrant(Payload(c)).document_id # d}
          /\ outcomes' = Told(d, "semantic", "erased")
       \/ points' = points /\ outcomes' = Told(d, "semantic", "failed")
    /\ search' = NoSearch /\ UNCHANGED <<indexVars, collection, missed>>

\* Bound: a search comes after at most one report; any state of the stores is met so.
Search(store, tenant, filters, queries) ==
    /\ search = NoSearch /\ Cardinality(Reported) <= 1
    /\ IF store = "semantic" THEN collection ELSE mapping # "absent"
    /\ search' = [store |-> store, tenant |-> tenant, filters |-> filters, queries |-> queries,
                  hits |-> SearchHits(store, tenant, filters, queries)]
    /\ outcomes' = NoOutcomes /\ missed' = NoneMissed
    /\ UNCHANGED <<indexVars, collection, points>>

StoresNext ==
    \/ CreateIndex \/ CreateCollection \/ DropIndex \/ Refresh
    \/ \E d \in StoredDocuments : BulkIndex(d) \/ Upsert(d) \/ DeleteByQuery(d) \/ DeleteByFilter(d)
    \/ \E store \in {"semantic", "keyword"}, tenant \in StoreTenants,
          filters \in StoreFilters, asked \in (SUBSET StoreQueries) \ {{}} :
        Search(store, tenant, filters, SetToSeq(asked))

StoresSpec == StoresInit /\ [][StoresNext]_storesVars

----------------------------------------------------------------------------
(* Properties.                                                             *)

\* What a store reported of a document is what it holds: written means every
\* chunk, and erased none. Of the keyword index the second is so but for the
\* chunks that no refresh had shown when the document was erased, and for an
\* index that the first write made, which keeps every chunk: it needs the
\* mappings of create_documents_index (write_to_opensearch, bulk_index,
\* delete_from_opensearch, delete_by_query).
ReportsTrue ==
    \A d \in StoredDocuments :
        /\ outcomes[d].keyword = "written" => ChunksOfDocument(d) \subseteq entries
        /\ outcomes[d].keyword = "erased" /\ mapping = "explicit" =>
                ChunksOfDocument(d) \cap entries \subseteq missed[d]
        /\ outcomes[d].semantic = "written" => ChunksOfDocument(d) \subseteq points
        /\ outcomes[d].semantic = "erased" => ChunksOfDocument(d) \cap points = {}

\* Several queries are searched like one: no chunk twice, the best first, and
\* a chunk that is left out is no better in any of the lists than one that is
\* shown (search_multi_vector, search_with_expansion, aggregate_results).
AggregationKeepsBest ==
    search # NoSearch =>
        LET hits == search.hits
            lists == HitLists(search.store, search.tenant, search.filters, search.queries)
        IN /\ Len(hits) <= StoreTopK[search.store]
           /\ \A i, j \in DOMAIN hits :
                i < j => hits[i].chunk # hits[j].chunk /\ hits[i].score >= hits[j].score
           /\ \A l \in DOMAIN lists : \A n \in DOMAIN lists[l] :
                \/ \E i \in DOMAIN hits : /\ hits[i].chunk = lists[l][n].chunk
                                          /\ hits[i].score >= lists[l][n].score
                \/ \A i \in DOMAIN hits : hits[i].score >= lists[l][n].score

\* Whichever store finds a chunk, the answer shows the same chunk of the same
\* document (convert_result, convert_hit, convert_to_response).
AnswersNameTheirSource ==
    search # NoSearch =>
        \A i \in DOMAIN search.hits :
            LET c == search.hits[i].chunk
                shown == Response(Enriched(c, IF search.store = "semantic" THEN {c} ELSE {}, {c}))
            IN /\ shown.chunk_id = c /\ shown.document_id = StoredChunks[c].document
               /\ StoredChunks[c].tenant = search.tenant
               /\ shown.title = StoredChunks[c].title /\ shown.content = c

\* The script that creates the index says it is for keyword search: a keyword
\* search without filters finds what a document of the tenant was written with.
KeywordSearchFinds ==
    search # NoSearch /\ search.store = "keyword" /\ search.filters = NoFilters =>
        \A c \in visible :
            /\ StoredChunks[c].tenant = search.tenant
            /\ \E i \in DOMAIN search.queries : Relevance[search.queries[i]][c] > 0
            => search.hits # <<>>

\* The stores hold what they reported, and a search over several queries shows
\* the best of it under its own name.
StoresTruthful == ReportsTrue /\ AggregationKeepsBest /\ AnswersNameTheirSource
=============================================================================
