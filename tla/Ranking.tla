------------------------------ MODULE Ranking ------------------------------
(***************************************************************************)
(* How the retrieval service ranks what the stores return: the fusion of   *)
(* the two result lists (fusion/), the aggregation of several queries      *)
(* (api/routes/multi.rs), the deduplication by document                    *)
(* (hybrid/searcher.rs) and the reranking in batches (reranking/).         *)
(*                                                                         *)
(* Scores are integers: what the code divides is brought to a common       *)
(* denominator, so that the comparisons are those of the real numbers.     *)
(* Items are collected in hash maps, hence equal scores come in any order. *)
(* One ranking is one value of ranking.                                    *)
(***************************************************************************)
EXTENDS Integers, SequencesExt, FiniteSetsExt, Functions

CONSTANTS
    Ids,            \* chunks
    Scores,         \* of a list, a subset of Nat
    Weights,        \* pairs semantic_weight, keyword_weight
    RrfK, RrfUnit,  \* rrf_k, and a multiple of every k + rank
    MaxList,        \* bound: results of a store
    ZUnit,          \* z-scores are whole multiples of 1 / ZUnit
    MaxQueries,     \* bound: queries of a request
    AvgUnit,        \* a multiple of every number of queries
    DocumentOf,     \* the document of a chunk
    TopKs,          \* values of top_k
    RerankBatch,    \* max_batch_size
    RerankThreshold,\* score_threshold
    MaxReranked     \* max_documents

\* HybridSearchConfig::from_env: weights and rrf_k are taken as they are; a
\* negative weight, or an rrf_k of 0, is not considered here.
FusionConfigured == Weights \subseteq Nat \X Nat /\ RrfK \in Nat \ {0}
\* HybridSearchConfig and its defaults: how many results.
HybridConfigured == TopKs \subseteq Nat \ {0}
\* RerankerConfig: a batch size of 0 would never end.
RerankerConfigured ==
    RerankBatch \in Nat \ {0} /\ MaxReranked \in Nat /\ RerankThreshold \in Nat

ASSUME RankingAssumption ==
    /\ FusionConfigured /\ HybridConfigured /\ RerankerConfigured
    /\ Scores \subseteq Nat /\ DOMAIN DocumentOf = Ids
    /\ MaxList \in Nat /\ MaxQueries \in Nat /\ ZUnit \in Nat \ {0}
    /\ RrfUnit \in Nat /\ \A i \in 0..MaxList : RrfUnit % (RrfK + i) = 0
    /\ AvgUnit \in Nat /\ \A n \in 1..MaxQueries : AvgUnit % n = 0

VARIABLE ranking

----------------------------------------------------------------------------
(* Lists.                                                                  *)

ScoredItem == [id : Ids, score : Scores]
Descending(s) == \A i, j \in DOMAIN s : i < j => s[i].score >= s[j].score
IdsOf(s) == {s[i].id : i \in DOMAIN s}
Distinct(s) == \A i, j \in DOMAIN s : i # j => s[i].id # s[j].id

\* What a store returns: its best first.
Lists == {s \in SeqOf(ScoredItem, MaxList) : Descending(s) /\ Distinct(s)}

At(s, id) == CHOOSE i \in DOMAIN s : s[i].id = id
ScoreIn(s, id) == s[At(s, id)].score
Least(s) == Min({s[i].score : i \in DOMAIN s})
Greatest(s) == Max({s[i].score : i \in DOMAIN s})

\* sort_by score descending and truncate: what may come out.
Sorted(ids, score) ==
    {s \in SetToSeqs({[id |-> d, score |-> score[d]] : d \in ids}) : Descending(s)}
Best(s, k) == SubSeq(s, 1, Min({k, Len(s)}))

\* retain: the places of s that are kept, in their order.
Retained(s, kept) ==
    LET upto[n \in 0..Len(s)] ==
            IF n = 0 THEN <<>>
            ELSE IF n \in kept THEN Append(upto[n - 1], s[n]) ELSE upto[n - 1]
    IN upto[Len(s)]
Summed(f) ==
    LET upto[n \in 0..Len(f)] == IF n = 0 THEN 0 ELSE upto[n - 1] + f[n] IN upto[Len(f)]

----------------------------------------------------------------------------
(* Fusion.                                                                 *)

\* rrf_score: ranks count from 0.  In units of 1 / RrfUnit.
RrfScore(rank) == RrfUnit \div (RrfK + rank)
RrfPart(s, id) == IF id \in IdsOf(s) THEN RrfScore(At(s, id) - 1) ELSE 0
Rrf(sem, kw, w, id) == w[1] * RrfPart(sem, id) + w[2] * RrfPart(kw, id)

\* normalize_to_map: min-max, 1 when all scores are the same, in units of
\* 1 / Spread.  A missing score counts as 0, the last of the list as well.
Spread(s) == IF s = <<>> \/ Greatest(s) = Least(s) THEN 1 ELSE Greatest(s) - Least(s)

Normalized(s, id) ==
    IF id \notin IdsOf(s) THEN 0
    ELSE IF Greatest(s) = Least(s) THEN 1
    ELSE ScoreIn(s, id) - Least(s)
Linear(sem, kw, w, id) ==
    w[1] * Normalized(sem, id) * Spread(kw) + w[2] * Normalized(kw, id) * Spread(sem)

\* normalize set to FALSE.
LinearRaw(sem, kw, w, id) ==
    LET raw(s) == IF id \in IdsOf(s) THEN ScoreIn(s, id) ELSE 0
    IN w[1] * raw(sem) + w[2] * raw(kw)

\* z_score_normalize: how far a score lies from the mean, in deviations of the
\* sample, rounded down to units of 1 / ZUnit.  Scores that do not differ, and a
\* missing one, lie on the mean.
Off(s, i) == Len(s) * s[i].score - Summed([j \in DOMAIN s |-> s[j].score])
Deviation(s) ==
    LET squares == ZUnit * ZUnit * Summed([i \in DOMAIN s |-> Off(s, i) * Off(s, i)])
    IN Max({v \in 0..squares : (Len(s) - 1) * v * v <= squares})
ZScore(s, id) ==
    IF id \notin IdsOf(s) \/ Deviation(s) = 0 THEN 0
    ELSE (ZUnit * ZUnit * Off(s, At(s, id))) \div Deviation(s)
Dbsf(sem, kw, w, id) == w[1] * ZScore(sem, id) + w[2] * ZScore(kw, id)

Methods == {"rrf", "linear", "linear_raw", "dbsf"}
FusedScore(method, sem, kw, w) ==
    [id \in IdsOf(sem) \cup IdsOf(kw) |->
        CASE method = "rrf" -> Rrf(sem, kw, w, id)
          [] method = "linear" -> Linear(sem, kw, w, id)
          [] method = "linear_raw" -> LinearRaw(sem, kw, w, id)
          [] method = "dbsf" -> Dbsf(sem, kw, w, id)]

Fusions(method, sem, kw, w) ==
    Sorted(IdsOf(sem) \cup IdsOf(kw), FusedScore(method, sem, kw, w))

----------------------------------------------------------------------------
(* Several queries.                                                        *)

Finding(lists, id) == {i \in DOMAIN lists : id \in IdsOf(lists[i])}
ScoresOf(lists, id) == {ScoreIn(lists[i], id) : i \in Finding(lists, id)}

\* aggregate_max and aggregate_avg, the latter over the queries that found the
\* chunk, in units of 1 / AvgUnit.
AggregateMax(lists, id) == AvgUnit * Max(ScoresOf(lists, id))

AggregateAvg(lists, id) ==
    LET found == Finding(lists, id)
        scores == [i \in DOMAIN lists |-> IF i \in found THEN ScoreIn(lists[i], id) ELSE 0]
    IN (AvgUnit * Summed(scores)) \div Cardinality(found)

\* aggregate_rrf counts ranks from 1.
AggregateRrf(lists, id) ==
    Summed([i \in DOMAIN lists |->
                IF i \in Finding(lists, id) THEN RrfScore(At(lists[i], id)) ELSE 0])

FoundByAny(lists) == UNION {IdsOf(lists[i]) : i \in DOMAIN lists}
Aggregated(how, lists) ==
    [id \in FoundByAny(lists) |-> CASE how = "max" -> AggregateMax(lists, id)
                               [] how = "avg" -> AggregateAvg(lists, id)
                               [] OTHER -> AggregateRrf(lists, id)]

----------------------------------------------------------------------------
(* After the fusion: HybridSearcher.search.                                *)

\* Mutant: a later chunk of a document replaces an earlier one.
LeadsLast(s, i) ==
    \A j \in DOMAIN s : DocumentOf[s[j].id] = DocumentOf[s[i].id] => j <= i

\* deduplicate: the chunk with the best score of each document, the earliest
\* among equals.  Its map has no order.
Leads(s, i) ==
    \A j \in DOMAIN s : DocumentOf[s[j].id] = DocumentOf[s[i].id] /\ j # i =>
        s[j].score < s[i].score \/ (s[j].score = s[i].score /\ j > i)

Deduplicated(s) ==
    LET kept == {s[i] : i \in {i \in DOMAIN s : Leads(s, i)}}
    IN Sorted({x.id : x \in kept}, [id \in {x.id : x \in kept} |-> ScoreIn(s, id)])

\* The fused list is cut to top_k before the threshold, which only a min_score above
\* 0 sets, and before the deduplication, which deduplicate may switch off.
Pruned(fused, cut, k) ==
    LET best == Best(fused, k)
    IN IF cut > 0 THEN Retained(best, {i \in DOMAIN best : best[i].score >= cut}) ELSE best
Outcomes(fused, cut, k, dedup) ==
    IF dedup THEN Deduplicated(Pruned(fused, cut, k)) ELSE {Pruned(fused, cut, k)}

----------------------------------------------------------------------------
(* Reranking.                                                              *)

\* What the reranker may send back for a batch: scores under the indexes of
\* documents, which it may forget, repeat or exceed; nothing when the request
\* fails.
ScoreReplies == SeqOf([index : 0..RerankBatch, score : Scores], RerankBatch)

BatchStarts(n) == {b \in 0..(n - 1) : b % RerankBatch = 0}
BatchLen(n, b) == Min({RerankBatch, n - b})

\* process_response: a wrong count or an index out of bounds is an error; a
\* document that is not named keeps 0, one named twice its last score.
Acceptable(reply, len) ==
    Len(reply) = len /\ \A i \in DOMAIN reply : reply[i].index < len
Named(reply, index) == {i \in DOMAIN reply : reply[i].index = index}
BatchScores(reply, len) ==
    [j \in 1..len |-> IF Named(reply, j - 1) = {} THEN 0
                      ELSE reply[Max(Named(reply, j - 1))].score]

AllScores(n, reply) ==
    [j \in 1..n |-> LET b == ((j - 1) \div RerankBatch) * RerankBatch
                    IN BatchScores(reply[b], BatchLen(n, b))[j - b]]

Surviving(n, reply) ==
    {x \in {[id |-> j, score |-> AllScores(n, reply)[j]] : j \in 1..n} :
         x.score >= RerankThreshold}

RerankFails(n, reply) ==
    \/ n > MaxReranked
    \/ \E b \in BatchStarts(n) : ~Acceptable(reply[b], BatchLen(n, b))

\* rerank_with_options, then rerank_results by the identifiers it gave out.
\* Equal scores keep their order.
Reranked(n, reply, k) ==
    Best(CHOOSE s \in SetToSeqs(Surviving(n, reply)) :
             /\ Descending(s)
             /\ \A i, j \in DOMAIN s : i < j /\ s[i].score = s[j].score => s[i].id < s[j].id,
         k)

----------------------------------------------------------------------------
(* One ranking after another.                                              *)

RankInit == ranking = [kind |-> "none"]

FuseLists ==
    \E method \in Methods, sem, kw \in Lists, w \in Weights, k \in TopKs :
    \E fused \in Fusions(method, sem, kw, w) :
    \E cut \in {0} \cup {fused[i].score : i \in DOMAIN fused}, dedup \in BOOLEAN :
    \E out \in Outcomes(fused, cut, k, dedup) :
        ranking' = [kind |-> "fusion", method |-> method, sem |-> sem, kw |-> kw,
                    w |-> w, k |-> k, cut |-> cut, dedup |-> dedup, fused |-> fused,
                    out |-> out]

\* search_semantic_only and search_keyword_only: what the one store returns, with
\* neither the threshold nor the deduplication.
SingleList ==
    \E list \in Lists, k \in TopKs :
        ranking' = [kind |-> "single", list |-> list, k |-> k, out |-> Best(list, k)]

AggregateLists ==
    \E how \in {"max", "avg", "rrf"}, lists \in SeqOf(Lists, MaxQueries) \ {<<>>} :
    \E out \in Sorted(FoundByAny(lists), Aggregated(how, lists)) :
        ranking' = [kind |-> "aggregation", how |-> how, lists |-> lists, out |-> out]

RerankList ==
    \E n \in 0..(MaxReranked + 1), k \in TopKs : \E reply \in [BatchStarts(n) -> ScoreReplies] :
        ranking' = IF RerankFails(n, reply) THEN [kind |-> "rerank failed"]
                   ELSE [kind |-> "rerank", n |-> n, k |-> k, reply |-> reply,
                         out |-> Reranked(n, reply, k)]

RankNext == ranking.kind = "none" /\ (FuseLists \/ SingleList \/ AggregateLists \/ RerankList)
RankSpec == RankInit /\ [][RankNext]_ranking

----------------------------------------------------------------------------
(* Properties.                                                             *)

\* a is in the list, and before b if that is in it as well.
Ahead(s, a, b) == a \in IdsOf(s) /\ (b \in IdsOf(s) => At(s, a) < At(s, b))

\* A chunk that both stores put before another, or that is before it in the one
\* list and both are missing from the other, does not come out behind it with a
\* lower score, whatever the weights and the method: fusion.rs combines lists,
\* it overrules neither.
FusionRespectsAgreement ==
    ranking.kind = "fusion" =>
        LET lists == {ranking.sem, ranking.kw}
            fused == ranking.fused
        IN \A i, j \in DOMAIN fused :
               LET a == fused[i].id b == fused[j].id
               IN /\ \A s \in lists : b \in IdsOf(s) => Ahead(s, a, b)
                  /\ ranking.method = "dbsf" =>
                         \A s \in lists : a \in IdsOf(s) => b \in IdsOf(s)
                  => fused[i].score >= fused[j].score

\* A hybrid search loses no document of the fused top_k that the threshold let pass.
\* With deduplicate its answer names no document twice, each by a chunk that no other
\* of its chunks beats; without, it keeps every chunk.
OneBestChunkPerDocument ==
    ranking.kind = "fusion" =>
        LET pruned == Pruned(ranking.fused, ranking.cut, ranking.k)
            out == ranking.out
            documents(s) == {DocumentOf[s[i].id] : i \in DOMAIN s}
        IN /\ documents(out) = documents(pruned)
           /\ IF ranking.dedup
              THEN /\ Len(out) = Cardinality(documents(out))
                   /\ \A i \in DOMAIN out : \A j \in DOMAIN pruned :
                          DocumentOf[pruned[j].id] = DocumentOf[out[i].id] =>
                              pruned[j].score <= out[i].score
              ELSE IdsOf(out) = IdsOf(pruned)

\* The answer of a search in any mode has the better scores first and names no chunk
\* twice.
BetterFirst ==
    ranking.kind \in {"fusion", "single"} => Descending(ranking.out) /\ Distinct(ranking.out)

\* Every chunk of any query is in the aggregate once, and its average lies
\* between the scores it was found with: a query that did not find it does not
\* take from it.
AggregateWithinScores ==
    ranking.kind = "aggregation" =>
        /\ IdsOf(ranking.out) = FoundByAny(ranking.lists) /\ Distinct(ranking.out)
        /\ ranking.how # "rrf" => \A i \in DOMAIN ranking.out :
               LET scores == ScoresOf(ranking.lists, ranking.out[i].id)
               IN ranking.out[i].score \in (AvgUnit * Min(scores))..(AvgUnit * Max(scores))

\* When the reranker names every document of every batch once, each reranked
\* result carries the score given to its own text, across the batches, and no
\* result left out has a better one.
RerankTruthful ==
    ranking.kind = "rerank" =>
        LET named(j) == LET b == ((j - 1) \div RerankBatch) * RerankBatch
                        IN {i \in DOMAIN ranking.reply[b] :
                                ranking.reply[b][i].index = j - b - 1}
            given(j) == LET b == ((j - 1) \div RerankBatch) * RerankBatch
                        IN {ranking.reply[b][i].score : i \in named(j)}
            out == ranking.out
        IN (\A j \in 1..ranking.n : Cardinality(named(j)) = 1) =>
               /\ \A i \in DOMAIN out : given(out[i].id) = {out[i].score}
               /\ \A j \in (1..ranking.n) \ IdsOf(out) : \A x \in given(j) :
                      x < RerankThreshold \/ (Len(out) = ranking.k /\ x <= Last(out).score)

\* Between the hits of the stores and the answer, fusion, deduplication,
\* aggregation and the reranker change an order only where a score says so, and
\* lose nothing that ranks above what they keep.
RankingRespectsScores ==
    /\ FusionRespectsAgreement /\ OneBestChunkPerDocument /\ BetterFirst
    /\ AggregateWithinScores /\ RerankTruthful
=============================================================================
