----------------------------- MODULE SharedCache -----------------------------
(***************************************************************************)
(* The Redis cache of the services: CacheClient (rag-cache), the cache of  *)
(* query results and its statistics (QueryCache, RetrievalCache and        *)
(* CacheStats of rag-retrieval) and the cache of embeddings                *)
(* (EmbeddingCache of rag-cache).                                          *)
(*                                                                         *)
(* A Redis command is atomic and may fail. What takes several commands or  *)
(* several counters takes several steps, with other callers in between:    *)
(* scan_delete's loop, the pipeline of mset, the counting after a command, *)
(* the reading of a rate. A behaviour is about query results or about      *)
(* embeddings: they share no key.                                          *)
(***************************************************************************)
EXTENDS Integers, FiniteSetsExt, SequencesExt, Functions

CONSTANTS
    CacheCallers,           \* concurrent users of one process
    CacheTenants,
    Queries,                \* the tenant, the normalised text and the user of a query
    Texts,                  \* contents to embed
    Lengths,                \* of result lists
    MaxCachedResults,       \* max_cached_results
    EntryTtl,               \* ttl_seconds, embedding_ttl; 0 is below a second
    MaxCached, MaxCounted   \* bounds: commands that write, calls counted

\* QueryCacheKey: what tells two queries apart; filters, limits and weights
\* are part of the text here.
CacheQuery(q) == DOMAIN q = {"tenant", "text", "user"} /\ q.tenant \in CacheTenants

ASSUME SharedCacheAssumption ==
    /\ \A q \in Queries : CacheQuery(q)
    /\ Lengths \subseteq Nat /\ MaxCachedResults \in Nat /\ EntryTtl \in Nat
    /\ MaxCached \in Nat /\ MaxCounted \in Nat

VARIABLES
    usedAs,     \* what this behaviour caches, QueryCacheConfig, whether anyone reads the rates
    keyspace,   \* Redis: key -> entry
    call,       \* per caller: where its call stands
    writes,     \* calls that wrote
    tally,      \* CacheStats
    lookups,    \* calls of RetrievalCache::get that have returned; reset() sets it to NotCounted
    meter       \* a reader of hit_rate, or one calling reset

cacheVars == <<usedAs, keyspace, call, writes, tally, lookups, meter>>

\* invalidate_tenant is not counted: where the rates are read, it is left out.
Uses == [area : {"query"}, enabled : BOOLEAN, perUser : BOOLEAN, metered : {FALSE}] \cup
        [area : {"query"}, enabled : {TRUE}, perUser : {FALSE}, metered : {TRUE}] \cup
        [area : {"embedding"}, enabled : {TRUE}, perUser : {FALSE}, metered : {FALSE}]
Unreadable == [readable |-> FALSE]     \* a value another version of the code has stored
NotCounted == -1
NoAnswer == {}                   \* a call that answers no value; else the set of it
NoCall == [at |-> "none"]
SumOf(counts) == MapThenSumSet(LAMBDA x : counts[x], DOMAIN counts)
Counters == {"hits", "misses", "sets", "invalidations", "errors"}
MeterOff == [at |-> "off", hits |-> 0, total |-> 0]

----------------------------------------------------------------------------
(* Keys. The hash of the parameters distinguishes what it is made from.    *)

BuildKey(q) ==
    <<"query", q.tenant, IF usedAs.perUser THEN <<q.text, q.user>> ELSE <<q.text>>>>
EmbeddingKey(t, text) == <<"embedding", t, text>>
\* The pattern key_prefix:tenant:* of invalidate_tenant.
MatchesTenant(k, t) == k[1] = "query" /\ k[2] = t
KeysOfTenant(t) == {k \in DOMAIN keyspace : MatchesTenant(k, t)}

----------------------------------------------------------------------------
(* Commands: each has an outcome, or fails.                                *)

Present(k) == k \in DOMAIN keyspace
Parses(k) == Present(k) /\ keyspace[k] # Unreadable
With(space, k, v) == [x \in DOMAIN space \cup {k} |-> IF x = k THEN v ELSE space[x]]

\* A key that is set is no longer one a scan has to delete.
Resaved(k) ==
    [c \in CacheCallers |->
        IF call[c].at \in {"scan", "scanned"} THEN [call[c] EXCEPT !.since = @ \ {k}] ELSE call[c]]

PutEx(k, v) ==
    /\ writes < MaxCached /\ writes' = writes + 1
    /\ EntryTtl >= 1
    /\ keyspace' = With(keyspace, k, v)
Del(ks) == keyspace' = Restrict(keyspace, DOMAIN keyspace \ ks)

\* A key that goes away is no longer one SCAN has to return.
ScanForgets(calls, ks) ==
    [c \in CacheCallers |->
        IF calls[c].at = "scan" THEN [calls[c] EXCEPT !.due = @ \ ks] ELSE calls[c]]

Free(c) == call[c].at \in {"none", "done", "scanned"}

CacheInit ==
    /\ usedAs \in Uses
    /\ keyspace = <<>> /\ writes = 0 /\ lookups = 0
    /\ call = [c \in CacheCallers |-> NoCall]
    /\ tally = [x \in Counters |-> 0]
    /\ meter = MeterOff

----------------------------------------------------------------------------
(* Query results.                                                          *)

Querying == usedAs.area = "query"
Counting(x) == [at |-> "count", counter |-> x, get |-> FALSE, answer |-> NoAnswer]
CountingGet(x, answer) == [at |-> "count", counter |-> x, get |-> TRUE, answer |-> answer]
Miss == CountingGet("misses", NoAnswer)

\* QueryCache::get: disabled, a failing Redis and a value that does not parse are misses.
GetResults(c, q) ==
    /\ Querying /\ Free(c)
    /\ \/ /\ usedAs.enabled /\ Parses(BuildKey(q))
          /\ call' = [call EXCEPT ![c] =
                 CountingGet("hits", {[asked |-> q, results |-> keyspace[BuildKey(q)]]})]
       \/ call' = [call EXCEPT ![c] = Miss]
    /\ UNCHANGED <<usedAs, keyspace, writes, tally, lookups, meter>>

Cap(n) == IF n > MaxCachedResults THEN MaxCachedResults ELSE n
\* QueryCache::set stores the first max_cached_results.
SetResults(c, q, n) ==
    /\ Querying /\ Free(c)
    /\ \/ /\ usedAs.enabled
          /\ PutEx(BuildKey(q), [query |-> q, length |-> Cap(n), of |-> n])
          /\ call' = [Resaved(BuildKey(q)) EXCEPT ![c] = Counting("sets")]
       \/ /\ call' = [call EXCEPT ![c] = Counting(IF usedAs.enabled THEN "errors" ELSE "sets")]
          /\ UNCHANGED <<keyspace, writes>>
    /\ UNCHANGED <<usedAs, tally, lookups, meter>>

InvalidateResults(c, q) ==
    /\ Querying /\ Free(c)
    /\ \/ /\ usedAs.enabled /\ Del({BuildKey(q)})
          /\ call' = [ScanForgets(call, {BuildKey(q)}) EXCEPT ![c] = Counting("invalidations")]
       \/ /\ call' = [call EXCEPT ![c] =
                 Counting(IF usedAs.enabled THEN "errors" ELSE "invalidations")]
          /\ UNCHANGED keyspace
    /\ UNCHANGED <<usedAs, writes, tally, lookups, meter>>

\* The statistics are kept after the command, by whichever thread comes first.
CountCall(c) ==
    /\ call[c].at = "count" /\ SumOf(tally) < MaxCounted
    /\ tally' = [tally EXCEPT ![call[c].counter] = @ + 1]
    /\ lookups' = IF lookups # NotCounted /\ call[c].get
                  THEN lookups + 1 ELSE lookups
    /\ call' = [call EXCEPT ![c] = NoCall]
    /\ UNCHANGED <<usedAs, keyspace, writes, meter>>

----------------------------------------------------------------------------
(* invalidate_tenant: SCAN and DEL until the cursor is 0 again.             *)

InvalidateTenant(c, t) ==
    /\ Querying /\ usedAs.enabled /\ ~usedAs.metered /\ Free(c)
    /\ call' = [call EXCEPT ![c] = [at |-> "scan", tenant |-> t, due |-> KeysOfTenant(t),
                                    since |-> KeysOfTenant(t)]]
    /\ UNCHANGED <<usedAs, keyspace, writes, tally, lookups, meter>>

\* SCAN returns some keys, at times none before its end; those that are there
\* from the first call to the last are among what it returns.
Scanned(c, batch, last) ==
    /\ batch \subseteq KeysOfTenant(call[c].tenant)
    /\ last => call[c].due \subseteq batch

\* The loop ends with the first empty batch.
CursorEndsEmpty(c, batch, last) == last \/ batch = {}
CursorEnds(c, batch, last) == last

ScanBatch(c, batch, last) ==
    /\ call[c].at = "scan" /\ Scanned(c, batch, last)
    /\ call' = [ScanForgets(call, batch) EXCEPT ![c] =
           [at |-> IF CursorEnds(c, batch, last) THEN "scanned" ELSE "scan", tenant |-> @.tenant,
            due |-> @.due \ batch, since |-> @.since]]
    /\ Del(batch)
    /\ UNCHANGED <<usedAs, writes, tally, lookups, meter>>

\* A failing command ends the loop; what was deleted stays deleted.
ScanFails(c) ==
    /\ call[c].at = "scan"
    /\ call' = [call EXCEPT ![c] = NoCall]
    /\ UNCHANGED <<usedAs, keyspace, writes, tally, lookups, meter>>

----------------------------------------------------------------------------
(* Embeddings.                                                             *)

Embeds == usedAs.area = "embedding"
Batches == SeqOf(Texts, 2) \ {<<>>}
NoVector == [stored |-> FALSE]
Vector(t, text) == [tenant |-> t, text |-> text]

\* MGET: one value for every key, in their order. One that does not parse fails the call.
Values(t, texts) ==
    [i \in DOMAIN texts |-> IF Present(EmbeddingKey(t, texts[i]))
                            THEN keyspace[EmbeddingKey(t, texts[i])] ELSE NoVector]
Zipped(texts, values) == {<<texts[i], values[i]>> : i \in {j \in DOMAIN texts : values[j] # NoVector}}

\* get, get_by_hash and get_many.
GetEmbeddings(c, t, texts) ==
    /\ Embeds /\ Free(c)
    /\ call' = [call EXCEPT ![c] =
           IF \E i \in DOMAIN texts : Values(t, texts)[i] = Unreadable THEN NoCall
           ELSE [at |-> "done", answer |->
                   {[tenant |-> t, texts |-> texts, found |-> Zipped(texts, Values(t, texts))]}]]
    /\ UNCHANGED <<usedAs, keyspace, writes, tally, lookups, meter>>

\* set, set_by_hash and set_many: a pipeline is not a transaction.
SetEmbeddings(c, t, texts) ==
    /\ Embeds /\ Free(c) /\ EntryTtl >= 1
    /\ call' = [call EXCEPT ![c] = [at |-> "pipe", tenant |-> t, texts |-> texts]]
    /\ UNCHANGED <<usedAs, keyspace, writes, tally, lookups, meter>>
PipeNext(c) ==
    /\ call[c].at = "pipe"
    /\ LET t == call[c].tenant   text == Head(call[c].texts)   rest == Tail(call[c].texts) IN
       /\ PutEx(EmbeddingKey(t, text), Vector(t, text))
       /\ call' = [call EXCEPT ![c] = IF rest = <<>> THEN [at |-> "done", answer |-> NoAnswer]
                                      ELSE [@ EXCEPT !.texts = rest]]
    /\ UNCHANGED <<usedAs, tally, lookups, meter>>
CommandFails(c) ==
    /\ Embeds /\ (Free(c) \/ call[c].at = "pipe")
    /\ call' = [call EXCEPT ![c] = NoCall]
    /\ UNCHANGED <<usedAs, keyspace, writes, tally, lookups, meter>>
DeleteEmbedding(c, t, text) ==
    /\ Embeds /\ Free(c)
    /\ Del({EmbeddingKey(t, text)})
    /\ call' = [call EXCEPT ![c] = [at |-> "done", answer |-> NoAnswer]]
    /\ UNCHANGED <<usedAs, writes, tally, lookups, meter>>

----------------------------------------------------------------------------
(* Redis on its own: entries end, and other versions store what they like. *)

ExpireEntry(k) ==
    /\ Present(k) /\ Del({k})
    /\ call' = ScanForgets(call, {k})
    /\ UNCHANGED <<usedAs, writes, tally, lookups, meter>>
StoreUnreadable(k) ==
    /\ Present(k) /\ keyspace[k] # Unreadable
    /\ keyspace' = [keyspace EXCEPT ![k] = Unreadable]
    /\ UNCHANGED <<usedAs, call, writes, tally, lookups, meter>>

----------------------------------------------------------------------------
(* hit_rate loads hits, misses and hits again; reset stores one counter    *)
(* after the other. Calls are counted between any two of these.            *)

ReadHits == /\ meter.at = "off"
            /\ meter' = [at |-> "misses", hits |-> 0, total |-> tally.hits]
ReadMisses == /\ meter.at = "misses"
              /\ meter' = [meter EXCEPT !.at = "again", !.total = @ + tally.misses]
\* A rate of no requests is 0.
ReadHitsAgain == /\ meter.at = "again"
                 /\ meter' = [meter EXCEPT !.at = "rate", !.hits = IF meter.total = 0 THEN 0 ELSE tally.hits]
ReportRate == meter.at = "rate" /\ meter' = MeterOff
ReadRate ==
    /\ ReadHits \/ ReadMisses \/ ReadHitsAgain \/ ReportRate
    /\ UNCHANGED <<usedAs, keyspace, call, writes, tally, lookups>>

ResetOrder == <<"hits", "misses", "sets", "invalidations", "errors">>
Reset ==
    /\ \/ meter.at = "off" /\ meter' = [MeterOff EXCEPT !.at = "reset", !.total = 1]
       \/ meter.at = "reset" /\ meter' = IF meter.total = 5 THEN MeterOff ELSE [meter EXCEPT !.total = @ + 1]
    /\ tally' = IF meter.at = "reset" THEN [tally EXCEPT ![ResetOrder[meter.total]] = 0] ELSE tally
    /\ lookups' = NotCounted
    /\ UNCHANGED <<usedAs, keyspace, call, writes>>

----------------------------------------------------------------------------
QueryCacheStep(c) ==
    \/ \E q \in Queries : \/ GetResults(c, q) \/ InvalidateResults(c, q)
                          \/ \E n \in Lengths : SetResults(c, q, n)
    \/ CountCall(c)
    \/ \E t \in CacheTenants : InvalidateTenant(c, t)
    \/ \E batch \in SUBSET DOMAIN keyspace, last \in BOOLEAN : ScanBatch(c, batch, last)
    \/ ScanFails(c)
EmbeddingCacheStep(c) ==
    \/ \E t \in CacheTenants, texts \in Batches : GetEmbeddings(c, t, texts) \/ SetEmbeddings(c, t, texts)
    \/ PipeNext(c) \/ CommandFails(c)
    \/ \E t \in CacheTenants, text \in Texts : DeleteEmbedding(c, t, text)

CacheNext ==
    \/ \E c \in CacheCallers : QueryCacheStep(c) \/ EmbeddingCacheStep(c)
    \/ \E k \in DOMAIN keyspace : ExpireEntry(k) \/ StoreUnreadable(k)
    \/ usedAs.metered /\ (ReadRate \/ Reset)
CacheSpec == CacheInit /\ [][CacheNext]_cacheVars

----------------------------------------------------------------------------
AnswerOf(c) == IF call[c].at \in {"count", "done"} THEN call[c].answer ELSE NoAnswer

\* Once invalidate_tenant returns, every result the tenant had when it was
\* called is gone, unless it was stored again since: whatever SCAN's batches
\* look like, and whoever stores, deletes and expires entries meanwhile.
TenantScanComplete ==
    \A c \in CacheCallers : call[c].at = "scanned" => call[c].since \cap DOMAIN keyspace = {}

\* A hit answers results stored for the same tenant and query, and for the same
\* user if the cache is kept per user; never more of them than max_cached_results.
HitsAnswerTheQuery ==
    \A c \in CacheCallers : Querying => \A a \in AnswerOf(c) :
        LET q == a.asked   r == a.results IN
        /\ r.query.tenant = q.tenant /\ r.query.text = q.text
        /\ usedAs.perUser => r.query.user = q.user
        /\ r.length <= r.of /\ r.length <= MaxCachedResults

\* What get_many answers for a text is the vector stored for that text by that
\* tenant, wherever in the batch it stands, with misses and repeats beside it,
\* after pipelines that broke off.
EmbeddingsMatchTexts ==
    \A c \in CacheCallers : Embeds => \A a \in AnswerOf(c) :
        \A f \in a.found : f[2] = Vector(a.tenant, f[1]) /\ f[1] \in ToSet(a.texts)

\* Every lookup is counted once, as a hit or a miss: those that Redis fails, that
\* do not parse and that find the cache off as well. (reset ends the comparison.)
EveryLookupCounted == lookups # NotCounted => tally.hits + tally.misses = lookups

\* "Calculate the hit rate as a ratio (0.0 to 1.0)."
RatesAreRatios == meter.at = "rate" => meter.hits <= meter.total

\* The shared caches answer what was stored for the request, delete a tenant
\* completely, and count every lookup.
CacheTruthful ==
    TenantScanComplete /\ HitsAnswerTheQuery /\ EmbeddingsMatchTexts /\ EveryLookupCounted
=============================================================================
