# A TLA+ model of the RAG pipeline

This directory models the services of the pipeline: what they keep, in what
order they change it, what they compute, and what is left when something fails
half way. TLC checks the models on small instances; TLAPS proves the main safety
properties for every instance.

Run `tlc -config <run>.cfg <module>` for a run (the module of each run is in
section 3) and `tlapm <Module>Proofs.tla` for the proofs. `PROJECT.json` lists
the components, the runs, which source lines each definition stands for, the
hazards, and the theorems.

## 1. The system

The repository holds a multi-tenant retrieval-augmented-generation service.

```
 frontend ── orchestrator (Python, FastAPI) ──────────┬── LLM gateway ── vLLM
                 │ circuit breakers, answer cache     │   (embed, rerank, chat)
                 │                                    │        ▲
                 │                                 retrieval ──┘  ── result cache
                 │                                    │                 │
               Redis ◄── invalidation events ──┐   Qdrant, OpenSearch   Redis
                 ▲                             │      ▲
                 └── job queue ── ingestion: API, worker pool, coordinator
                                        │             │
      video pipeline ── Qdrant      PostgreSQL    embedding service
```

All services but the orchestrator are written in Rust (`src/crates`), with
shared crates for tokens and roles, tenants, the cache client, the repositories,
the two search stores and retries.

### 1.1 Inventory

| Component | State | Operations | Hard behaviour | What makes it correct |
|---|---|---|---|---|
| Job queue (`rag-ingestion/src/worker/queue.rs`, `job.rs`) | Redis: one key per job, a sorted set per priority, `processing`, `dlq` | enqueue, dequeue, complete, fail, reclaim, replay | several Redis commands each; crashes between any two; replicas reclaim from one set | a job is in one place, is never lost, ends completed or dead |
| Worker pool (`worker/pool.rs`) | tasks with a job in hand | poll, run with a timeout, report, reclaim in worker 0 | the timeout drops a future; a panic ends the task | every job is settled |
| Job tracker and routes (`api/jobs.rs`, `routes/ingest.rs`) | per replica: job statuses, a counter; in Redis: a history | create, start, progress, complete, fail, cancel, replay | requests and workers update one job; detached tasks persist | the status shown agrees with what the queue did |
| Index coordinator (`indexing/coordinator.rs`) | Qdrant, OpenSearch, PostgreSQL | index, delete, reindex | parallel writes without a transaction, ignored errors, overlapping jobs | the stores agree once an operation was undisturbed |
| Document routes and repositories (`routes/documents.rs`, `rag-database`) | documents and chunks tables | list, sync status, delete one or many | paging while rows change, deletions that fail in one store or come before a refresh | lists are complete, "deleted" means gone where it can be |
| Reembed job (`worker/handler.rs`) | a page of documents, embedded batches | list, embed, erase, write | a batch fails, a document is deleted meanwhile | what is in a store in part is reported, and so is every loss |
| Chunking (`chunking/`) | none | six strategies and a selector | remainders, overlaps, zones, tables | chunks hold the text and keep their bounds |
| Search stores (`rag-search`, `rag-vectorstore`) | an index, a collection | create, bulk write, refresh, delete by query, search | partial bulk writes, deletions before a refresh, missing mappings | what a store reported is what it holds |
| Retrieval routes (`rag-retrieval/src/api`, `hybrid`, `query/cache.rs`) | result cache | search, multi-query, explain | components fail or hang, cached results grow old | an answer is readable by its user, and says what it lacks |
| Fusion, aggregation, reranking (`fusion`, `reranking`) | none | fuse, aggregate, deduplicate, rerank in batches | ties, scores in any order and number | ranks follow the scores |
| Access control (`acl`) | none | check, filter, convert to store filters | the same rule written many times, filters of a request under any key | one verdict |
| Query text and embedding (`query`, `embedding`, `utils.rs`, `cache/keys.rs`) | none | preprocess, expand, HyDE, embed in batches, build keys | replies in any order, batches that fail | vectors belong to their texts, keys to their queries |
| Health probes (`api/routes/health.rs`) | none | health, readiness | components hang, retries take time | the report is true and in time |
| Model servers (`rag-llm-gateway`, `rag-embedding`) | token buckets, models behind locks | embed, rerank, chat, stream, health | panics under a lock, chunks of a stream, concurrent callers | the rate is kept, a call ends |
| Video pipeline (`rag-video`) | a collection, work files | process, delete | parallel stages, crashes, deletion meanwhile | what is reported was done |
| Tokens, roles (`rag-auth`) | blocklists in Redis or memory | issue, verify, refresh, revoke; permission checks | clocks, restarts, several services | a revocation lasts, roles grant alike |
| Tenant configuration (`rag-tenant`) | a cached row | get, create, invalidate | readers between load and set | not older than the last invalidation |
| Shared caches (`rag-cache`, `cache/`) | Redis entries, counters | get, set, mset, scan and delete, statistics | others write between two commands | a hit answers its query |
| Repositories of users, usage, quotas, journals (`rag-database`) | tables | assign, use, check, page | two statements that belong together | the last call rules, no usage is lost |
| Circuit breaker (`orchestrator/resilience/circuit_breaker.py`) | state, failure count, half-open slots, a lock | call, reset | calls outlive the period they were admitted in; cancellation | a failing service is shielded, a recovered one is used again |
| Answer cache and listener (`orchestrator/cache`) | Redis: answers, an index of answers per document | get, set, invalidate | set and invalidate interleave by command; events are lost | no stale answer survives |
| Conversation sessions (`orchestrator/memory`) | Redis: a value per session, a set per user | create, add a message, clear, delete, enforce the limit | every method is several commands; two calls write back what they read | a session keeps what it was given, a deleted one stays deleted |
| Usage tracker and flusher (`orchestrator/usage`) | Redis counters, a table | record, check the quota, flush | two stores on two schedules, replicas that flush at once, failed statements | what was recorded is billed, once |
| Audit, streaming, degradation manager (orchestrator) | hash chain, event order, levels | append, emit | – | not modelled, section 6 |
| Parsers, PII, prompts, routing, secrets, storage, telemetry, frontend, deployment | – | – | – | data, I/O, presentation: section 6 |

### 1.2 How the parts interact

A route creates a job in its tracker and enqueues it. A worker of any replica
dequeues it and calls the handler, which reports to the tracker **of its own
replica**, chunks and embeds the text and has the coordinator write the three
stores. The pool then calls `complete` or `fail` on the queue. Worker 0 of each
replica periodically reclaims stale entries of `processing`. The delete routes
call the coordinator directly, so they can run at the same time as a job for
the same document. After deleting, or after enqueueing a reindex, a route
publishes an invalidation event for the orchestrator's answer cache.

A search checks the result cache, embeds the query (with expansions and HyDE,
through the embedding service), asks Qdrant and OpenSearch side by side, fuses,
checks access, reranks through the gateway and caches what it found. Whatever
fails on the way costs results, not the answer. The health probes ask the same
components.

## 2. Modules

| Module | Models | Section |
|---|---|---|
| `JobLifecycle` | what a client may rely on for one job: waiting, working, done, dead; the abstract specification of the queue | 2.1 |
| `JobQueue` | queue, pool and the routes that touch the queue, one action per Redis command; implements `JobLifecycle` (`LifecycleSpec`) | 2.1 |
| `JobTracker` | the trackers of all replicas, composed with the routes, the handler's reports, the Redis history and a queue reduced to its stages | 2.2 |
| `IndexCoordinator` | one document in three stores, with the jobs and deletions that work on it | 2.3 |
| `CircuitBreaker` | one breaker and its concurrent callers | 2.4 |
| `AnswerCache` | a tenant's answers, composed with the requests that fill the cache, the listeners, the channel and the publishing routes | 2.5 |
| `Retrieval` | the search routes over embedding, the two stores, the reranker and the result cache, under the server's timeout | 2.6 |
| `Reembed` | the reembed job over a tenant's documents, with deletions and retries of the job | 2.7 |
| `DocumentRegistry` | the document routes over the tables of documents and chunks | 2.8 |
| `SearchStores` | the vector collection and the keyword index, from creation to the record of an answer | 2.9 |
| `VideoPipeline` | the stages of a video, its points and its work files, with repeated calls, crashes and deletion | 2.10 |
| `QueryEmbedding` | expansion, HyDE, batches of texts, retries, reassembly | 2.11 |
| `LlmGateway` | rate limiter, model routes, chat streams, readiness, shutdown of the two model servers | 2.12 |
| `ServiceHealth` | the health and readiness probes of the retrieval service | 2.13 |
| `AuthTokens` | issue, verification, refresh and revocation of tokens over shared and private blocklists | 2.14 |
| `Records` | repositories of roles, keys, usage, quotas and journals | 2.15 |
| `TenantConfig` | a tenant's collection names through a cache | 2.16 |
| `SharedCache` | the Redis cache client, query results, statistics, embeddings | 2.17 |
| `UsageMeter` | the token counters in Redis, the flush jobs that move them to the table, the quota checks | 2.18 |
| `SessionMemory` | the conversation sessions of a user in Redis | 2.19 |
| `AccessControl`, `Ranking`, `Chunking`, `Permissions`, `RequestText` | what the code computes without state: five families of functions, each compared with a reference definition | 2.20 |
| `MCAlgorithms` | instances of the five pure modules; a behaviour is one input of one of them | 3 |
| `MCServices` | instances of `VideoPipeline`, `QueryEmbedding`, `LlmGateway`, `ServiceHealth` and `JobTracker`, for safety and liveness | 3 |
| `MCStores` | instances of `Reembed`, `SearchStores`, `DocumentRegistry`, `AuthTokens`, `Records`, `TenantConfig` and `SharedCache` | 3 |
| `MCOrchestrator` | instances of `AnswerCache`, `UsageMeter` and `SessionMemory` | 3 |
| `MCJobQueue`, `MCIndexCoordinator`, `MCRetrieval` | instances of the module they extend; `JobTracker` and `CircuitBreaker` are run as they are | 3 |
| `…Proofs` | theorems about the modules they extend | 5 |

`MCServices`, `MCStores` and `MCOrchestrator` put several components that share nothing
under one run. A behaviour chooses a *scene* at the start: the component of the scene
takes all the steps, the others rest in one state they start in. The states of such a
run are the union of the components' states, not their product, so nothing is lost and
nothing is gained by the company.

### 2.1 JobQueue

`data`, `queue`, `processing` and `dlq` are the Redis keys; scores are reduced
to what they decide (due or not, stale or not). `pc`, `cur`, `att`, `level` and
`batch` are the locals of the Rust tasks between two commands: the code reads a
job, changes its copy and writes the copy back, and so does the model.

| Code | Actions |
|---|---|
| `enqueue` | `EnqueueSet` (SET), `EnqueueAdd` (ZADD) |
| `dequeue` | `DequeuePop` (Lua), `DequeueFetch` (GET), `DequeueClaim` (ZADD processing), `DequeueStart` (SET running) |
| `complete` | `CompleteSet`, `CompleteExpire`, `CompleteRem` |
| `fail` | `FailSet`, `FailRem`, `FailAdd` |
| `reclaim_stuck_processing` | `ReclaimClaim` (Lua, a whole batch), `ReclaimGet` per job, then the steps of `fail` |
| `replay_dlq_job` | `ReplayGet`, `ReplayRem`, `ReplaySet`, `ReplayAdd` |
| handler returns | `HandlerReturns` |
| time | `BecomeDue`, `BecomeStale`, `Expire` |
| crash, Redis error, panic | `Fault`, `Panic` |

An entry normally becomes stale only when the worker that owns it is gone: the
defaults are a `job_timeout` of 300 s and a `processing_stale_after` of 600 s.
`SlowWorkers` lifts this, and each such overrun counts as a fault.

### 2.2 JobTracker

`status` and `count` are the map and the `AtomicU32` of each replica, `work`
and `tries` stand for the queue, `writes` for the detached tasks that persist
snapshots, `stored` for the Redis history. The counter wraps at `CounterSize`
instead of 2^32. `version` only numbers the snapshots, and `lost` marks the jobs
that succeeded without the queue recording it, after which a second run is what
the queue is for.

### 2.3 IndexCoordinator

The stores hold sets of chunks, and a set of chunks is named after the attempt
that cut it (`ChunkId::new` gives every attempt new ids; a reembed reuses the
ids it loads). `todo` holds the calls of the current phase, so the three writers
that the code joins run in any order while PostgreSQL keeps its own order. A
call may fail with or without its effect. OpenSearch has two parts, since the
code asks for no refresh: what is searchable and what is indexed since the last
refresh, which `delete_by_query` does not see. `solo` remembers the last
operation if it ran from start to end with no other at work and no failure.

The table `source_documents` has no migration in the repository; the foreign key
of `chunks` is known from comments only, so `OnDelete` covers both forms.

### 2.4 CircuitBreaker

An asyncio task runs alone between two awaits, so an action is what `call` does
between them. `timer` says whether `recovery_timeout` has passed. `probes` and
`streak` are history: the half-open calls in flight, the failures in a row.
`CancelPoints` are the awaits at which a task may be cancelled. No module of the
service routes a call through a breaker yet (the degradation manager registers
them), so the callers are arbitrary.

### 2.5 AnswerCache

One tenant's entries in Redis. `answer` and `left` are the cached answers and
what is left of their lives, `index` and `indexLeft` the sets
`doc_index:{tenant}:{document}` and theirs. An answer is known by the versions
of the documents it was built from, an event by the documents it names; a cached
answer's text, the hash of the key and the statistics are left out.

| Code | Actions |
|---|---|
| delete routes | `Delete`, then `PublishDeleted` or `PublishFails` |
| reindex route and its job | `RequestReindex`, which publishes at once; `Reindexed` |
| `cache_check_node`, `get` | `cache_check` (a hit ends there and changes nothing) |
| `retrieval_node`, `multi_retrieval_node` | `Retrieve`, once or for several sub-questions |
| `generation_node` | `Generate` |
| `cache_store_node`, `set` | `SetEx`, then `SAdd` and `Renew` per document, `Stored`; `SetFails` |
| `_connect`, `_listen_loop` | `Connect`, `Disconnect` |
| `_handle_message` | `HandleMessage` |
| `invalidate_for_document` | `NoneListed` or `ReadIndex`, `DeleteAnswers`, `DeleteIndex`; `InvalidationFails` |
| expiry | `Tick` |

`Query` and `Relevant` give each task its key and what retrieval may find. One
`Ttl` serves all answers, since only tests call `set_tenant_ttl`. A deleted
document may change again: it can be ingested anew under its id.

Three histories tell apart what the properties need. `told[d]` is the version of `d` at
the start of the last invalidation of `d` that ran to its end. `clean` holds the
requests that were not disturbed so far: by an invalidation of a document they cite, by
another request storing the same key, or by an index that expired in the one tick
between SADD and EXPIRE. `sound` holds the keys whose answer was last stored by an
undisturbed request. The code promises nothing about the others but that they expire,
and `StaleAnswersGo` is about them too.

### 2.6 Retrieval

Several handlers serve the same query, alone or as one of the sub-queries of a
multi-query request. `stage` says where a handler stands between two awaits,
`part` what the searches of its queries have so far, `found` the hits it holds,
`outcome`, `mode` and `cacheHit` what it will report; `failed` remembers what
really failed. `cached` is Redis, `readers` the access list of each chunk, which
may change while an answer is made or cached.

| Code | Actions |
|---|---|
| entry of `retrieve`, `retrieve_multi`, `explain` | `Arrive` |
| cache check | `AnswerFromCache`, `MissCache` |
| embedding of a query | `Embed`, `EmbedFails` |
| the legs `HybridSearcher` joins | `SearchStore`, `SearchFails`, then `Gather`, which fuses and applies the fallbacks |
| reranking, storing | `Rerank`, `RerankFails`, `Store` |
| the server's timeout layer | `TimeOut`, which drops the handler wherever it is |

Scores are left to `Ranking`: a store, the threshold and the reranker keep any
of the hits. Which hits a user may see is the set of readers; how a store finds
them is `AccessControl`.

### 2.7 Reembed

The rows of a tenant by age with their chunks, the vectors that Qdrant holds of a
document and the chunks that OpenSearch has postings of, the page the job lists
next, what is left of the documents that were asked for, the embeddings it holds
and the documents it has reported an error for. `ListScope`, `Load`,
`EmbedBatch`, `Erase`, `Write` and `Mark` follow the loop in `process_reembed`;
`ListFails`, `NotLoaded` and `BatchFails` are its error paths; `Retry` is the
queue, which runs a failed job again from the start. `DeleteDocument` is the API,
at any moment.

`Erase` is `delete_document` of the coordinator, whose outcome the reindex drops:
Qdrant deletes in one request, a deletion by query may leave any of the postings
(`EraseFrom`), PostgreSQL deletes the chunks and then the row. `Write` joins the
three writers, each of which may fail alone and may have done its work when it
does: `WriteToQdrant` is one upsert, `WriteToOpenSearch` a bulk any part of which
may be taken, `WriteToDatabase` a row and then its chunks in one transaction. A row
that is still there is an error of the database that no call has to fail for. An
access list is known by which of its columns hold a value, since the job rebuilds
it column by column.

### 2.8 DocumentRegistry

Rows and chunks, clients of the delete routes and one reader of pages. A page
is two statements (`CountPage`, `ListPage`), and rows may come between them. A
deletion is a lookup (`FindRow`), the coordinator (`DeleteEverywhere`), the
database (`DeleteFromDatabase`) and the event (`AnnounceDeleted`), appended to
`published`; a batch loops over them and reports per document, and an empty one is
answered without an event. Whether a deletion is hard depends on the route and the
schema, which the crates do not own. `CreateRow` and `IndexRow` are the worker.
`IndexRow` has three writers, each of which may fail; that of PostgreSQL inserts the
chunks as `create_many` does, in batches of 5461 rows with 13 bound columns each,
against the limit of 65 535 parameters that PostgreSQL puts on a statement.

The stores are sets of document ids: `inQdrant`, `inIndex`, and of the latter
`recent`, which no refresh has shown (`RefreshIndex` is OpenSearch's own). A deletion
by query answers yes for a recent document and leaves it: `overlooked` is the
history of that, and `DeletedIsGone` excuses exactly these postings.

### 2.9 SearchStores

The collection and the index with their mappings (`CreateIndex`, `CreateCollection`,
`DropIndex`), bulk writes, some of whose items may be refused, upserts, deletions by
query and by filter, and `Search` by one or several queries up to the record that an
answer shows. `entries` is what the index holds, `visible` what a query meets: the
entries at the last `Refresh`, which only OpenSearch itself makes; `unseen` is what was
written since. A deletion by query takes what is visible and has not been written again
(else it is a version conflict), reports success and leaves the unseen chunks of the
document, which `missed` keeps. An index that the first write created, instead of
`create_documents_index`, has dynamic mappings: the name of a field decides whether a
term query can find anything. Scores are small integers, normalised in units of
`1/ScoreUnit` as the code normalises them.

### 2.10 VideoPipeline

`step` is the await `process` stands at; where it joins two stages, `replies`
holds the one that has answered. `stages`, `frames`, `track`, `chunks` and
`vectors` are the fields of the result, `points` the collection, `files` the work
directory. `Process` may be called again for a video, `VideoCrash` ends a call
anywhere, and a deletion is a count and a delete (`CountPoints`,
`DeletePoints`) at any moment. The boundaries of the chunks are computed as in
the code, from the duration of the video alone; the text of a chunk is the set of
the transcript segments that overlap it.

### 2.11 QueryEmbedding

A text is a sequence of words and the vector of a text is that text, so that a
vector that ends in the wrong place shows. The retrieval client sends batches in
parallel (`Ask`, `StartEmbedding`, `CallEnds`, `CallAgain`), the ingestion client one
after the other (`EmbedDocument`, `CallNext`); the service answers a batch in any
order of its indices, refuses blank texts, or fails. `LlmExpands` and
`HydeWrites` are the two uses of the LLM that precede, `Gather` averages. A query
of blanks passes the validation, and its texts are those of its expansion alone.
What the code collects with filters, sets and loops is one recursive function,
`Joined`, over parts that are empty where nothing is kept.

### 2.12 LlmGateway

`bucket` is the token bucket, in units of a fraction of a token so that a tick
refills a whole number of them; `admitted` is the history of what it let through
and `promised` the time a refused caller was told to wait for. `Arrive` makes a
request and passes the limiter, `CheckInput`, `RunModel`, `Chat` and
`OpenStream` are the routes, `Probe` and `Health` the probes, `Terminate` the
shutdown. `NextChunk` delivers what the network made of a stream, cut anywhere,
and the code reads the lines of each piece on its own. A model whose lock a
panic has poisoned answers every later call with an error. In the configuration
the service ships with every path is a skipped one, so all callers share the
anonymous bucket.

### 2.13 ServiceHealth

One probe at a time asks all parts at once. A part is up, down or hangs; each
call has the timeout its client was built with, or none, the reranker retries,
and the server cuts the whole request. `quiet` and `hung` are history: whether
anything changed during the probe, and whether anything kept it waiting.

### 2.14 AuthTokens

Handlers of several services with a common key, whose blocklists are shared,
private or absent (`Layouts`). An entry lives as long as the code computes from
the token's expiry; a shared list is in Redis, which may be away, a private one
is lost in a `Restart`. `RefreshStart` and `RefreshFinish` are the two halves of
a refresh around its await. `revoked` is the history of what callers were told.

### 2.15 Records

A behaviour is about one family of tables: links of users to roles or groups (`Assign`,
`Unassign`, `Retire`), API keys (`CreateKey`, `UseKey`, `DeleteKey`), usage, one row for
each date, and quotas (`UpsertUsage`, and a check in two or three statements:
`StartCheck`, `CreateQuota`, `SumUp`), journals read page by page (`BuildEntry`,
`OpenPage`, `ReadPage`). A check compares with the quota it has read. At its end it
records whether the usage of its beginning was over that quota (`before`), whether the
usage of now is over the quota of now (`after`), and whether the quota of now is laxer
than the one it read (`raised`). `log` is the history of the calls, against which the
tables are compared. What depends on the schema, which the crates do not own, is chosen
at the start of a behaviour.

### 2.16 TenantConfig

`versions` holds the rows a tenant has had, `cached` the entry with the version
it was read from, `lookup` the calls between their load and their set. `floor` is
what an answer may not be older than. The cache is in Redis, with a TTL and
outages, or in the process, without either.

### 2.17 SharedCache

`keyspace` is Redis, and a call that needs several commands takes several steps:
`ScanBatch` of a tenant scan, `PipeNext` of a batch write, `CountCall` of the
statistics after a lookup, `ReadRate` of a reader who loads two counters.
`StoreUnreadable` is an entry of an older format.

### 2.18 UsageMeter

A key is one model of the tenant on one day; its tokens are one sum. `counter`
and `present` are the Redis hashes, `billed` is `token_usage`, `query` the
queries with their quota check (`CheckQuota`, `CountKey` per key that SCAN finds,
`Decide`) and their record at the end (`RecordPrompt`, `RecordCompletion`).

| Code | Actions |
|---|---|
| `flush`: SCAN | `StartFlush` |
| `HGETALL` of a key | `ReadKey`, `ReadFails` |
| the upsert of its row | `AddToRow`, which waits for the lock of a row that another flush has written; `RowFails` |
| `COMMIT` | `CommitFlush` |
| `DEL` of a key | `DeleteCounter`, `DropFails` |
| a flush that stops, a counter that expires | `FlushStops`, `ExpireKey` |

A statement that fails dooms the transaction in PostgreSQL: the flush logs it, goes on,
deletes what it wrote before, and its `COMMIT` is a rollback. `lossy` and `doubled` are
the histories that name the keys of which tokens may be lost (recorded between HGETALL
and DEL, expired, or in a doomed flush) or billed twice (two flushes, or a flush that
stopped before DEL). The properties say that nothing else loses or doubles.

### 2.19 SessionMemory

`session` holds the values of one user's sessions and `owned` the user's set,
`visit` what each call has read. `create_session` is SETEX, SADD, SMEMBERS, a GET
per member, then the deletion of what is over the limit (`CreateSession`,
`AddToUser`, `ListSessions`, `ReadListed`, `EnforceLimit`, `DropSession`,
`RemoveFromUser`); the other methods read a session and write it back
(`ReadSession`, `AddMessage`, `ClearSession`) or delete it (`DeleteSession`).
Keys expire (`ExpireSession`, `ExpireUserSet`), calls stop halfway (`CallStops`).

The store's docstring calls its operations atomic; a read and the write that
follows are two commands, so a message can be overwritten and a deleted session
written back. `contested` names the sessions to which that has happened, and the
properties are about all others. `add_message` has no route yet; the callers
are arbitrary.

### 2.20 The pure modules

- **AccessControl.** One value of `access` is a user, a document and the
  conditions of a request. The rule is written many times in the code: the check
  on a document (twice) and on a list, the filter of `build_filter` with its two
  builders, the filters the searchers really send, and the checks of the routes on
  the results. Each is an operator, the stores' reading of a filter is external, and
  the properties say how they agree, and where they do not. The filters of a request
  may name any key (`Custom`): a custom condition is a further condition for Qdrant,
  and for the keyword search takes the place of what stood under its key, the tenant
  under `tenant_id.keyword` included. What a term query finds in the keyword store
  (`Terms`) depends on the analyser, a constant (`Analysed`), and on the exact
  subfields; a key of neither store finds nothing. It is assumed that the metadata of
  a document, which Qdrant's payload has at the top level, does not reuse the names of
  the fields beside it.
- **Ranking.** Fusion by reciprocal ranks, linear and by distribution,
  aggregation over queries, reranking in batches; after the fusion the cut to
  `top_k`, the threshold, which only a `min_score` above 0 sets, and the
  deduplication by document, which the configuration may switch off; and the searches
  in a single mode, which have neither (`SingleList`). Scores are
  brought to a common denominator (`RrfUnit`, `AvgUnit`, the spreads of the two lists);
  only z-scores, which take a root, are rounded down, to whole multiples of `1 / ZUnit`.
  Ties come in every order the hash maps allow.
- **Chunking.** The recursive splitter and its overlap, the semantic, question
  and answer, tabular, mixed and hierarchical strategies and the selector. A text
  is a sequence of tokens with the rank of the separator behind each, or of kinds
  of lines; a piece is the sequence of its positions, so that loss, repetition and
  order can be told. A character may take several tokens (`Torn`): a piece that is
  cut through one cannot be decoded and comes to nothing, as
  `decode(..).unwrap_or_default()` has it. A parsed document is a sequence of blocks,
  and its mixed zones are made of these (`DocumentZones`), those of a plain text of its
  lines. The module uses RECURSIVE operators and is not proved about.
- **Permissions.** Roles with the spellings their parsers accept, grants,
  levels, and the checks on claims, on resources and in the middleware.
- **RequestText.** Normalisation and classification of a query, the keys built
  from it and read back, and the two checks of a request's filters. The search routes
  ask the stores for the text as it came; only the key is normalised, and no route runs
  the preprocessor. A text is a
  sequence of units (blank, letters, marks), measured in bytes; a key is the sequence
  of its parts between the colons.

## 3. Runs

| Run (module) | Question | Bounds | Distinct states |
|---|---|---|---|
| `JobQueueTimely` (`MCJobQueue`) | is custody single, and does the queue implement its life cycle? | 2 jobs of different priority, 2 workers that both reclaim, 1 client, 2 faults anywhere, panics, 1 replay, 2 attempts | 586 060 |
| `JobQueueFaults` (`MCJobQueue`) | no job lost, every job settles | 2 jobs, 2 workers, 1 fault: a crash during the handler, or a worker that overruns so that a job runs twice | 127 450 |
| `JobQueueReclaimCrash` (`MCJobQueue`) | are jobs recovered after a crash at any point? **violated** | 1 crash in a reclaim pass | – |
| `TrackerInterplay` (`JobTracker`) | is a reported success final? | 2 replicas, history with 3 snapshots, cancel, replay, timeout, 1 fault | 852 000 |
| `IndexRepair` (`MCIndexCoordinator`) | does an undisturbed operation repair the stores? | 3 of an ingestion, 2 reindex attempts, a reembed, 2 deletions; 2 at once; 1 failure | 1 375 658 |
| `BreakerRecovery` (`CircuitBreaker`) | shielding, recovery, every call answered | 3 calls, threshold 2 | 1 532 |
| `Orchestrator` (`MCOrchestrator`) | are stored answers found by later invalidations, and do stale ones go? is usage billed as recorded, do sessions keep what they were given? | 1 document, 1 key, 2 tasks, 1 listener, time to live 2, 1 change, 1 fault; usage and sessions see below | 603 117 |
| `Retrieval` (`MCRetrieval`) | is an answer authorised in time, does it report what failed, does every request end? | 1 chunk, 1 reader, 2 handlers, all three routes, server timeout 1, cache TTL 2, 1 ACL change, 2 outages | 444 662 |
| `Algorithms` (`MCAlgorithms`) | do the pure functions agree with their reference definitions? | see below | 730 812 |
| `FilterDropped` (`MCAlgorithms`) | is every filter of a request honoured? **violated** | access checks of one user | – |
| `Services` (`MCServices`) | video, embedding, gateway, probes, tracker without faults: safety, and does every task end? | see below | 142 572 |
| `Stores` (`MCStores`) | reembed, search stores, registry, tokens, records, tenants, caches: safety | see below | 918 582 |

`Algorithms` enumerates 2 users, groups and tenants with every access list over them; up
to 2 conditions of a request over the three named keys, `visibility`, `tenant_id`,
`tenant_id.keyword` and `allowed_groups.keyword`, where one group's name is a term of
the other's; lists of at most 2 of 3 chunks with scores in {1, 3} and every order of
ties; up to 3 reranked results in batches of 2; texts of up to 4 tokens with 2
separators and of up to 6 lines in 9 families of kinds of lines, with and without
blocks, chunk sizes 0, 2, 3, 5 with overlaps 0 to 2; 2 subjects with the roles and
claims of `MCClaims`; and query texts of up to 4 units. Sizes 0 and an overlap that is
as large as the chunk are in, because the configuration lets them through.

`Services` has 3 videos (with speech, without audio, of length 0) with 2 calls
each, batches of 3 and 2; queries of up to three words with up to two synonyms,
one HyDE document, batches of 2 and 1 retry; 2 callers of the gateway with limits
0 and 1, a burst of 3/2, a window of 3 ticks and 6 ticks in all, and streams of 2 events cut
anywhere; probes with 2 changes, timeouts of 2 (Qdrant), 1 (embedding service),
6 (reranker) and none (OpenSearch), against the server's 6, in the proportions of
the defaults; and the tracker with 1 replica, 2 jobs and 3 retries.

In `Orchestrator` the usage scene has 2 keys, 2 flush jobs and 2 queries, of which 3 run
(2 where there is no limit), with 0 or 1 token of each kind, a limit of 1 and one
failure, crash or expiry (queries and flush jobs are alike, so the first goes first:
`FirstGoesFirst`); the session scene 3 sessions, one of them old, 2 calls, a limit of
one session and of 2 messages, and one fault.

`Stores` has reembed jobs over 3 documents of 3, 2 and 1 chunks, 2 documents in the
scope, with pages and batches of 2, 1 deletion, 2 errors and 2 attempts; 3 chunks of 2
documents in the stores with 2 queries, of which 2 reports are kept in mind at a time
(`MaxReports`), and a search after at most one of them; 3 documents, one of which a
store may have refused (`MaxLost`), in the registry, asked for by their tenant and by
another; 4 tokens of 2 handlers, which share one blocklist or of which one has a list of
its own and the other none, with the clock at most at 3; 3 calls on each family of
records, over dates at the end of a year; 1 tenant with 3 forms of a row and 2 lookups;
2 callers of the caches for 2 tenants, with 2 commands that write, or 1 where the
counters are read as well (`MeteredWrites`).

Why the bounds are enough to be of interest. Two jobs and two workers are needed
for a batch of a reclaim pass to be cut in half and for two tasks to compete for
one job; two attempts are the smallest number with a retry and an exhaustion;
two faults allow a crash during the recovery from a crash. In the coordinator
two operations at once produce every pairwise overlap, and the third comes
afterwards, which is the one that repairs. The breaker needs one call that was
admitted while closed, one probe and one rejected call. The cache needs two
tasks that store under one index, one of them while the other's entry ages, and
a time to live of two ticks, so that an index can expire before an answer. With
one change there is still every order of the change, its event, the retrieval
and each command of the store. In `Retrieval` two handlers let one answer come
from what the other has cached before the access list changed, and two outages
are what a hybrid search cannot survive. Every batch size is below the number of
items, so that there is a full and a partial batch; every page is shorter than
the list; every clock runs past the longest life that the module gives an entry;
two callers are enough for each read that another write may overtake. Where the
question does not depend on the size, the theorems of section 5 remove the
bound.

Runs disable the deadlock check because the systems may stop for lack of
requests, of jobs, or of the bounded faults, and an input of a pure module has
no successor; `Retrieval` has it enabled.

Type invariants are proved where a module has a proof module; a run checks what
could be wrong.

### 3.1 Fairness

- `JobQueue`: weak fairness of each task's next command (tokio schedules tasks;
  a handler returns because `job_timeout` drops it), of a backoff and a
  staleness period passing; strong fairness of a reclaim pass, because worker 0
  starts one at the first poll after each interval, and is between jobs again
  and again. Faults, submissions and replays are not fair.
- `CircuitBreaker`: weak fairness of a call's start and of the end of the
  protected function and of the fallback, strong fairness of getting the lock
  (`asyncio.Lock` serves waiters in order), weak fairness of time. The service's
  recovery is not fair; the property speaks of what follows it.
- `AnswerCache`: weak fairness of time and of a request's next command from
  generation on. The listener, the channel and the routes are not fair:
  nothing starts the listener, and events may be lost.
- `Retrieval`: weak fairness of the clock and of the server's timeout for each
  request, nothing else: no component is assumed to answer, and every request
  ends all the same.
- `Services`, one weak fairness per task: the next stage of a video (ffmpeg and
  the services answer or fail; that ffmpeg ends is an assumption, since the code
  gives it no timeout), the next answer to the embedding client or its timeout, the next
  step of each gateway call (both gateway and clients have timeouts), the next
  answer or timeout of a probe, and the next step of some job of the tracker. Requests,
  crashes, deletions, outages, changes and the shutdown are not fair.

## 4. What the runs show

### 4.1 What holds

**Jobs and documents.**

- The queue implements the life cycle: whatever crashes between two commands, a
  completed job is not run again and only a dead one is replayed. With a worker
  that overruns, a job runs twice at once, yet no job is lost and all settle.
- A success shown by any replica or by the history is final, unless the queue
  never recorded it. Without faults and timeouts a settled job is reported as
  such (`SettledJobsReported`).
- One undisturbed operation brings the stores back into agreement, although
  deletions ignore their results.
- `NoPartialDocument`: whatever call fails, and however much of a bulk is taken, a
  reembed leaves a document in Qdrant whole or not at all, and in OpenSearch too, unless
  the tracker has an error of it or the API deleted it: a posting that was left out, or
  left over, is always one somebody was told of. `JobAccounts`: a document that a
  completed job has lost is one it reported (`ErrorsReported`), and the pages cover the
  scope when nothing is deleted while they are listed (`ScopeCovered`).
- `RegistryTruthful`: paging covers a list that does not change
  (`PagesCoverAll`), the sync summary counts each document once
  (`StatusReportTrue`), a batch answers for every id it was given and its event
  names those it deleted (`BatchAccountsForAll`), and "deleted" means gone from the
  tables and, after a hard deletion, from the stores, but for postings that no refresh
  had shown (`DeletedIsGone`).
- `ChunkingFaithful`: the text is in the chunks (`ChunksHoldText`): in order with the
  overlap asked for, but for pieces that a cut by tokens through a character has made
  undecodable (`ChunksCoverText`); each line, or each block of a parsed document, is in
  one zone (`ZonesPartitionLines`); prose is lost to two strategies, and to the
  parser, only, which the property names (`ProseLostOnlyToPattern`); the chunks of a
  table cover its rows once (`TableRowsOnce`). Chunking ends, even with a size of 0 or
  an overlap above the size, but for the code zones of section 4.3 (`ChunkingEnds`),
  sizes are bounded (`ChunkSizesBounded`), the spans begin where the text does
  (`SpansBeginInText`), answers stay with their questions
  (`AnswersFollowQuestions`).
- `StoresTruthful`: what a store reported is what it holds, but for chunks that no
  refresh had shown when they were to be deleted, and for an index without its
  mappings (`ReportsTrue`), several queries keep the best chunks
  (`AggregationKeepsBest`), an answer shows the chunk that was stored, whichever store
  found it (`AnswersNameTheirSource`).

**Answers.**

- `StaleAnswerBounded`: an answer, cached or not, was readable by its user at
  most the time of a request and the time to live of the cache ago.
  `FailuresDegrade`: one failing component does not fail a hybrid search
  (`OneFailureTolerated`), and an answer that was computed names what degraded
  it (`DegradationReported`). `EveryRequestEnds` within the server's timeout.
- `OneRule`: the two copies of the check and the list filter agree (`ChecksAgree`), and
  so do the checks of the routes where the tenant and the configuration decide nothing
  and, for `explain`'s, the owner and the lists do not either (`RoutesAgree`); the
  filter meant for the stores loses nothing that the check grants
  (`PrefilterComplete`) and passes nothing else but private documents that are shared
  with a group of the reader (`PrefilterTight`); its two builders are read alike
  (`BuildersAgree`).
- `AnswersAuthorised`: whatever its filters, an answer holds only what its user may
  read, and only documents of his tenant unless a filter names `tenant_id.keyword`.
  `KeywordWithinSemantic`: the filters of a request do not let the keyword search
  return what they keep from the semantic search, unless the keyword store reads one of
  them otherwise (`ReadAlike`).
- `RankingRespectsScores`: fusion does not overrule both of its lists
  (`FusionRespectsAgreement`), a hybrid answer keeps each document that passed the
  threshold and, if it deduplicates, names it once and by its best chunk
  (`OneBestChunkPerDocument`), answers of every mode have the better scores first
  (`BetterFirst`), an average lies among the scores it was made of
  (`AggregateWithinScores`), each reranked result carries its own score
  (`RerankTruthful`).
- `EmbeddingFaithful`: the query as asked is among the texts searched
  (`QueryIsSearched`), vectors belong to their texts (`VectorsMatchTexts`), an
  embedding fails only for a batch that failed for good (`FailureHasCause`).
- `RequestsReadAlike`: queries share a key only if they have the same words in the same
  order but for case (`KeyKeepsMeaning`), equal keys may share an answer
  (`BuiltKeysSeparate`), keys are read back as written (`KeysReadBack`), preprocessing
  again changes nothing (`PreprocessedOnce`), the class of a query does not depend on
  case or spacing (`ClassOfMeaning`), the two checks of simple filters agree
  (`SimpleFiltersTaken`), a multi-query request takes no query that would be refused
  alone (`MultiWithinSingle`).
- `CacheTruthful`: a tenant's invalidation leaves nothing of before
  (`TenantScanComplete`), a hit answers its query (`HitsAnswerTheQuery`),
  embeddings belong to their texts (`EmbeddingsMatchTexts`), each lookup is
  counted once (`EveryLookupCounted`).
- An answer of the orchestrator that was stored without an invalidation in
  between stays listed under all its documents as long as it lives, although the
  index has its own expiry and other requests fail halfway; so it is never older
  than what the last full invalidation knew. Any stale answer, however it came
  about, goes for good after the last change.
- `SessionsTruthful`: a session holds the last messages it was given and counts
  them all (`MessagesKept`), a deleted one stays deleted (`DeletedIsForgotten`),
  and a user has at most the configured number, however creations overlap
  (`SessionsLimited`); but for what two calls that overlap on one session, faults
  and expiry explain.

**Services.**

- The breaker shields a failing service across its periods and closes for good
  once the service has recovered.
- `RateBounded`: in no stretch of time does the limiter admit more than the
  burst and the refill. `RetryAfterSuffices`. `GatewayTruthful`: an event
  of a stream is lost only where a network chunk cuts it or an earlier event
  shares its chunk (`OnlyTornOrCrowdedLost`), and a gateway that says it is ready
  serves what it promises (`PromisedRoutesServed`).
- `ProbesTruthful`: without a change during it a probe tells the truth
  (`AnswersAreTrue`), and it runs into the server's timeout only if something kept
  it waiting (`OnlyTheSlowTimeOut`).
- `CallsAccounted`: stages in order (`StagesInOrder`), success means every chunk
  is indexed and all speech is in a chunk (`SuccessIsIndexed`), chunks cover the
  video (`ChunksCoverVideo`), leftover files are explained
  (`LeftoversExplained`). `DeletedStayDeleted`: no call that started after a
  deletion finds older points.
- `EveryTaskEnds`: `VideoEnds`, `EmbeddingEnds`, `CallsEnd`, `ProbesEnd`,
  `EveryJobReported`.
- `GrantsAgree`: the two readings of the claims agree (`EffectiveIsChecked`), a
  role the layer lets through may do what the route's role may
  (`RoleCarriesGrants`), more claims reach no less (`MoreClaimsReachMore`).
- `RevocationHolds`: an entry lasts as long as its token (`EntriesLastAsTokens`),
  and what was revoked is refused by all that share the list (`RevokedStaysOut`).
- `RecordsTruthful`: the last call on an assignment rules
  (`LastAssignmentRules`), the lookup by prefix is among the keys that no call deleted,
  so that a lone one is found (`LoneKeyFound`), usage is in the sum of its month
  (`NoUsageLost`), "over quota" is right when it is said, unless the quota was raised
  after it was read, and a tenant who was over it when the check began is told so
  (`VerdictsTimely`), a
  default never replaces a quota (`QuotaKept`), pages of a growing journal miss
  nothing (`PagesMissNothing`).
- `UsageTruthful`: the table and the counters together hold what was recorded
  (`UsageCounted`) and a quota check sees it (`ChecksSeeAll`), but for a record
  between a flush's HGETALL and DEL, an expired counter, a flush that goes on
  past a failed statement, and two flushes at once.
- `ConfigsCurrent`: a cached configuration is no older than the TTL and one
  load (`StaleConfigBounded`), and an invalidation holds but for loads under way: the
  answer is what a row of the tenant says that is no older (`InvalidationHolds`).

### 4.2 Where code and claims differ

1. `JobQueueReclaimCrash` / `RunningJobsRecovered`. "This recovers jobs after
   worker crashes" (`queue.rs:252-255`). The reclaim script takes a whole batch
   out of `processing` before any job of it is put elsewhere; after a crash in
   the loop the rest of the batch is in no set. The same gap is in `dequeue`
   (pop before ZADD) and in `fail` (ZREM before ZADD).
2. `FilterDropped` / `RequestFilterHonoured`. "All conditions must match (AND)"
   (`acl/types.rs:71`, again `:91`). `parse_filters` makes one condition of an
   array of source types or document ids; `convert_to_semantic_filters` and
   `convert_to_keyword_filters` read these keys as a single value only, so the
   condition is dropped and the answer holds other documents as well.

Further disagreements are stated in the modules. Each is reproduced by a
configuration like that of the run it comes closest to, with the property as its
only invariant and the constants changed as the table says:

| Property | Module | Instance | Claim | What the code does |
|---|---|---|---|---|
| `ActiveCountExact` | `JobTracker` | as in `TrackerInterplay` | "Get the count of active jobs" (`jobs.rs:499`) | each failed attempt decrements, the retry does not increment, and the u32 wraps below zero |
| `SettledJobsReported` | `JobTracker` | `Services` with `Timeouts = TRUE` | "so the status API reflects the error instead of staying stuck" (`handler.rs:1083-1084`) | a timeout drops the handler before it reports, and the job stays in progress |
| `CompletedMeansSynced` | `IndexCoordinator` | as in `IndexRepair` | "considered synced to all stores" (`documents.rs:194-197`) | PostgreSQL's writer sets the status whatever the other two returned |
| `RejectsOnlyWhileProbing` | `CircuitBreaker` | `BreakerRecovery` with "calling" in `CancelPoints` | "resuming normal operation on successful recovery" (`circuit_breaker.py:7`) | a cancelled probe keeps its slot; with all gone the half-open circuit rejects for ever |
| `StreamComplete` | `LlmGateway` | as in `Services` | the streaming section of `docs/llm-gateway/README.md` | events cut by a network chunk, and all but the first of a chunk, are dropped |
| `InsertFits` | `DocumentRegistry` | `Stores` with 5042 in `ChunkCounts` | the batch is sized for 12 columns (`chunk_repository.rs:69-72`) | 13 are bound: 5461 rows need 70 993 parameters, the limit is 65 535 |
| `KeywordSearchFinds` | `SearchStores` | as in `Stores` | the index of `scripts/init-opensearch-index.py`, mapped as in `client.rs:110` | the term query asks `tenant_id.keyword` (`models.rs:77-81`), which explicit mappings do not have: nothing is found |
| `ReembedKeepsAcl` | `Reembed` | as in `Stores` | "Build ACL from the existing database record's fields" (`handler.rs`) | the columns it leaves out are lost from the stores |
| `DegradedAnswerMarked` | `Retrieval` | as in `Retrieval` | a degraded answer says so (`degradation.rs:21`, `:89`) | a degraded answer is cached, and the hit is reported as full |
| `RatesAreRatios` | `SharedCache` | as in `Stores` | `hit_rate` is a ratio | hits are read twice, with misses in between, while lookups and `reset` change both |
| `MaxTokensRespected` | `Chunking` | as in `Algorithms` | `max_tokens` bounds a chunk (`base.rs:15`, `recursive.rs:324`) | the overlap, or a piece below the minimum size, is put before a chunk that is already full |

### 4.3 Known limits of the code, read but not made into runs

Jobs and documents:

- A cancelled job still runs: no worker looks at the cancellation token, and its
  completion overwrites the status.
- A job's status is known to the replica that accepted it and to the one that
  runs it; with two replicas a status request may reach one that does not know
  the job, or knows an older status. History writes are unordered.
- Worker 0 is not respawned after a panic; its replica then reclaims nothing. A
  steady flow of urgent jobs starves lower levels.
- Two overlapping reindex jobs leave chunks of both in the vector store; a
  deletion overlapping a reindex may be undone by it; a soft delete leaves
  vectors and keyword entries; a retried ingestion job takes a new document id.
- A reembed whose chunk insert fails has deleted the text it was to write back,
  and the document is then marked completed.
- A deletion, alone or of a reindex, misses the postings that OpenSearch has not
  refreshed, and says yes; the vectors and the rows are gone.
- The worker that dies between the pop and the ZADD of `dequeue` leaves the job in no
  set (`queue.rs:183`). The passing runs exclude crashes at that point
  (`FaultPoints`), the proofs name the points they allow; the same class of loss is
  finding 1.
- A job that asks for chunks of at most 101 tokens gives a code zone a target of 0
  tokens, and `split_by_tokens` does not advance then. A token cut through a character is
  dropped with its whole piece.
- `document_to_response` strips a leading number and dash from any file name.
- The Rust repositories expect tables and default values of ids that the
  orchestrator's migrations do not create; `tenants.max_storage_bytes` is read
  as i64 from an int4 column.

Search:

- The semantic prefilter never returns a private document to its owner or its
  allowed users; only the keyword search does. Results without visibility count
  as tenant-visible, although the configured default (unused) is private.
- `build_filter` (not the filter that the searchers send) passes a private document
  that is shared with a group of the reader, and `can_access` refuses it.
- A custom filter on `tenant_id.keyword` takes the place of the keyword search's own
  tenant condition, while the doc of `parse_filters` has the tenant excluded from the
  filters (`search.rs:232`); the check on the results does not look at the tenant. A
  filter on `source_type` finds nothing in the keyword store, and neither store has a
  field `status`, which `build_filter` requires.
- A hit of the cache may answer a query that differs in case and blanks: the key
  collapses both, and the query is embedded and searched for as it came.
- Nothing calls the retrieval cache's invalidation, `EmbeddingCache` or
  `TenantConfigService` outside their crates, nor `QueryPreprocessor` in the
  search route, nor `validate_cascade`; `PipelineConfig`, `SearchOptions`,
  `FusionConfig.deduplicate`, fuzziness, field boosts and the size of highlights
  have no effect.
- Limits on query length are documented in characters and counted in bytes; a
  query of blanks passes validation; a question is known by its first word only;
  the filters of a multi-query request are checked by `parse_filters` alone.
- `expand` and HyDE are documented to return LLM errors and swallow them;
  `from_query_key` yields no key of the query cache. A batch size of 0 for the
  embedding client panics.
- `explain` derives the user from the request in another way than `search`.

Services:

- `is_over_quota` compares with the quota it read before: a limit that is raised
  meanwhile does not count. An isolation mode spelled "Dedicated" is dedicated for
  `rag-tenant` (`config.rs:38-44`) and not for `rag-database` (`models/user.rs:41`,
  `:52`), which then derive different collection names; no migration constrains it.
- A call of the circuit breaker that is cancelled in the protected function keeps its
  half-open slot (section 4.2); `BreakerRecovery` leaves this out of `CancelPoints`.
- One hanging component makes `/health` of the retrieval service a 408 instead
  of the documented "degraded" (`health.rs:36`): a reranker call may take as long
  as the server allows, and the transport to OpenSearch has no timeout. Without
  the embedding service readiness is refused.
- The gateway is ready only if all enabled capabilities are, against its doc
  (`health.rs:187-190`), and healthy while a poisoned model answers 500. It
  ignores `max_batch_size` and takes the blank texts that the embedding service
  refuses.
- `executor.rs:66` documents an error for a failed stage; the call returns `Ok`
  with `success` false.
- `refresh_tokens` drops email and name. "SuperAdmin" in that spelling has the
  permissions but not `has_super_admin`; a tenant administrator is an
  administrator for `is_admin` but not for `check_resource_access`.
- Nothing in the orchestrator starts the invalidation listener, and the reindex
  event is published when the job is enqueued, before the content changes. An
  answer built between the two is stale until it expires.
- An invalidation between SETEX and SADD, or between SMEMBERS and the DELETE of
  the index, leaves a live answer that no index lists. Answers without
  documents (the strategy without retrieval) are listed nowhere.
- `set_tenant_ttl` to a smaller value would let EXPIRE shorten an index below
  the life of the answers in it.
- `cache_store` runs before `verification`: what verification adds to a weak
  answer is missing from the cached one. An answer from degraded retrieval is
  cached too and shown with `context_quality` "full".

## 5. Proofs

Every theorem is about a specification or a set of inputs with arbitrary
constants. `Proofs` modules join the components that a reader would look for
together.

| Theorem | Statement |
|---|---|
| `JobQueueProofs!InvHolds`, `TypeCorrect`, `CustodyIsSingle`, `RunsAreBounded`, `DeadLettersAreExhausted`, `ImplementsLifecycle` | if workers do not overrun, for any jobs, workers, clients, levels, retries and faults: type correctness, `SingleCustody`, `RunsBounded`, `DeadLettersExhausted`, and that the queue implements `JobLifecycle` |
| `JobQueueProofs!NoJobIsLost` | if workers do not overrun and crashes hit a task only while it runs a handler or completes a job: `NoJobLost` |
| `JobTrackerProofs!TrackerTypes`, `SuccessIsFinalHolds` | for any replicas, jobs, retries, cancels, replays, timeouts, crashes and snapshots: type correctness and `SuccessIsFinal` |
| `JobTrackerProofs!SettledJobsAreReported` | one replica, without timeouts, replays and faults: `SettledJobsReported` |
| `IndexCoordinatorProofs!InvHolds`, `TypeCorrect`, `UndisturbedRepairs` | for any operations, failures, either foreign key: type correctness and `Repaired` |
| `IndexCoordinatorProofs!RegistryInductive`, `RegistryIsTruthful` | for any documents, clients, requests, page sizes and failures, either schema: `RegistryTruthful`, which names the postings that a deletion by query misses |
| `OrchestratorProofs!InvHolds`, `TypeCorrect`, `IndexFinds`, `InvalidationEffective` | answer cache, for any documents, keys, requests, listeners, time to live, changes and failures: type correctness, `Reachable` and `NotOlderThanTold` |
| `OrchestratorProofs!UsageInductive`, `UsageIsTruthful` | usage, for any keys, queries, flushes, token counts, limits and failures: `UsageTruthful` |
| `OrchestratorProofs!SessionInductive`, `SessionsAreTruthful` | sessions, for any sessions, callers, limits and faults: `SessionsTruthful` |
| `RetrievalProofs!RetrInductive`, `StaleAnswersAreBounded` | for any handlers, users, chunks, timeouts, times to live, changes and outages: type correctness and `StaleAnswerBounded` |
| `RetrievalProofs!FailuresAreSeen`, `FailuresOnlyDegrade` | for all three routes and any number of sub-queries: `FailuresDegrade` |
| `AccessControlProofs!StoresLoseNothing`, `StoresReadAlike`, `OneVerdict`, `OneRuleHolds`, `AnswersSafe`, `SearchesAgree` | for any users, groups, tenants, documents, analyser, keys of filters and configurations: `PrefilterComplete`, `BuildersAgree`, `ChecksAgree`, with `RoutesAgree` and `PrefilterTight` hence `OneRule`; `AnswersAuthorised`; `KeywordWithinSemantic` |
| `AccessControlProofs!PermissionsAgree` | for any claims, routes and resources: `GrantsAgree` |
| `AccessControlProofs!RankInductive`, `RankingsRespectScores` | for any chunks, scores, lengths of lists, weights, units, numbers of queries, batches and thresholds: `RankingRespectsScores` |
| `AccessControlProofs!TextsReadAlike` | for texts of any length, any limits with a minimum of at most 2 bytes, tenants and users whose identifiers are no words of a key: `RequestsReadAlike` |
| `AccessControlProofs!EmbedInductive`, `EmbeddingIsFaithful` | for any queries, synonyms, LLM answers, passages, batch sizes, retries, failures and orders of a reply: `EmbeddingFaithful` |
| `StoresProofs!TokensInductive`, `RevocationsHold` | for any handlers, lists, layouts, lifetimes, outages and restarts: `RevocationHolds` |
| `StoresProofs!ReembedInductive`, `NoDocumentIsPartial`, `JobsAccount` | for any documents, scope, page and batch size, deletions, errors and attempts: `NoPartialDocument` and `JobAccounts` |
| `StoresProofs!TenantInductive`, `ConfigsAreCurrent` | for any tenants, rows, lookups, times to live, either cache: `ConfigsCurrent` |
| `StoresProofs!StoresAreTruthful` | for any chunks, scores, filters, queries and sizes, explicit or dynamic mappings: `StoresTruthful` |
| `StoresProofs!RecordsInductive`, `RecordsAreTruthful` | for any users, keys, dates, amounts, limits, journals and page sizes, each schema: `RecordsTruthful` |
| `StoresProofs!SharedInductive`, `CachesAreTruthful` | for any callers, tenants, queries, texts and limits: `CacheTruthful` |
| `ServiceProofs!InvHolds`, `TypeCorrect`, `ServiceIsShielded`, `ProbesAreLimited`, `RejectionsEnd` | breaker, for any calls, threshold and half-open limit: type correctness, `Shielded`, `ProbesLimited`, and `RejectsOnlyWhileProbing` if the protected call is never cancelled |
| `ServiceProofs!RateIsBounded`, `GatewayIsTruthful` | gateway, for any callers, limits, burst, window, length of time, events and cuts: `RateBounded` and `GatewayTruthful` |
| `ServiceProofs!PromisesSuffice` | for any callers, limits, window and length of time, if the burst multiplier is at least 1: `RetryAfterSuffices` |
| `ServiceProofs!DeletionsLast`, `CallsAreAccounted` | for any videos, fusion settings, batches, crashes and calls: `DeletedStayDeleted` and `CallsAccounted` |
| `ServiceProofs!ProbesTellTheTruth`, `ProbesAreTruthful` | for any timeouts, waits and changes: `AnswersAreTrue`, and `ProbesTruthful` if the waits between the reranker's retries fit into a request |

Assumptions: the `ASSUME` of each module (TLC evaluates it in every run that
extends the module) and those in the table. `SlowWorkers` is excluded from the
queue's theorems; the run `JobQueueFaults` shows what is left with it: no job
lost. The points of `NoJobIsLost` are `ClaimedPoints` (`run`, `complete_set`,
`complete_expire`, `complete_rem`); outside them it is false, which is finding 1
of section 4.2. `ProbesAreTruthful` takes `WaitsFit(spent)`: there are upper
bounds on the waits so far, by attempt, that stay below the server's timeout. The
defaults meet it (3 retries, waits of 1, 2 and 4 s with a quarter of jitter, against
30 s), and so do the constants of `Services`; a configuration with longer waits
does make a probe time out behind a reranker that refuses at once.
`PromisesSuffice` takes `BurstNum >= BurstDen`: with a burst multiplier below 1 (the
default is 1.5) a small limit may come to a burst of no token, and every retry is
refused.

### 5.1 The inductive invariants

- **Queue.** `SingleCustody` alone is not inductive: that a job held by a task is
  in no set follows only from where the task stands. `LocalOK` says what a task
  at each point holds, `CustodyOK` that a held job is not stale and, at the
  points between a pop and an add, in no set, `DataOK` ties the stored status to
  the counters and the sets, `HandOK` ties the snapshot in a task's hands to the
  stored status. With these each command is one case. For the refinement,
  `StageStep` maps each command to one step of `JobLifecycle` or to none.
- **No job lost.** `NoLoss` adds to the invariant above that a worker which is
  about to start, run or complete a job still has it in `processing`
  (`ClaimKept`), and that an entry of `processing` without its worker, or a
  reclaimed one, belongs to a job recorded as running or settled
  (`LeftRunning`), which is what a reclaim pass can deal with. A crash at a
  claimed point leaves such an entry behind; at any other point it may leave none.
- **Tracker.** `SuccessBacked`: whatever says that a job succeeded, a tracker,
  the history or a snapshot on its way there, says it of a job that is over for
  the queue or whose completion the queue never recorded; and what is over stays
  over (`OverStays`).
- **Coordinator.** `SoloOK` says what an undisturbed operation has achieved
  after each call: stores already erased are empty (`Erased`), stores already
  written hold exactly its chunks (`Written`). It needs `PhaseOK` (which calls
  a phase may have left) and `FreshOK` (nothing is known before the ingestion,
  so that the ingestion too finds empty stores).
- **Documents.** `RegistryInv`: a reader whom nobody disturbed has read the first pages
  of the one order there is when no two documents share a `created_at` (`ReaderKept`,
  with `OrdersAgree` and `PagesEnough`), and each deletion has answered the ids before the
  one it is at, announced no others and left nothing of them but what is in
  `overlooked` (`CallsKept`).
- **Answer cache.** `Reachable` needs that an index outlives what it lists
  (`SoundOK`: `indexLeft[d] >= left[k]`), and that an invalidation already past
  the answers has none of them left to lose. While an answer is being stored the
  same is known for the documents already done (`CleanOK`), as long as nobody
  has disturbed the request. `LocalOK` says which documents a request has yet to
  list, `DataOK` that no invalidation knows a version before it exists.
- **Usage.** Between two commands of a flush its tokens are in the counter, in
  the open transaction, in the table, or in two of them at once. `NothingLost`
  and `NothingTwice` count them with what each flush has read and written of the
  key, and `ChecksOK` says that a check under way has seen, or will still find,
  what was recorded before it.
- **Sessions.** `CopiesHold`: a call that has read a session holds its present
  value, unless it is marked as overtaken. For `SessionsLimited` the limit holds
  only when no session is being created, so `LimitHolds` says of every group of
  calls in the middle of a creation that one of them will still see, and drop, what
  is too much: the one that listed last, which is where the proof turns on the
  order of SADD and SMEMBERS.
- **Retrieval.** `Fresh`: no hit is older than the request that holds it, none in
  the cache older than a request plus its own age, and from the last access check on all are
  readable. For failures, `Path` says for each sub-query that its stage, its
  outcome and what failed agree (`Ran`), `Shown` that a failure has left a mark in
  a sub-query or in the outcome, and `Seen` joins them to the stage of the request.
- **Access rules and permissions.** There is nothing to induct over but the type
  of the input: each theorem follows by cases on the visibility, from lemmas on
  what a built filter and its two translations select, or from the tables of
  grants. `GrantsAgree` assumes that no subject has the empty name and that
  routes require permissions there are (`PermissionsAssumption`).
- **Ranking.** `RankInv` says of what the last ranking came to that the code computes it
  from lists such as the stores return. The rest is about the operators. Two lists that
  agree are not overruled because each method is monotone in each list: a rank further
  ahead has no smaller share (`RrfScore`), the normal forms keep the order of the scores,
  and a chunk missing from a list has its least value there. Sorted outcomes hold every
  key once (`Sorted` is not empty and keeps the keys), a finite set of chunks has a
  best one for each document, `Retained` keeps a sequence in order, an average lies
  between the bounds of its addends (`SumBetween`), and position `j` of a batch is
  `j - BatchOf(j)`, which is what a reply's index must name. The recursive functions
  `Retained` and `Summed` are shown to exist before they are unfolded
  (`RetainFunction`, `SumSteps`).
- **Texts.** `TextInv` is only the type of an input. A trimmed text is `Tidy`, and what
  is kept when blanks are collapsed lists the kept places upwards (`Upwards`, `Picks`),
  of which there is one list (`UpwardsOnce`): so collapsing changes nothing a second time
  (`CollapsedOnce`), commutes with composing and lower case, which change no blank
  (`Alike`), keeps the words, each from the first to the last of its places
  (`WordsPicked`), and no text grows by it (`SumShrinks`). Keys are compared part by part
  (`BuiltIs`). Two assumptions carry this. The minimum length is at most the default
  2, which no caller raises: the length is measured before blanks are collapsed, so
  with a minimum of 4 `x  x` would be accepted and its preprocessed form refused.
  Tenants and users are UUIDs, so none is the word `query` or a filter's hash;
  otherwise keys with a different number of parts could be equal.
- **Embedding.** `EmbedInv`: a batch that has ended holds a beginning of the vectors of
  its texts, all of them for a query, or has failed for good (`BatchesKept`), and the
  answer is what the batches came to (`AnswerKept`). That the vectors joined are then
  those of the texts is an induction over the batches (`TogetherFits`); that sorting by
  index undoes the order of a reply rests on `ByIndexIs`: an increasing permutation is
  the identity. `Searched` keeps the query among its texts, by lemmas on what `Without`
  and `Unique` keep.
- **Tokens.** `EntriesLastAsTokens` is inductive with the types; `RevokedStaysOut`
  follows from it.
- **Reembed.** `Embedded`: what is about to be written was embedded completely, so
  that an upsert is of all vectors (`AllVectors`). `PostingsKnown`: what OpenSearch holds
  of a document is some of its chunks, all or none of them unless the tracker has an
  error of it, the API deleted it, or it is being written; the write that follows an
  erasure either adds every chunk or adds an error.
  `JobInv`: of what a job has listed, each document is in `remaining`, done, in
  error, or deleted by the API; and an undisturbed first attempt has listed what
  lies before its offset, which is everything once a page is not full. The lemmas
  on pages (`PageIs`) and on the recursive function `Kept` (`KeptFunction`,
  `KeptIs`) are inductions over a length: the set of lengths for which the claim
  holds has no least exception (`LeastOf`, `UpTo`).
- **Repositories.** `RecordsInv`: the links are what the last call about each leaves
  (`LinksKept`), the keys what was created and not deleted (`KeysKept`), the rows of usage
  sum to what was recorded (`NoUsageLost`), a check under way has read a quota and a sum
  that were true when it read them (`ChecksKept`, `VerdictsTimely`, `QuotaKept`), and a
  page of a journal is a part of it (`PageKept`). Sums are taken with a recursive
  function (`RunningSum`, `SumsAre`).
- **Tenants.** `EntryOK` and `LookupOK` say from which version an entry or a lookup under
  way was read, that it is no older than the time to live allows, and that the floor
  has not passed it unless it was disturbed.
- **Shared caches.** `ValueOK` says under which key a value may lie, `CallOK` what
  a call has collected so far, `ScanOK` that of the keys a scan must delete each is gone
  or still ahead of it, `CountsOK` ties the counters to the lookups.
- **Breaker.** The counters are tied to the calls in flight: in HALF_OPEN the
  slots taken are the probes (without cancellation), outside it there are none;
  while CLOSED `_failure_count` is the length of the streak.
- **Rate limiter.** `RateBounded` counts what was admitted in every stretch of
  time and is not inductive. `Budget` is: what was admitted since any past
  moment, and what the bucket holds now, are together at most the burst and the
  refill since that moment. An admission moves a token from the second term to
  the first, a tick adds the refill on the right before the bucket takes it.
  `PromiseInv` keeps the last Retry-After: when it is due the bucket holds a token, and
  before that it lacks no more than the refill of the time until then; rounding the
  seconds up is what makes it hold.
- **Streams and promises.** `FeedInv`: what has arrived is in order and behind the
  cut last made, and each event that has passed was delivered, torn or crowded.
  `ServesInv`: what a caller was told is served is loaded.
- **Video.** `VidInv`: every point is of a call between the last deletion and now.
  `CallInv` adds what a call has reported and done so far: the stages reported are the
  first of those a video with, or without, audio goes through, as many as `step` says
  (`StagesInv`); the chunks cut the video (`ChunksInv`) and, unless a stage failed, hold
  all that is said (`SpeechInv`); every batch behind the present one has its points
  (`PointsInv`). That `Boundaries` cuts a video without gaps is an induction over the
  time that is left (`BoundariesCut`): the next chunk begins later because the overlap is
  less than the shortest chunk.
- **Stores.** `StoresInv`: what was reported agrees with the contents, an absent index
  is empty, and the last search is what the same search would find on these contents.
  That a search ranks and keeps the best rests on lemmas about finite sets: they have a
  list sorted by score (`SortedExists`), and its head is what nothing left out exceeds.
- **Probes.** `ProbeInv`: what a probe has seen is so while nothing changes, and
  an answer rests on all the checks of its kind. `WaitInv`: as long as nobody
  hangs, the time of a probe is the time of its waits.

### 5.2 Only model-checked

- Liveness, which needs fairness and ENABLED: `EveryTaskEnds` and the other
  `…Ends`, `EveryJobSettles`, `EveryCallReturns`, `ClosesAfterRecovery`,
  `StaleAnswersGo`.
- `ChunkingFaithful`: `Chunking` declares RECURSIVE operators.
- `MCServices.SettledJobsReported` in the run with three components is the instance
  of `JobTracker`'s; the theorem is stated there, about one replica.

## 6. Not modelled

- **Orchestrator.** Its audit chain, event order of streaming and degradation
  manager; of its conversation memory the summarizer and the copy in PostgreSQL,
  which `app.py` does not wire up. Its copies of tokens,
  access lists, roles and tenant limits repeat what the Rust crates decide. Query
  routing, guardrails, prompts and its HTTP clients are tables, patterns and I/O
  without shared state.
- **Data.** Parsers and connectors, PII patterns, the tables by which chunking
  recognises a heading or a question, the wording of prompts and responses.
- **Cryptography and secrets.** Signatures are taken to be right, encryption and
  key rotation are outside TLA+.
- **I/O.** Object storage, connection pools, migrations, ffmpeg, inference. The
  modules take over what the code assumes of them: atomic commands, constraints,
  answers in any order, failures with or without effect.
- **Observability, configuration parsing, frontend, deployment.** No part of the
  behaviour modelled here depends on them, beyond the replica counts and the
  default values quoted above.

What is left out of components that are modelled in part is in their notes in
`PROJECT.json`: read-only queries of the queue and its purge, the pool's
graceful shutdown, `cleanup_old_jobs`, tenant-wide invalidation events, the
report of `explain`, and video search.
