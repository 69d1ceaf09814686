---------------------------- MODULE AnswerCache ----------------------------
(***************************************************************************)
(* The answer cache of the orchestrator for one tenant, kept in Redis      *)
(* (cache/answer_cache.py), the queries that read and fill it              *)
(* (workflow/nodes/cache_check.py in workflow/graph.py), the listeners     *)
(* that invalidate it (cache/invalidation_listener.py) and the ingestion   *)
(* routes that tell them of changed documents (cache_invalidation.rs).     *)
(* One action is one Redis command of a task, and an answer is known by    *)
(* the versions of the documents it was built from.                        *)
(***************************************************************************)
EXTENDS Integers, Sequences

CONSTANTS
    Docs,       \* documents of the tenant
    Keys,       \* cache keys: query and configuration, hashed
    Requests,   \* tasks that answer queries
    Query,      \* the cache key of the query of each task
    Relevant,   \* the documents that retrieval may find for each of them
    Listeners,  \* invalidation listeners, one per replica
    Ttl,        \* the tenant's time to live, in ticks
    MaxChanges, \* bound on the deletions and reindex jobs of a behaviour
    MaxFaults   \* bound on the failures of a behaviour

ASSUME ConstantsAssumption ==
    /\ Query \in [Requests -> Keys]
    /\ Relevant \in [Requests -> SUBSET Docs]
    /\ Ttl \in Nat \ {0}
    /\ MaxChanges \in Nat
    /\ MaxFaults \in Nat

VARIABLES
    version,    \* how often each document has changed
    deleted,    \* documents deleted by a route that has yet to publish
    reindexing, \* documents with an enqueued reindex job
    changes,    \* deletions and reindex jobs so far
    answer,     \* Redis: the versions each cached answer was built from
    left,       \* Redis: what is left of an answer's time to live
    index,      \* Redis: the cache keys listed under each document
    indexLeft,  \* Redis: what is left of an index's time to live
    pc,         \* where each request stands
    seen,       \* the document versions it has retrieved
    todo,       \* documents it has yet to list its answer under
    added,      \* the document whose index it has yet to renew
    lpc,        \* where each listener stands
    inbox,      \* events delivered to it
    hand,       \* documents left of the event it handles
    cur,        \* the document it invalidates
    found,      \* the cache keys it read from the index
    begun,      \* history: the version when it began to invalidate
    told,       \* history: the version the last full invalidation knew of
    clean,      \* history: requests that no invalidation has disturbed
    sound,      \* history: keys last stored by such a request
    faults

docVars == <<version, deleted, reindexing, changes>>
redis == <<answer, left, index, indexLeft>>
requestVars == <<pc, seen, todo, added>>
listenerVars == <<lpc, inbox, hand, cur, found, begun>>
history == <<told, clean, sound>>
vars == <<docVars, redis, requestVars, listenerVars, history, faults>>

Uncited == -1
NoExpiry == Ttl + 1     \* a set created by SADD, until EXPIRE

Nothing == [d \in Docs |-> Uncited]
Cited(sources) == {d \in Docs : sources[d] # Uncited}

Init ==
    /\ version = [d \in Docs |-> 0]
    /\ deleted = {} /\ reindexing = {} /\ changes = 0
    /\ answer = [k \in Keys |-> Nothing]
    /\ left = [k \in Keys |-> 0]
    /\ index = [d \in Docs |-> {}]
    /\ indexLeft = [d \in Docs |-> 0]
    /\ pc = [r \in Requests |-> "idle"]
    /\ seen = [r \in Requests |-> Nothing]
    /\ todo = [r \in Requests |-> {}]
    /\ added = [r \in Requests |-> {}]
    /\ lpc = [l \in Listeners |-> "off"]
    /\ inbox = [l \in Listeners |-> <<>>]
    /\ hand = [l \in Listeners |-> {}]
    /\ cur = [l \in Listeners |-> {}]
    /\ found = [l \in Listeners |-> {}]
    /\ begun = [l \in Listeners |-> 0]
    /\ told = [d \in Docs |-> 0]
    /\ clean = {} /\ sound = {}
    /\ faults = 0

Live(k) == left[k] > 0

\* The listener l is between SMEMBERS and the end of the invalidation of d.
Invalidating(l, d) == lpc[l] \in {"keys", "index"} /\ d \in cur[l]

-----------------------------------------------------------------------------
(* The ingestion service                                                   *)

\* PUBLISH reaches the listeners that are subscribed at this moment.
Deliver(docs) ==
    inbox' = [l \in Listeners |->
                IF lpc[l] = "off" THEN inbox[l] ELSE Append(inbox[l], docs)]

\* A document is deleted; it may be ingested again under its id.
Delete(d) ==
    /\ d \notin deleted /\ changes < MaxChanges
    /\ changes' = changes + 1
    /\ version' = [version EXCEPT ![d] = @ + 1]
    /\ deleted' = deleted \cup {d}
    /\ UNCHANGED <<reindexing, redis, requestVars, listenerVars, history, faults>>

\* The delete routes publish after the deletion, the batch route once for all
\* the documents it has deleted.
PublishDeleted(docs) ==
    /\ docs # {} /\ docs \subseteq deleted
    /\ deleted' = deleted \ docs
    /\ Deliver(docs)
    /\ UNCHANGED <<version, reindexing, changes, redis, requestVars, lpc, hand, cur,
                   found, begun, history, faults>>

\* A failed PUBLISH is logged and counted, no more.
PublishFails(docs) ==
    /\ docs # {} /\ docs \subseteq deleted /\ faults < MaxFaults
    /\ deleted' = deleted \ docs
    /\ faults' = faults + 1
    /\ UNCHANGED <<version, reindexing, changes, redis, requestVars, listenerVars, history>>

\* The reindex route publishes when it has enqueued the job.
RequestReindex(d) ==
    /\ d \notin reindexing /\ changes < MaxChanges
    /\ changes' = changes + 1
    /\ reindexing' = reindexing \cup {d}
    /\ Deliver({d})
    /\ UNCHANGED <<version, deleted, redis, requestVars, lpc, hand, cur,
                   found, begun, history, faults>>

Reindexed(d) ==
    /\ d \in reindexing
    /\ reindexing' = reindexing \ {d}
    /\ version' = [version EXCEPT ![d] = @ + 1]
    /\ UNCHANGED <<deleted, changes, redis, requestVars, listenerVars, history, faults>>

-----------------------------------------------------------------------------
(* A query                                                                 *)

\* The request is over: it keeps nothing.
Leave(r) ==
    /\ pc' = [pc EXCEPT ![r] = "idle"]
    /\ seen' = [seen EXCEPT ![r] = Nothing]
    /\ todo' = [todo EXCEPT ![r] = {}]
    /\ added' = [added EXCEPT ![r] = {}]
    /\ clean' = clean \ {r}

\* Mutant of cache_check: an answer found is stored again.
cache_check_stores(r) ==
    /\ pc[r] = "idle"
    /\ pc' = [pc EXCEPT ![r] = IF Live(Query[r]) THEN "setex" ELSE "retrieval"]
    /\ seen' = [seen EXCEPT ![r] = answer[Query[r]]]
    /\ clean' = clean \cup {r}
    /\ UNCHANGED <<docVars, redis, todo, added, listenerVars, told, sound, faults>>

\* cache_check_node, GET: a hit goes straight to output_validation, and a
\* failed GET counts as a miss.
cache_check(r) ==
    /\ pc[r] = "idle"
    /\ \/ ~Live(Query[r]) /\ UNCHANGED faults
       \/ Live(Query[r]) /\ faults < MaxFaults /\ faults' = faults + 1
    /\ pc' = [pc EXCEPT ![r] = "retrieval"]
    /\ clean' = clean \cup {r}
    /\ UNCHANGED <<docVars, redis, seen, todo, added, listenerVars, told, sound>>

\* retrieval_node, or a sub-question of multi_retrieval_node.
Retrieve(r, docs) ==
    /\ pc[r] = "retrieval"
    /\ docs # {} /\ docs \cap Cited(seen[r]) = {}
    /\ seen' = [seen EXCEPT ![r] =
                 [d \in Docs |-> IF d \in docs THEN version[d] ELSE @[d]]]
    /\ clean' = IF \E l \in Listeners, d \in docs : Invalidating(l, d)
                THEN clean \ {r} ELSE clean
    /\ UNCHANGED <<docVars, redis, pc, todo, added, listenerVars, told,
                   sound, faults>>

\* generation_node: without a response nothing is stored.
Generate(r) ==
    /\ pc[r] = "retrieval"
    /\ \/ /\ pc' = [pc EXCEPT ![r] = "setex"]
          /\ UNCHANGED <<seen, todo, added, clean>>
       \/ Leave(r)
    /\ UNCHANGED <<docVars, redis, listenerVars, told, sound, faults>>

\* set, SETEX: other requests that store the same key are disturbed.
SetEx(r) ==
    /\ pc[r] = "setex"
    /\ answer' = [answer EXCEPT ![Query[r]] = seen[r]]
    /\ left' = [left EXCEPT ![Query[r]] = Ttl]
    /\ pc' = [pc EXCEPT ![r] = "sadd"]
    /\ todo' = [todo EXCEPT ![r] = Cited(seen[r])]
    /\ sound' = sound \ {Query[r]}
    /\ clean' = clean \ {q \in Requests \ {r} : Query[q] = Query[r]}
    /\ UNCHANGED <<docVars, index, indexLeft, seen, added, listenerVars, told, faults>>

\* set, SADD: a new set has no expiry yet.
SAdd(r, d) ==
    /\ pc[r] = "sadd" /\ d \in todo[r]
    /\ index' = [index EXCEPT ![d] = @ \cup {Query[r]}]
    /\ indexLeft' = [indexLeft EXCEPT ![d] = IF index[d] = {} THEN NoExpiry ELSE @]
    /\ pc' = [pc EXCEPT ![r] = "expire"]
    /\ todo' = [todo EXCEPT ![r] = @ \ {d}]
    /\ added' = [added EXCEPT ![r] = {d}]
    /\ UNCHANGED <<docVars, answer, left, seen, listenerVars, history, faults>>

\* set, EXPIRE: of no effect on an index that is gone.
Renew(r, d) ==
    /\ pc[r] = "expire" /\ d \in added[r]
    /\ indexLeft' = [indexLeft EXCEPT ![d] = IF index[d] = {} THEN 0 ELSE Ttl]
    /\ pc' = [pc EXCEPT ![r] = "sadd"]
    /\ added' = [added EXCEPT ![r] = {}]
    /\ UNCHANGED <<docVars, answer, left, index, seen, todo, listenerVars, history, faults>>

\* set returns: an answer stored undisturbed counts as sound.
Stored(r) ==
    /\ pc[r] = "sadd" /\ todo[r] = {}
    /\ sound' = IF r \in clean THEN sound \cup {Query[r]} ELSE sound
    /\ Leave(r)
    /\ UNCHANGED <<docVars, redis, listenerVars, told, faults>>

\* An exception in set, caught there, or the end of the task.
SetFails(r) ==
    /\ pc[r] \in {"setex", "sadd", "expire"} /\ faults < MaxFaults
    /\ faults' = faults + 1
    /\ Leave(r)
    /\ UNCHANGED <<docVars, redis, listenerVars, told, sound>>

-----------------------------------------------------------------------------
(* A listener                                                              *)

\* _connect: messages published before it are not delivered.
Connect(l) ==
    /\ lpc[l] = "off"
    /\ lpc' = [lpc EXCEPT ![l] = "on"]
    /\ UNCHANGED <<docVars, redis, requestVars, inbox, hand, cur, found, begun,
                   history, faults>>

\* _handle_message: the documents of the event, one after the other.
HandleMessage(l) ==
    /\ lpc[l] = "on" /\ hand[l] = {} /\ inbox[l] # <<>>
    /\ hand' = [hand EXCEPT ![l] = Head(inbox[l])]
    /\ inbox' = [inbox EXCEPT ![l] = Tail(@)]
    /\ UNCHANGED <<docVars, redis, requestVars, lpc, cur, found, begun, history, faults>>

\* The invalidation of d has ended, in full or not.
NextDocument(l, d) ==
    /\ lpc' = [lpc EXCEPT ![l] = "on"]
    /\ hand' = [hand EXCEPT ![l] = @ \ {d}]
    /\ cur' = [cur EXCEPT ![l] = {}]
    /\ found' = [found EXCEPT ![l] = {}]
    /\ begun' = [begun EXCEPT ![l] = 0]

\* An invalidation of d begins, and disturbs the requests that cite d.
Disturb(d) == clean' = {r \in clean : d \notin Cited(seen[r])}

\* invalidate_for_document, SMEMBERS of an index that is empty or gone.
NoneListed(l, d) ==
    /\ lpc[l] = "on" /\ d \in hand[l]
    /\ index[d] = {}
    /\ NextDocument(l, d)
    /\ told' = [told EXCEPT ![d] = version[d]]
    /\ Disturb(d)
    /\ UNCHANGED <<docVars, redis, requestVars, inbox, sound, faults>>

\* invalidate_for_document, SMEMBERS.
ReadIndex(l, d) ==
    /\ lpc[l] = "on" /\ d \in hand[l]
    /\ index[d] # {}
    /\ lpc' = [lpc EXCEPT ![l] = "keys"]
    /\ cur' = [cur EXCEPT ![l] = {d}]
    /\ found' = [found EXCEPT ![l] = index[d]]
    /\ begun' = [begun EXCEPT ![l] = version[d]]
    /\ Disturb(d)
    /\ UNCHANGED <<docVars, redis, requestVars, inbox, hand, told, sound, faults>>

\* Mutant of DeleteAnswers: the index alone is deleted.
DeleteAnswersNot(l) ==
    /\ lpc[l] = "keys"
    /\ lpc' = [lpc EXCEPT ![l] = "index"]
    /\ UNCHANGED <<docVars, redis, requestVars, inbox, hand, cur, found, begun,
                   history, faults>>

\* invalidate_for_document, DELETE of the answers.
DeleteAnswers(l) ==
    /\ lpc[l] = "keys"
    /\ answer' = [k \in Keys |-> IF k \in found[l] THEN Nothing ELSE answer[k]]
    /\ left' = [k \in Keys |-> IF k \in found[l] THEN 0 ELSE left[k]]
    /\ lpc' = [lpc EXCEPT ![l] = "index"]
    /\ UNCHANGED <<docVars, index, indexLeft, requestVars, inbox, hand, cur,
                   found, begun, history, faults>>

\* invalidate_for_document, DELETE of the index.
DeleteIndex(l, d) ==
    /\ lpc[l] = "index" /\ d \in cur[l]
    /\ index' = [index EXCEPT ![d] = {}]
    /\ indexLeft' = [indexLeft EXCEPT ![d] = 0]
    /\ told' = [told EXCEPT ![d] = IF @ > begun[l] THEN @ ELSE begun[l]]
    /\ NextDocument(l, d)
    /\ UNCHANGED <<docVars, answer, left, requestVars, inbox, clean, sound, faults>>

\* A Redis error while a document is invalidated: the next one has its turn.
InvalidationFails(l, d) ==
    /\ faults < MaxFaults
    /\ faults' = faults + 1
    /\ \/ lpc[l] = "on" /\ d \in hand[l]
       \/ Invalidating(l, d)
    /\ NextDocument(l, d)
    /\ UNCHANGED <<docVars, redis, requestVars, inbox, history>>

\* The subscription or the replica is lost, and all that was delivered.
Disconnect(l) ==
    /\ lpc[l] # "off" /\ faults < MaxFaults
    /\ faults' = faults + 1
    /\ lpc' = [lpc EXCEPT ![l] = "off"]
    /\ inbox' = [inbox EXCEPT ![l] = <<>>]
    /\ hand' = [hand EXCEPT ![l] = {}]
    /\ cur' = [cur EXCEPT ![l] = {}]
    /\ found' = [found EXCEPT ![l] = {}]
    /\ begun' = [begun EXCEPT ![l] = 0]
    /\ UNCHANGED <<docVars, redis, requestVars, history>>

-----------------------------------------------------------------------------
(* Redis                                                                   *)

Aged(n) == IF n \in {0, NoExpiry} THEN n ELSE n - 1

\* Time passes and what has come of age is gone.  An index that goes while a
\* request lists its answer there disturbs that request.
Tick ==
    /\ left' = [k \in Keys |-> Aged(left[k])]
    /\ answer' = [k \in Keys |-> IF Aged(left[k]) = 0 THEN Nothing ELSE answer[k]]
    /\ indexLeft' = [d \in Docs |-> Aged(indexLeft[d])]
    /\ index' = [d \in Docs |-> IF Aged(indexLeft[d]) = 0 THEN {} ELSE index[d]]
    /\ clean' = {r \in clean : \A d \in added[r] : indexLeft[d] # 1}
    /\ UNCHANGED <<docVars, requestVars, listenerVars, told, sound, faults>>

RequestStep(r) ==
    \/ Generate(r) \/ SetEx(r) \/ Stored(r)
    \/ \E d \in Docs : SAdd(r, d) \/ Renew(r, d)

Next ==
    \/ \E d \in Docs : Delete(d) \/ RequestReindex(d) \/ Reindexed(d)
    \/ \E docs \in SUBSET Docs : PublishDeleted(docs) \/ PublishFails(docs)
    \/ \E r \in Requests :
        \/ cache_check(r)
        \/ \E docs \in SUBSET Relevant[r] : Retrieve(r, docs)
        \/ RequestStep(r)
        \/ SetFails(r)
    \/ \E l \in Listeners :
        \/ Connect(l) \/ HandleMessage(l) \/ DeleteAnswers(l) \/ Disconnect(l)
        \/ \E d \in Docs :
            NoneListed(l, d) \/ ReadIndex(l, d) \/ DeleteIndex(l, d) \/ InvalidationFails(l, d)
    \/ Tick

Fairness ==
    /\ WF_vars(Tick)
    /\ \A r \in Requests : WF_vars(RequestStep(r))

Spec == Init /\ [][Next]_vars /\ Fairness

-----------------------------------------------------------------------------
(* Properties                                                              *)

TypeOK ==
    /\ version \in [Docs -> Nat]
    /\ deleted \subseteq Docs /\ reindexing \subseteq Docs
    /\ changes \in 0..MaxChanges
    /\ answer \in [Keys -> [Docs -> Nat \cup {Uncited}]]
    /\ left \in [Keys -> 0..Ttl]
    /\ index \in [Docs -> SUBSET Keys]
    /\ indexLeft \in [Docs -> 0..NoExpiry]
    /\ pc \in [Requests -> {"idle", "retrieval", "setex", "sadd", "expire"}]
    /\ seen \in [Requests -> [Docs -> Nat \cup {Uncited}]]
    /\ todo \in [Requests -> SUBSET Docs]
    /\ added \in [Requests -> SUBSET Docs]
    /\ lpc \in [Listeners -> {"off", "on", "keys", "index"}]
    /\ inbox \in [Listeners -> Seq(SUBSET Docs)]
    /\ hand \in [Listeners -> SUBSET Docs]
    /\ cur \in [Listeners -> SUBSET Docs]
    /\ found \in [Listeners -> SUBSET Keys]
    /\ begun \in [Listeners -> Nat]
    /\ told \in [Docs -> Nat]
    /\ clean \subseteq Requests /\ sound \subseteq Keys
    /\ faults \in 0..MaxFaults

\* "Index by document IDs for invalidation" (answer_cache.py:373): whatever
\* other requests, time and failures do, an answer that no invalidation
\* disturbed while it was built and stored is listed under each of its documents
\* for as long as it lives, so that a later invalidation will find it.
Reachable ==
    \A k \in sound : Live(k) =>
        \A d \in Cited(answer[k]) : k \in index[d]

\* "Invalidate cache entries that used a document" (answer_cache.py:401): such
\* an answer was built from no version of a document that was replaced before
\* the last full invalidation of that document began.
NotOlderThanTold ==
    \A k \in sound : Live(k) =>
        \A d \in Cited(answer[k]) : answer[k][d] >= told[d]

\* Once the documents no longer change, stale answers go for good, also those
\* whose invalidation was lost: a hit does not prolong the life of an answer.
StaleAnswersGo ==
    \A k \in Keys :
        <>[](Live(k) => \A d \in Cited(answer[k]) : answer[k][d] = version[d])
-----------------------------------------------------------------------------
(* The inductive invariant                                                 *)

\* What the locals of a task hold at each point.
LocalOK ==
    /\ \A r \in Requests :
        /\ pc[r] = "idle" => seen[r] = Nothing /\ r \notin clean
        /\ pc[r] \in {"idle", "retrieval", "setex", "sadd"} => added[r] = {}
        /\ pc[r] \in {"idle", "retrieval", "setex"} => todo[r] = {}
        /\ added[r] \cup todo[r] \subseteq Cited(seen[r])
        /\ added[r] \cap todo[r] = {}
        /\ \A d, e \in added[r] : d = e
    /\ \A l \in Listeners :
        /\ lpc[l] \in {"off", "on"} => cur[l] = {}
        /\ \A d, e \in cur[l] : d = e

\* No version is known before it exists, and nothing is kept of what is gone.
DataOK ==
    /\ \A d \in Docs :
        /\ told[d] <= version[d]
        /\ \A l \in Listeners : Invalidating(l, d) => begun[l] <= version[d]
        /\ indexLeft[d] = 0 <=> index[d] = {}

\* A clean request has so far met no invalidation of a document it cites, and
\* has listed its answer, if that still lives, under the documents it has done.
CleanOK ==
    \A r \in clean :
        /\ \A d \in Cited(seen[r]) :
            /\ \A l \in Listeners : ~Invalidating(l, d)
            /\ seen[r][d] >= told[d]
        /\ pc[r] \in {"sadd", "expire"} /\ Live(Query[r]) =>
            /\ answer[Query[r]] = seen[r]
            /\ \A d \in Cited(seen[r]) \ todo[r] : Query[r] \in index[d]
            /\ \A d \in Cited(seen[r]) \ (todo[r] \cup added[r]) :
                    indexLeft[d] >= left[Query[r]]

\* A sound answer is listed under its documents for at least as long as it
\* lives, and an invalidation at work has found it.
SoundOK ==
    \A k \in sound : Live(k) => \A d \in Cited(answer[k]) :
        /\ k \in index[d] /\ indexLeft[d] >= left[k]
        /\ answer[k][d] >= told[d]
        /\ \A l \in Listeners : Invalidating(l, d) => lpc[l] = "keys" /\ k \in found[l]

Inv == TypeOK /\ LocalOK /\ DataOK /\ CleanOK /\ SoundOK
=============================================================================
