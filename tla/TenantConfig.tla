---------------------------- MODULE TenantConfig ----------------------------
(***************************************************************************)
(* Which Qdrant collection and OpenSearch index a tenant uses (rag-tenant):*)
(* TenantConfigService reads the tenant's row through a cache, in Redis    *)
(* (RedisCache, entries live for a TTL, errors are misses) or in the       *)
(* process (InMemoryCache, entries stay). Administrators edit the row and  *)
(* call invalidate_cache; readers are between their load and their set     *)
(* meanwhile.  (Tenant::get_qdrant_collection and get_opensearch_index of  *)
(* rag-database read the row themselves, and no mode but "dedicated" as it *)
(* is written here: a row that says Dedicated they take for a shared one.) *)
(***************************************************************************)
EXTENDS Integers, SequencesExt

CONSTANTS
    Tenants, Lookups,   \* tenants, and calls of get_config
    TenantRows,         \* what a row of tenants may hold
    Unnamed,            \* the column of a name is NULL
    CallerConfigs,      \* configs given to create_config
    ConfigTtl,          \* default_ttl in ticks; 0 is below a second
    SetDelay,           \* bound: ticks between a load and its set
    MaxEdits, LastMoment    \* bounds: edits of a tenant's row, the clock

ASSUME TenantConfigAssumption ==
    /\ ConfigTtl \in Nat /\ SetDelay \in Nat /\ MaxEdits \in Nat /\ LastMoment \in Nat
    /\ \A row \in TenantRows :
           DOMAIN row = {"mode", "collection", "index", "deleted"} /\ ~row.deleted

VARIABLES
    cacheKind,  \* "redis" or "memory"
    moment,     \* the clock
    versions,    \* per tenant: the rows it has had, the last one is the current
    floor,      \* per tenant: no answer may be of an earlier row than this one
    cached,     \* per tenant: the cache's entry
    lookup,     \* per call: where it stands
    reachable   \* Redis answers

tenantVars == <<cacheKind, moment, versions, floor, cached, lookup, reachable>>

Row(t) == Last(versions[t])
Uncached == [version |-> 0, config |-> Unnamed, left |-> 0, age |-> 0, made |-> FALSE]
AtRest == [at |-> "rest"]

----------------------------------------------------------------------------
(* From a row to names.                                                    *)

\* The name a dedicated tenant has when its row gives none.
DefaultName(store, t) == <<store, t>>
SharedConfig(t) ==
    [tenant |-> t, mode |-> "shared", collection |-> "documents", index |-> "documents"]
Named(name, store, t) == IF name = Unnamed THEN DefaultName(store, t) ELSE name
DedicatedConfig(row, t) ==
    [tenant |-> t, mode |-> "dedicated", collection |-> Named(row.collection, "qdrant", t),
     index |-> Named(row.index, "opensearch", t)]

\* IsolationMode::from_str lowercases; what it does not know is the default.
ParsedMode(spelling) ==
    IF spelling \in {"dedicated", "Dedicated", "DEDICATED"} THEN "dedicated" ELSE "shared"

BuildConfig(row, t) ==
    IF ParsedMode(row.mode) = "dedicated" THEN DedicatedConfig(row, t) ELSE SharedConfig(t)

----------------------------------------------------------------------------
TenantInit ==
    /\ cacheKind \in {"redis", "memory"}
    /\ moment = 0 /\ reachable = TRUE
    /\ versions \in [Tenants -> {<<row>> : row \in TenantRows}]
    /\ floor = [t \in Tenants |-> 1]
    /\ cached = [t \in Tenants |-> Uncached]
    /\ lookup = [l \in Lookups |-> AtRest]

Cached(t) == cached[t] # Uncached
Answers == reachable \/ cacheKind = "memory"

\* A call has returned: what it answered, and how old that was.
Found(e, t) == [at |-> "answered", tenant |-> t, version |-> e.version, config |-> e.config,
                age |-> e.age, floor |-> floor[t], made |-> e.made]
Failed == [at |-> "failed"]

\* get_config looks in the cache; RedisCache takes an error for a miss.
GetConfig(l, t) ==
    /\ lookup[l] \in {AtRest, Failed} \/ lookup[l].at = "answered"
    /\ lookup' = [lookup EXCEPT ![l] =
           IF Answers /\ Cached(t) THEN Found(cached[t], t) ELSE [at |-> "load", tenant |-> t]]
    /\ UNCHANGED <<cacheKind, moment, versions, floor, cached, reachable>>

\* load_from_database: the row unless it is deleted, NotFound then.
LoadRow(l) ==
    LET t == lookup[l].tenant IN
    /\ lookup[l].at = "load"
    /\ lookup' = [lookup EXCEPT ![l] =
           IF Row(t).deleted THEN Failed
           ELSE [at |-> "set", tenant |-> t, version |-> Len(versions[t]),
                 config |-> BuildConfig(Row(t), t), age |-> 0]]
    /\ UNCHANGED <<cacheKind, moment, versions, floor, cached, reachable>>
LoadFails(l) ==
    /\ lookup[l].at = "load"
    /\ lookup' = [lookup EXCEPT ![l] = Failed]
    /\ UNCHANGED <<cacheKind, moment, versions, floor, cached, reachable>>

Entry(version, config, age, made) ==
    [version |-> version, config |-> config, left |-> ConfigTtl, age |-> age, made |-> made]
\* SETEX refuses a time below one second.
SetWorks == cacheKind = "memory" \/ (reachable /\ ConfigTtl >= 1)

\* A failed set is logged, and the loaded config is answered.
SetConfig(l) ==
    LET c == lookup[l] IN
    /\ c.at = "set"
    /\ LET e == Entry(c.version, c.config, c.age, FALSE) IN
       /\ cached' = IF SetWorks THEN [cached EXCEPT ![c.tenant] = e] ELSE cached
       /\ lookup' = [lookup EXCEPT ![l] = Found(e, c.tenant)]
    /\ UNCHANGED <<cacheKind, moment, versions, floor, reachable>>

\* create_config only caches what it is given: its version is the row's of the time.
CreateConfig(t, config) ==
    /\ SetWorks
    /\ cached' = [cached EXCEPT ![t] =
           Entry(Len(versions[t]), [config EXCEPT !.tenant = t], 0, TRUE)]
    /\ UNCHANGED <<cacheKind, moment, versions, floor, lookup, reachable>>

----------------------------------------------------------------------------
(* Administrators.                                                         *)

EditRow(t, row) ==
    /\ Len(versions[t]) <= MaxEdits /\ row # Row(t)
    /\ versions' = [versions EXCEPT ![t] = Append(@, row)]
    /\ UNCHANGED <<cacheKind, moment, floor, cached, lookup, reachable>>
DeleteTenant(t) == ~Row(t).deleted /\ EditRow(t, [Row(t) EXCEPT !.deleted = TRUE])

\* Calls that have read a row of t and have yet to cache it.
Setting(t) == {l \in Lookups : lookup[l].at = "set" /\ lookup[l].tenant = t}

\* What stays true of every answer from now on: none is of an earlier row than
\* this, or than one some call is about to cache.
Raise(t) ==
    LET earliest == {lookup[l].version : l \in Setting(t)} \cup {Len(versions[t])} IN
    floor' = [floor EXCEPT ![t] = CHOOSE v \in earliest : \A w \in earliest : v <= w]

\* The entry is left to expire.
InvalidateConfigLate(t) ==
    /\ Answers
    /\ Raise(t)
    /\ UNCHANGED <<cacheKind, moment, versions, cached, lookup, reachable>>

\* invalidate_cache; with Redis out of reach it fails and changes nothing.
InvalidateConfig(t) ==
    /\ Answers
    /\ cached' = [cached EXCEPT ![t] = Uncached]
    /\ Raise(t)
    /\ UNCHANGED <<cacheKind, moment, versions, lookup, reachable>>

----------------------------------------------------------------------------
(* Time, Redis and the process.                                            *)

\* Redis drops an entry when its time is over.
AgedKept(e) == IF e = Uncached THEN e ELSE [e EXCEPT !.age = @ + 1]
OneOlder(e) ==
    IF e = Uncached \/ cacheKind = "memory" THEN AgedKept(e)
    ELSE IF e.left = 1 THEN Uncached ELSE [e EXCEPT !.left = @ - 1, !.age = @ + 1]

\* A call between its load and its set is not held up longer than SetDelay.
PassTime ==
    /\ moment < LastMoment /\ moment' = moment + 1
    /\ \A l \in Lookups : lookup[l].at = "set" => lookup[l].age < SetDelay
    /\ cached' = [t \in Tenants |-> OneOlder(cached[t])]
    /\ lookup' = [l \in Lookups |->
           IF lookup[l].at = "set" THEN [lookup[l] EXCEPT !.age = @ + 1] ELSE lookup[l]]
    /\ UNCHANGED <<cacheKind, versions, floor, reachable>>

RedisComesAndGoes ==
    /\ cacheKind = "redis" /\ reachable' = ~reachable
    /\ UNCHANGED <<cacheKind, moment, versions, floor, cached, lookup>>

\* A process that starts again has no calls, and no entries of its own.
RestartProcess ==
    /\ lookup' = [l \in Lookups |-> AtRest]
    /\ cached' = IF cacheKind = "memory" THEN [t \in Tenants |-> Uncached] ELSE cached
    /\ UNCHANGED <<cacheKind, moment, versions, floor, reachable>>

TenantStep ==
    \/ \E l \in Lookups : (\E t \in Tenants : GetConfig(l, t)) \/ LoadRow(l) \/ LoadFails(l) \/ SetConfig(l)
    \/ \E t \in Tenants : \/ \E row \in TenantRows : EditRow(t, row)
                          \/ \E config \in CallerConfigs : CreateConfig(t, config)
                          \/ DeleteTenant(t) \/ InvalidateConfig(t)

TenantNext == TenantStep \/ PassTime \/ RedisComesAndGoes \/ RestartProcess
TenantSpec == TenantInit /\ [][TenantNext]_tenantVars

----------------------------------------------------------------------------
Answered == {lookup[l] : l \in {k \in Lookups : lookup[k].at = "answered"}}

\* With Redis a config that get_config answers was read from the row no longer
\* ago than the TTL and the time between a load and its set.
StaleConfigBounded ==
    cacheKind = "redis" => \A a \in Answered : a.age <= ConfigTtl + SetDelay

\* The row of which a config was answered: create_config's has none.
SaysRow(a) == a.made \/ a.config = BuildConfig(versions[a.tenant][a.version], a.tenant)

\* After invalidate_cache no call answers a config of a row that had been replaced by
\* then, unless it, or a call that was just caching one, had read it before: whatever
\* readers, edits, expiry and restarts come between, the answer is what a row of the
\* tenant says that is no older.
InvalidationHolds == \A a \in Answered : SaysRow(a) /\ a.version >= a.floor

\* A tenant's configuration is that of a row it had, as old as its TTL at most and no
\* older than its last invalidation.
ConfigsCurrent == StaleConfigBounded /\ InvalidationHolds
=============================================================================
