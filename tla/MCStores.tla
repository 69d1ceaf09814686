------------------------------ MODULE MCStores ------------------------------
(* Instances for TLC of the components that keep data: the re-embedding     *)
(* jobs, the search stores, the document registry, the tokens, the shared   *)
(* records, the tenant configuration and the retrieval caches. They share   *)
(* nothing here: a behaviour plays one of them, its scene, while the others *)
(* rest in a state they start in.                                           *)
EXTENDS Reembed, SearchStores, DocumentRegistry, AuthTokens, Records, TenantConfig,
        SharedCache, TLC

CONSTANTS d1, d2, d3, t1, t2, h1, h2, shared, own, x1, x2, u1, u2

VARIABLE scene

playVars == <<scene, reVars, storesVars, registryVars, tokenVars, recordVars, tenantVars,
              cacheVars>>

Scenes == {"reembed", "stores", "registry", "tokens", "records", "tenants", "cache"}

----------------------------------------------------------------------------
(* The instances.                                                          *)

MCAclOf == d1 :> {"visibility", "owner_id"} @@ d2 :> {"visibility", "denied_users"}
           @@ d3 :> {"allowed_groups"}
MCChunksOf == d1 :> 3 @@ d2 :> 2 @@ d3 :> 1

Chunk(document, tenant, source, title) ==
    [document |-> document, tenant |-> tenant, source |-> source, title |-> title]
MCStored == "c1" :> Chunk("d1", "t1", "file", "T") @@ "c2" :> Chunk("d1", "t1", "file", "T")
            @@ "c3" :> Chunk("d2", "t2", NoValue, NoValue)
MCRelevance == "q1" :> ("c1" :> 3 @@ "c2" :> 1 @@ "c3" :> 2)
               @@ "q2" :> ("c1" :> 0 @@ "c2" :> 2 @@ "c3" :> 1)
MCStoreTopK == [semantic |-> 2, keyword |-> 2]
Filter(source, document) == [source |-> source, document |-> document]
MCFilters == {Filter(NoValue, NoValue), Filter("file", "d1")}

MCOwner == d1 :> t1 @@ d2 :> t1 @@ d3 :> t1
Deletion(tenant, hard, batch, ids) ==
    [tenant |-> tenant, hard |-> hard, batch |-> batch, ids |-> ids]
MCDeletions ==
    {Deletion(t1, h, FALSE, <<d1>>) : h \in BOOLEAN}
    \cup {Deletion(t1, h, TRUE, <<d2, d1>>) : h \in BOOLEAN}
    \cup {Deletion(t1, TRUE, TRUE, <<d1, d1>>), Deletion(t1, FALSE, TRUE, <<>>),
          Deletion(t2, TRUE, TRUE, <<d1>>)}

MCLayouts == {h1 :> shared @@ h2 :> shared, h1 :> own @@ h2 :> NoList}

MCDates == {<<2024, 12, 31>>, <<2025, 1, 1>>}
MCMonths == {<<2024, 12>>, <<2025, 0>>}

MCCallerConfigs ==
    {[tenant |-> x1, mode |-> "shared", collection |-> "mine", index |-> "documents"]}
TenantRow(mode, c, i) == [mode |-> mode, collection |-> c, index |-> i, deleted |-> FALSE]
MCTenantRows ==
    {TenantRow("shared", Unnamed, "own"), TenantRow("dedicated", "own", Unnamed),
     TenantRow("Dedicated", Unnamed, "own")}

CachedQuery(t, text, u) == [tenant |-> t, text |-> text, user |-> u]
MCQueries == {CachedQuery(x1, "a", u1), CachedQuery(x1, "a", u2), CachedQuery(x2, "a", u1)}

----------------------------------------------------------------------------
(* The play.                                                               *)

\* Bound: where the counters are read as well, one command that writes is enough.
MeteredWrites == 1

\* Of the states a component may start in, one is enough while it rests.
PlayInit ==
    /\ scene \in Scenes
    /\ ReInit /\ (scene # "reembed" => documents = <<d1, d2, d3>>)
    /\ StoresInit /\ RegistryInit
    /\ TokInit /\ (scene # "tokens" => listOf[h2] = NoList)
    /\ RecordsInit /\ (scene # "records" => family = CHOOSE f \in Families : TRUE)
    /\ TenantInit /\ (scene # "tenants" => cacheKind = "redis" /\
                        \A x \in Tenants : versions[x] = <<TenantRow("shared", Unnamed, "own")>>)
    /\ CacheInit /\ (scene # "cache" => usedAs = CHOOSE u \in Uses : TRUE)

\* Only the scene s moves.
Alone(s) ==
    /\ scene = s /\ UNCHANGED scene
    /\ IF s = "reembed" THEN TRUE ELSE UNCHANGED reVars
    /\ IF s = "stores" THEN TRUE ELSE UNCHANGED storesVars
    /\ IF s = "registry" THEN TRUE ELSE UNCHANGED registryVars
    /\ IF s = "tokens" THEN TRUE ELSE UNCHANGED tokenVars
    /\ IF s = "records" THEN TRUE ELSE UNCHANGED recordVars
    /\ IF s = "tenants" THEN TRUE ELSE UNCHANGED tenantVars
    /\ IF s = "cache" THEN TRUE ELSE UNCHANGED cacheVars

PlayNext ==
    \/ Alone("reembed") /\ ReNext
    \/ Alone("stores") /\ StoresNext
    \/ Alone("registry") /\ RegistryNext
    \/ Alone("tokens") /\ TokNext
    \/ Alone("records") /\ RecordsNext
    \/ Alone("tenants") /\ TenantNext
    \/ Alone("cache") /\ CacheNext /\ (usedAs.metered => writes' <= MeteredWrites)

PlaySpec == PlayInit /\ [][PlayNext]_playVars
=============================================================================
