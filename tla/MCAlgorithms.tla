---------------------------- MODULE MCAlgorithms ----------------------------
(* Instances for TLC of the modules that model what the code computes: the  *)
(* access checks and filters, fusion, aggregation and reranking, chunking,  *)
(* roles and permissions, and the text of queries, cache keys and filters.  *)
(* A behaviour is one input of one of them.                                 *)
EXTENDS AccessControl, Ranking, Chunking, Permissions, RequestText, TLC

CONSTANTS u1, t1, t2, g1, g2, d1, d2, s2, i1, i2, i3, s1, h1, k1, k2

pureVars == <<access, ranking, chunking, permit, vetted>>

----------------------------------------------------------------------------
(* The instances.                                                          *)

MCRequesters == {u \in UserContexts : u.id = u1 /\ u.tenant = t1}

MCAclConfigs ==
    {DefaultConfig, [DefaultConfig EXCEPT !.enabled = FALSE],
     [DefaultConfig EXCEPT !.adminBypass = FALSE],
     [DefaultConfig EXCEPT !.adminBypass = FALSE, !.superTenant = SuperTenant]}

\* Requests name the visibility, the tenant and two exact subfields, too.
MCCustom ==
    ("visibility" :> {"tenant", "group"}) @@ ("tenant_id" :> {t1, t2})
      @@ ("tenant_id.keyword" :> {t1, t2}) @@ ("allowed_groups.keyword" :> {g1})

\* The words of a visibility and the name of g1 are one term each, the name of
\* g2 has the term g1 as well, and identifiers fall into terms none of which is
\* an identifier.
MCAnalysed(v) ==
    IF v \in {"public", "private", "group", "tenant"} \cup {g1} THEN {v}
    ELSE IF v = g2 THEN {g1, g2} ELSE {}

\* Of the conditions, those with at most one value and those with two values
\* in one order; for groups, all.
MCRequested ==
    {c \in RequestConditions :
        \/ c.key = "allowed_groups"
        \/ c.kind = "value"
        \/ c.values \in {<<s1>>, <<s1, s2>>, <<d2, d1>>, <<"tenant", "group">>, <<t2, t1>>}
           /\ c.key # "tenant_id.keyword"}

MCWeights == {<<1, 1>>, <<7, 3>>, <<0, 1>>}
MCDocumentOf == i1 :> 1 @@ i2 :> 1 @@ i3 :> 2

\* The lines that one text mixes: three pairs take six of them.
MCFamilies ==
    {"q", "a0", "prose"} :> 6 @@ {"headq", "prose"} :> 6 @@ {"headq", "head", "prose"} :> 5
      @@ {"ask", "prose", "blank"} :> 6 @@ {"fence", "row", "bar"} :> 5
      @@ {"row", "bar", "odd"} :> 5 @@ {"fence", "prose", "row"} :> 5
      @@ {"prose", "row", "bar"} :> 5 @@ {"q", "prose", "row"} :> 5

\* No roles, one of any spelling, or two of which one is in lower case.
MCRoleSets ==
    {{}} \cup {{r} : r \in Spellings}
    \cup {{r, s} : r \in [name : {"analyst", "service", "reader", "owner"}, lower : {TRUE}],
                   s \in {x \in Spellings : x.lower}}
MCClaims ==
    {c \in [sub : {s1}, tenant : {h1}, roles : MCRoleSets, groups : SUBSET {k1, k2},
            permissions : SUBSET {<<"admin", "access">>, <<"document", "delete">>,
                                  <<"super", "admin">>, <<"x", "y">>}] :
        /\ Cardinality(c.permissions) <= 1
        /\ c.groups # {} => Cardinality(c.roles) < 2 /\ c.permissions = {}}
MCAllowLists == SUBSET {k1, k2}
MCRequired ==
    {<<"document", "delete">>, <<"audit", "read">>, <<"ingestion", "submit">>, <<"super", "admin">>}

----------------------------------------------------------------------------

PureInit == AccessInit /\ RankInit /\ ChunkInit /\ PermInit /\ TextInit

\* The modules other than m have not begun.
Others(m) ==
    /\ IF m = "access" THEN TRUE ELSE access = NoAccess /\ UNCHANGED access
    /\ IF m = "ranking" THEN TRUE ELSE ranking.kind = "none" /\ UNCHANGED ranking
    /\ IF m = "chunking" THEN TRUE ELSE chunking.kind = "none" /\ UNCHANGED chunking
    /\ IF m = "permit" THEN TRUE ELSE permit.kind = "none" /\ UNCHANGED permit
    /\ IF m = "vetted" THEN TRUE ELSE vetted = Unvetted /\ UNCHANGED vetted

PureNext ==
    \/ Others("access") /\ AccessNext
    \/ Others("ranking") /\ RankNext
    \/ Others("chunking") /\ ChunkNext
    \/ Others("permit") /\ PermNext
    \/ Others("vetted") /\ TextNext

PureSpec == PureInit /\ [][PureNext]_pureVars
=============================================================================
