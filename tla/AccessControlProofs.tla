------------------------ MODULE AccessControlProofs ------------------------
(* Proofs about AccessControl: the checks and the filters agree for every   *)
(* set of users, groups, tenants and documents; and about Permissions: the  *)
(* readings of roles and claims agree for every set of claims and routes;   *)
(* and about QueryEmbedding: the vectors a caller is given are those of its *)
(* texts, for every query, batch size and order of the replies (EmbedInv);  *)
(* and about Ranking: fusion, aggregation and reranking respect the scores, *)
(* for lists of any length (RankInv); and about RequestText: texts of any   *)
(* length, filters and cache keys are read alike wherever they are read.    *)
EXTENDS AccessControl, Permissions, QueryEmbedding, Ranking, RequestText,
        FiniteSetTheorems, FunctionTheorems, SequenceTheorems, WellFoundedInduction, TLAPS

\* The direct checks are two writings of one predicate.
LEMMA SameVerdict ==
    ASSUME NEW config, NEW user, NEW doc
    PROVE EvaluateAccess(config, user, doc) <=> CanAccess(config, user, doc)
<1>1. CASE ~config.enabled
    BY <1>1 DEF EvaluateAccess, CanAccess
<1>2. CASE config.enabled /\ config.adminBypass /\ user.admin
    BY <1>2 DEF EvaluateAccess, CanAccess
<1>3. CASE ~(~config.enabled) /\ ~(config.enabled /\ config.adminBypass /\ user.admin)
    BY <1>3 DEF EvaluateAccess, CanAccess, Denied, Shares
<1> QED BY <1>1, <1>2, <1>3

\* What a condition with one value, or with the values of a set, matches.
LEMMA MatchOne ==
    ASSUME NEW key, NEW v, NEW doc
    PROVE /\ Matches(ValueOf(key, v), doc) <=> v \in Field(doc, key)
          /\ Matches(AnyOf(key, <<v>>), doc) <=> v \in Field(doc, key)
<1>1. DOMAIN <<v>> = {1} /\ <<v>>[1] = v
    OBVIOUS
<1> QED BY <1>1 DEF Matches, ValueOf, AnyOf

\* The fields of a document one by one.
LEMMA Fields ==
    ASSUME NEW doc
    PROVE /\ Field(doc, "status") = {doc.status}
          /\ Field(doc, "tenant_id") = {doc.tenant}
          /\ Field(doc, "visibility") = {doc.acl.visibility}
          /\ Field(doc, "allowed_groups") = doc.acl.allowedGroups
          /\ Field(doc, "allowed_users") = doc.acl.allowedUsers
          /\ Field(doc, "denied_groups") = doc.acl.deniedGroups
          /\ Field(doc, "denied_users") = doc.acl.deniedUsers
          /\ Field(doc, "owner_id") = {doc.acl.owner}
BY DEF Field

LEMMA MatchSet ==
    ASSUME NEW key, NEW S, NEW doc
    PROVE Matches(AnyOfSet(key, S), doc) <=> Shares(S, Field(doc, key))
BY DEF Matches, AnyOfSet, Shares

\* A live document that can_access grants to a reader who is neither exempt
\* nor an administrator with the bypass passes the clauses of build_acl_clauses.
LEMMA ClausesComplete ==
    ASSUME NEW config \in Configs, NEW user \in UserContexts, NEW doc,
           doc.acl \in FullAcls, doc.status = "active",
           IsSuperTenant(config, user.tenant) \/ user.tenant = doc.tenant,
           ~Denied(user, doc.acl), Granted(user, doc.acl)
    PROVE QdrantMatches(AclClauses(config, user), doc)
<1> DEFINE f == AclClauses(config, user)
<1>1. \A c \in f.must : Matches(c, doc)
  <2>1. Matches(ValueOf("status", "active"), doc)
      BY MatchOne, Fields
  <2>2. ~IsSuperTenant(config, user.tenant) => Matches(ValueOf("tenant_id", user.tenant), doc)
      BY MatchOne, Fields
  <2> QED BY <2>1, <2>2 DEF AclClauses
<1>2. \A c \in f.mustNot : ~Matches(c, doc)
  <2>1. ~Matches(AnyOf("denied_users", <<user.id>>), doc)
      BY MatchOne, Fields DEF Denied
  <2>2. ~Matches(AnyOfSet("denied_groups", user.groups), doc)
      BY MatchSet, Fields DEF Denied
  <2> QED BY <2>1, <2>2 DEF AclClauses
<1>3. \E c \in f.should : Matches(c, doc)
  <2>1. CASE doc.acl.visibility = "public"
    <3>1. Matches(ValueOf("visibility", "public"), doc)
        BY <2>1, MatchOne, Fields
    <3> QED BY <3>1 DEF AclClauses
  <2>2. CASE doc.acl.visibility = "tenant"
    <3>1. Matches(ValueOf("visibility", "tenant"), doc)
        BY <2>2, MatchOne, Fields
    <3> QED BY <3>1 DEF AclClauses
  <2>3. CASE Shares(user.groups, doc.acl.allowedGroups)
    <3>1. Matches(AnyOfSet("allowed_groups", user.groups), doc)
        BY <2>3, MatchSet, Fields
    <3>2. user.groups # {}
        BY <2>3 DEF Shares
    <3> QED BY <3>1, <3>2 DEF AclClauses
  <2>4. CASE user.id \in doc.acl.allowedUsers
    <3>1. Matches(AnyOf("allowed_users", <<user.id>>), doc)
        BY <2>4, MatchOne, Fields
    <3> QED BY <3>1 DEF AclClauses
  <2>5. CASE doc.acl.owner = user.id
    <3>1. Matches(ValueOf("owner_id", user.id), doc)
        BY <2>5, MatchOne, Fields
    <3> QED BY <3>1 DEF AclClauses
  <2> QED BY <2>1, <2>2, <2>3, <2>4, <2>5 DEF Granted
<1> QED BY <1>1, <1>2, <1>3 DEF QdrantMatches

\* What passes the clauses of build_acl_clauses is live, of the reader's tenant,
\* denied by no list and granted, or private and shared with one of the groups.
LEMMA ClausesTight ==
    ASSUME NEW config \in Configs, NEW user \in UserContexts, NEW doc,
           doc.acl \in FullAcls, QdrantMatches(AclClauses(config, user), doc)
    PROVE  /\ doc.status = "active"
           /\ IsSuperTenant(config, user.tenant) \/ user.tenant = doc.tenant
           /\ ~Denied(user, doc.acl)
           /\ \/ Granted(user, doc.acl)
              \/ doc.acl.visibility = "private" /\ Shares(user.groups, doc.acl.allowedGroups)
<1> DEFINE f == AclClauses(config, user)
<1>1. f.must # {} /\ f.should # {}
  BY DEF AclClauses
<1>2. /\ \A c \in f.must : Matches(c, doc)
      /\ \A c \in f.mustNot : ~Matches(c, doc)
      /\ \E c \in f.should : Matches(c, doc)
  BY <1>1 DEF QdrantMatches, IsEmptyFilter, EmptyFilter
<1>3. doc.status = "active"
  <2>1. Matches(ValueOf("status", "active"), doc)
    BY <1>2 DEF AclClauses
  <2>2. "active" \in Field(doc, "status")
    BY <2>1, MatchOne
  <2>3. Field(doc, "status") = {doc.status}
    BY Fields
  <2> QED
    BY <2>2, <2>3
<1>4. IsSuperTenant(config, user.tenant) \/ user.tenant = doc.tenant
  <2> SUFFICES ASSUME ~IsSuperTenant(config, user.tenant) PROVE user.tenant = doc.tenant
    OBVIOUS
  <2>1. Matches(ValueOf("tenant_id", user.tenant), doc)
    BY <1>2 DEF AclClauses
  <2>2. user.tenant \in Field(doc, "tenant_id")
    BY <2>1, MatchOne
  <2>3. Field(doc, "tenant_id") = {doc.tenant}
    BY Fields
  <2> QED
    BY <2>2, <2>3
<1>5. ~Denied(user, doc.acl)
  <2>1. ~Matches(AnyOf("denied_users", <<user.id>>), doc)
    BY <1>2 DEF AclClauses
  <2>2. user.groups # {} => ~Matches(AnyOfSet("denied_groups", user.groups), doc)
    BY <1>2 DEF AclClauses
  <2>3. user.id \notin doc.acl.deniedUsers
    BY <2>1, MatchOne, Fields
  <2>4. ~Shares(user.groups, doc.acl.deniedGroups)
    BY <2>2, MatchSet, Fields DEF Shares
  <2> QED
    BY <2>3, <2>4 DEF Denied
<1>6. \/ Matches(ValueOf("visibility", "public"), doc)
      \/ Matches(ValueOf("visibility", "tenant"), doc)
      \/ Matches(AnyOf("allowed_users", <<user.id>>), doc)
      \/ Matches(ValueOf("owner_id", user.id), doc)
      \/ Matches(AnyOfSet("allowed_groups", user.groups), doc)
  BY <1>2 DEF AclClauses
<1>7. \/ doc.acl.visibility \in {"public", "tenant"}
      \/ user.id \in doc.acl.allowedUsers
      \/ doc.acl.owner = user.id
      \/ Shares(user.groups, doc.acl.allowedGroups)
  <2>1. \/ "public" \in Field(doc, "visibility")
        \/ "tenant" \in Field(doc, "visibility")
        \/ user.id \in Field(doc, "allowed_users")
        \/ user.id \in Field(doc, "owner_id")
        \/ Shares(user.groups, Field(doc, "allowed_groups"))
    BY <1>6, MatchOne, MatchSet
  <2>2. /\ Field(doc, "visibility") = {doc.acl.visibility}
        /\ Field(doc, "allowed_users") = doc.acl.allowedUsers
        /\ Field(doc, "owner_id") = {doc.acl.owner}
        /\ Field(doc, "allowed_groups") = doc.acl.allowedGroups
    BY Fields
  <2> QED
    BY <2>1, <2>2
<1>8. doc.acl.visibility \in {"public", "private", "group", "tenant"}
  BY DEF FullAcls, Visibility
<1>9. \/ Granted(user, doc.acl)
      \/ doc.acl.visibility = "private" /\ Shares(user.groups, doc.acl.allowedGroups)
  BY <1>7, <1>8 DEF Granted
<1> QED
  BY <1>3, <1>4, <1>5, <1>9

\* A filter merged with the empty one matches what it matched.
LEMMA MergeEmpty ==
    ASSUME NEW config, NEW user
    PROVE /\ BuildFilter(config, user, EmptyFilter) =
               IF ~config.enabled \/ (config.adminBypass /\ user.admin) THEN EmptyFilter
               ELSE AclClauses(config, user)
BY DEF BuildFilter, Merge, EmptyFilter, AclClauses

\* The two translations of a filter select the same documents.
LEMMA SameDocuments ==
    ASSUME NEW f, f = [must |-> f.must, should |-> f.should, mustNot |-> f.mustNot], NEW doc
    PROVE QdrantMatches(f, doc) <=> OpenSearchMatches(OpenSearchClauses(f), doc)
<1> DEFINE term(c) == [op |-> "term", of |-> {c}]
           should == [op |-> "should", of |-> f.should]
           mustNot == [op |-> "must_not", of |-> f.mustNot]
           holds(clause) ==
             CASE clause.op = "term"     -> \A c \in clause.of : Matches(c, doc)
               [] clause.op = "should"   -> \E c \in clause.of : Matches(c, doc)
               [] clause.op = "must_not" -> \A c \in clause.of : ~Matches(c, doc)
<1>1. \A c : holds(term(c)) <=> Matches(c, doc)
    OBVIOUS
<1>2. holds(should) <=> \E c \in f.should : Matches(c, doc)
    OBVIOUS
<1>3. holds(mustNot) <=> \A c \in f.mustNot : ~Matches(c, doc)
    OBVIOUS
<1>4. OpenSearchClauses(f) =
        {term(c) : c \in f.must}
          \cup (IF f.should = {} THEN {} ELSE {should})
          \cup (IF f.mustNot = {} THEN {} ELSE {mustNot})
    BY DEF OpenSearchClauses
<1>5. OpenSearchMatches(OpenSearchClauses(f), doc)
        <=> \A clause \in OpenSearchClauses(f) : holds(clause)
    BY DEF OpenSearchMatches
<1> HIDE DEF term, should, mustNot, holds
<1>6. OpenSearchMatches(OpenSearchClauses(f), doc)
        <=> /\ \A c \in f.must : Matches(c, doc)
            /\ f.should = {} \/ \E c \in f.should : Matches(c, doc)
            /\ f.mustNot = {} \/ \A c \in f.mustNot : ~Matches(c, doc)
    BY <1>1, <1>2, <1>3, <1>4, <1>5
<1> QED BY <1>6 DEF QdrantMatches, IsEmptyFilter, EmptyFilter

LEMMA BuiltFilter ==
    ASSUME NEW config, NEW user
    PROVE LET f == BuildFilter(config, user, EmptyFilter)
          IN f = [must |-> f.must, should |-> f.should, mustNot |-> f.mustNot]
BY DEF BuildFilter, Merge

----------------------------------------------------------------------------
\* Every check the specification makes is of a document with an ACL.
AccessTypeOK == access \in {NoAccess} \cup AclChecks \cup FilterChecks

LEMMA AccessTyped == AccessSpec => []AccessTypeOK
<1>1. AccessInit => AccessTypeOK
    BY DEF AccessInit, AccessTypeOK
<1>2. AccessTypeOK /\ [AccessNext]_access => AccessTypeOK'
    BY DEF AccessTypeOK, AccessNext, CheckAcl, CheckFilter
<1> QED BY <1>1, <1>2, PTL DEF AccessSpec

\* A check of kind "acl" has the parts its operators read.
LEMMA AclCheck ==
    ASSUME AccessTypeOK, access.kind = "acl"
    PROVE /\ access.config \in Configs /\ access.user \in UserContexts
          /\ access.doc.acl \in FullAcls
<1>1. access \in AclChecks
    BY DEF AccessTypeOK, NoAccess, FilterChecks
<1> QED BY <1>1, AccessAssumption DEF AclChecks

\* What can_access grants of the live documents passes build_filter, for
\* every configuration, user and ACL.
THEOREM StoresLoseNothing == AccessSpec => []PrefilterComplete
<1>1. AccessTypeOK => PrefilterComplete
  <2> SUFFICES ASSUME AccessTypeOK, access.kind = "acl", access.doc.status = "active",
                      CanAccess(access.config, access.user, access.doc)
               PROVE QdrantMatches(BuildFilter(access.config, access.user, EmptyFilter),
                                   access.doc)
      BY DEF PrefilterComplete
  <2>1. CASE ~access.config.enabled \/ (access.config.adminBypass /\ access.user.admin)
      BY <2>1, MergeEmpty DEF QdrantMatches, IsEmptyFilter
  <2>2. CASE ~(~access.config.enabled \/ (access.config.adminBypass /\ access.user.admin))
    <3>1. /\ IsSuperTenant(access.config, access.user.tenant)
               \/ access.user.tenant = access.doc.tenant
          /\ ~Denied(access.user, access.doc.acl)
          /\ Granted(access.user, access.doc.acl)
        BY <2>2 DEF CanAccess
    <3>2. QdrantMatches(AclClauses(access.config, access.user), access.doc)
        BY <3>1, ClausesComplete, AclCheck
    <3> QED BY <2>2, <3>2, MergeEmpty
  <2> QED BY <2>1, <2>2
<1> QED BY <1>1, AccessTyped, PTL

\* And what passes build_filter is granted, but for private documents shared
\* with a group of the reader.
THEOREM StoresAddLittle == AccessSpec => []PrefilterTight
<1>1. AccessTypeOK => PrefilterTight
  <2> DEFINE open == ~access.config.enabled \/ (access.config.adminBypass /\ access.user.admin)
  <2> SUFFICES ASSUME AccessTypeOK, access.kind = "acl",
                      QdrantMatches(BuildFilter(access.config, access.user, EmptyFilter), access.doc)
               PROVE  \/ /\ IsEmptyFilter(BuildFilter(access.config, access.user, EmptyFilter))
                         /\ CanAccess(access.config, access.user, access.doc)
                      \/ /\ access.doc.status = "active"
                         /\ \/ CanAccess(access.config, access.user, access.doc)
                            \/ /\ access.doc.acl.visibility = "private"
                               /\ Shares(access.user.groups, access.doc.acl.allowedGroups)
    BY DEF PrefilterTight
  <2>1. CASE open
    BY <2>1, MergeEmpty DEF IsEmptyFilter, CanAccess
  <2>2. CASE ~open
    <3>1. QdrantMatches(AclClauses(access.config, access.user), access.doc)
      BY <2>2, MergeEmpty
    <3>2. /\ access.config \in Configs /\ access.user \in UserContexts
          /\ access.doc.acl \in FullAcls
      BY AclCheck
    <3> QED
      BY <3>1, <3>2, ClausesTight DEF CanAccess
  <2> QED
    BY <2>1, <2>2
<1> QED
  BY <1>1, AccessTyped, PTL

\* The routes' checks give the verdict of can_access wherever the tenant, the
\* configuration and, for explain, the lists decide nothing.
THEOREM RoutesCheckAlike == AccessSpec => []RoutesAgree
<1>1. AccessTypeOK => RoutesAgree
  <2> DEFINE acl == access.doc.acl
  <2> SUFFICES ASSUME AccessTypeOK, access.kind = "acl", access.config.enabled,
                      IsSuperTenant(access.config, access.user.tenant)
                        \/ access.user.tenant = access.doc.tenant,
                      access.user.admin => access.config.adminBypass
               PROVE  /\ CanAccessFull(access.user, acl)
                            <=> CanAccess(access.config, access.user, access.doc)
                      /\ /\ acl.owner # access.user.id /\ access.user.id \notin acl.allowedUsers
                         /\ ~Denied(access.user, acl)
                         => (CanAccessFull(access.user, acl) <=> CanAccessBasic(access.user, acl))
    BY DEF RoutesAgree
  <2>1. CanAccessFull(access.user, acl) <=> CanAccess(access.config, access.user, access.doc)
    BY DEF CanAccessFull, CanAccess
  <2>2. ASSUME acl.owner # access.user.id, access.user.id \notin acl.allowedUsers,
               ~Denied(access.user, acl)
        PROVE  CanAccessFull(access.user, acl) <=> CanAccessBasic(access.user, acl)
    BY <2>2 DEF CanAccessFull, CanAccessBasic, Granted
  <2> QED
    BY <2>1, <2>2
<1> QED
  BY <1>1, AccessTyped, PTL

\* Qdrant and OpenSearch select the same documents from the filter the
\* retrieval service builds.
THEOREM StoresReadAlike == AccessSpec => []BuildersAgree
<1>1. BuildersAgree
    BY SameDocuments, BuiltFilter DEF BuildersAgree
<1> QED BY <1>1, PTL

\* The three writings of the direct check give one verdict.
THEOREM OneVerdict == AccessSpec => []ChecksAgree
<1>1. AccessTypeOK => ChecksAgree
  <2> SUFFICES ASSUME AccessTypeOK, access.kind = "acl"
               PROVE LET verdict == CanAccess(access.config, access.user, access.doc)
                     IN /\ EvaluateAccess(access.config, access.user, access.doc) <=> verdict
                        /\ (access.doc \in FilterResults(access.config, access.user,
                                                        {access.doc})) <=> verdict
      BY DEF ChecksAgree
  <2>1. EvaluateAccess(access.config, access.user, access.doc)
          <=> CanAccess(access.config, access.user, access.doc)
      BY SameVerdict
  <2>2. access.doc \in FilterResults(access.config, access.user, {access.doc})
          <=> CanAccess(access.config, access.user, access.doc)
      BY DEF FilterResults, CanAccess
  <2> QED BY <2>1, <2>2
<1> QED BY <1>1, AccessTyped, PTL

\* The tenant that the keyword search asks for stays unless a filter is under
\* its key.
LEMMA TenantSent ==
    ASSUME NEW user, NEW conditions,
           \A i \in DOMAIN conditions : conditions[i].key # "tenant_id.keyword"
    PROVE  ValueOf("tenant_id.keyword", user.tenant)
              \in KeywordFilter(user, ConvertKeywordFilters(conditions))
<1> DEFINE custom == CustomConditions(conditions)
<1>1. \A c \in custom : c.key # "tenant_id.keyword"
  <2> SUFFICES ASSUME NEW c \in custom PROVE c.key # "tenant_id.keyword"
    OBVIOUS
  <2>1. PICK i \in DOMAIN conditions : c = ValueOf(conditions[i].key, conditions[i].values[1])
    BY DEF CustomConditions
  <2>2. c.key = conditions[i].key
    BY <2>1 DEF ValueOf
  <2> QED
    BY <2>2
<1>2. ConvertKeywordFilters(conditions).custom = custom
  BY DEF ConvertKeywordFilters, ConvertFilters
<1>3. ValueOf("tenant_id.keyword", user.tenant).key = "tenant_id.keyword"
  BY DEF ValueOf
<1> HIDE DEF custom
<1> QED
  BY <1>1, <1>2, <1>3 DEF KeywordFilter

\* The exact subfield of the tenant holds the document's tenant.
LEMMA TenantTerm ==
    ASSUME NEW doc PROVE Terms(doc, "tenant_id.keyword") = {doc.tenant}
<1>1. "tenant_id.keyword" \in DOMAIN ExactSubfields /\ ExactSubfields["tenant_id.keyword"] = "tenant_id"
  BY DEF ExactSubfields
<1> QED
  BY <1>1, Fields DEF Terms

\* A check of either kind has a document with an ACL.
LEMMA CheckTyped ==
    ASSUME AccessTypeOK, access.kind \in {"acl", "filter"}
    PROVE  access.doc = [access.doc EXCEPT !.tenant = access.doc.tenant]
           /\ "tenant" \in DOMAIN access.doc
<1>1. access \in AclChecks \cup FilterChecks
  BY DEF AccessTypeOK, NoAccess
<1>2. ASSUME access \in AclChecks
      PROVE  access.doc = [access.doc EXCEPT !.tenant = access.doc.tenant]
             /\ "tenant" \in DOMAIN access.doc
  BY <1>2 DEF AclChecks
<1>3. ASSUME access \in FilterChecks
      PROVE  access.doc = [access.doc EXCEPT !.tenant = access.doc.tenant]
             /\ "tenant" \in DOMAIN access.doc
  <2>1. access.doc \in FilterDocs
    BY <1>3 DEF FilterChecks
  <2> DEFINE acls == {[PlainAcl EXCEPT !.visibility = v, !.allowedGroups = G] :
                         v \in Visibility \ {"public"}, G \in SUBSET Groups}
  <2>2. FilterDocs = [tenant : Tenants, status : {"active"}, id : {SomeDoc},
                      source : {SomeSource}, acl : acls]
    BY DEF FilterDocs
  <2> HIDE DEF acls
  <2> QED
    BY <2>1, <2>2
<1> QED
  BY <1>1, <1>2, <1>3

\* An answer holds only documents that the reference check grants but for their
\* tenant, and only those of the user's tenant unless a filter names the field
\* of the keyword search's tenant, whatever the stores return.
THEOREM AnswersSafe == AccessSpec => []AnswersAuthorised
<1>1. AccessTypeOK => AnswersAuthorised
  <2> DEFINE user == access.user
             doc == access.doc
             filters == ConvertFilters(access.conditions)
             keyword == KeywordFilter(user, ConvertKeywordFilters(access.conditions))
  <2> SUFFICES ASSUME AccessTypeOK, access.kind \in {"acl", "filter"},
                      Answered(user, access.conditions, doc)
               PROVE  /\ CanAccess(DefaultConfig, user, [doc EXCEPT !.tenant = user.tenant])
                      /\ \/ doc.tenant = user.tenant
                         \/ \E i \in DOMAIN access.conditions :
                               access.conditions[i].key = "tenant_id.keyword"
    BY DEF AnswersAuthorised
  <2>1. \/ QdrantMatches(SemanticFilter(user, filters), doc)
        \/ KeywordMatches(keyword, doc)
    BY DEF Answered, Found
  <2>2. ASSUME QdrantMatches(SemanticFilter(user, filters), doc)
        PROVE  doc.tenant = user.tenant
    <3>1. ValueOf("tenant_id", user.tenant) \in SemanticFilter(user, filters).must
      BY DEF SemanticFilter
    <3>2. Matches(ValueOf("tenant_id", user.tenant), doc)
      BY <2>2, <3>1 DEF QdrantMatches, IsEmptyFilter, EmptyFilter
    <3>3. user.tenant \in Field(doc, "tenant_id")
      BY <3>2, MatchOne
    <3>4. Field(doc, "tenant_id") = {doc.tenant}
      BY Fields
    <3> QED
      BY <3>3, <3>4
  <2>3. ASSUME KeywordMatches(keyword, doc),
               \A i \in DOMAIN access.conditions : access.conditions[i].key # "tenant_id.keyword"
        PROVE  doc.tenant = user.tenant
    <3> DEFINE sent == ValueOf("tenant_id.keyword", user.tenant)
    <3>1. sent \in keyword
      BY <2>3, TenantSent
    <3>2. \E i \in DOMAIN sent.values : sent.values[i] \in Terms(doc, sent.key)
      BY <2>3, <3>1 DEF KeywordMatches
    <3>3. sent.values = <<user.tenant>> /\ sent.key = "tenant_id.keyword"
      BY DEF ValueOf
    <3>4. DOMAIN <<user.tenant>> = {1} /\ <<user.tenant>>[1] = user.tenant
      OBVIOUS
    <3>5. user.tenant \in Terms(doc, "tenant_id.keyword")
      BY <3>2, <3>3, <3>4
    <3> QED
      BY <3>5, TenantTerm
  <2>4. CanAccess(DefaultConfig, user, [doc EXCEPT !.tenant = user.tenant])
    <3>1. CanAccessFull(user, doc.acl)
      BY DEF Answered
    <3>2. [doc EXCEPT !.tenant = user.tenant].acl = doc.acl
          /\ [doc EXCEPT !.tenant = user.tenant].tenant = user.tenant
      BY CheckTyped
    <3> QED
      BY <3>1, <3>2 DEF CanAccessFull, CanAccess, DefaultConfig
  <2> QED
    BY <2>1, <2>2, <2>3, <2>4
<1> QED
  BY <1>1, AccessTyped, PTL

\* The writings of the rule agree on every document and user, each where it is
\* meant to.
THEOREM OneRuleHolds == AccessSpec => []OneRule
<1>1. /\ ChecksAgree /\ RoutesAgree /\ PrefilterComplete /\ PrefilterTight /\ BuildersAgree
      => OneRule
  BY DEF OneRule
<1> QED
  BY <1>1, OneVerdict, RoutesCheckAlike, StoresLoseNothing, StoresAddLittle, StoresReadAlike, PTL

----------------------------------------------------------------------------
(* The two searches of one request.                                        *)

\* A set of places of a sequence has a last one.
LEMMA LastPlace ==
    ASSUME NEW n \in Nat, NEW S \in SUBSET (1..n), S # {}
    PROVE  Max(S) \in S
<1> DEFINE T == {n - i : i \in S}
<1>1. T # {} /\ T \subseteq Nat
  <2>1. PICK i \in S : TRUE
    OBVIOUS
  <2>2. n - i \in T
    BY <2>1
  <2>3. \A j \in S : n - j \in Nat
    OBVIOUS
  <2> QED
    BY <2>2, <2>3
<1>2. PICK x \in T : \A y \in T : ~(<<y, x>> \in OpToRel(<, Nat))
  BY <1>1, NatLessThanWellFounded, WFMin
<1>3. OpToRel(<, Nat) = {ss \in Nat \X Nat : ss[1] < ss[2]}
  BY DEF OpToRel
<1>4. \A y \in T : x <= y
  <2> SUFFICES ASSUME NEW y \in T, y < x PROVE FALSE
    BY <1>1
  <2>1. <<y, x>> \in {ss \in Nat \X Nat : ss[1] < ss[2]}
    BY <1>1
  <2> QED
    BY <1>2, <1>3, <2>1
<1>5. PICK i \in S : x = n - i
  OBVIOUS
<1>6. \A j \in S : i >= j
  BY <1>4, <1>5
<1> QED
  BY <1>6 DEF Max

\* A bounded sequence is a sequence.
LEMMA SeqOfSeq ==
    ASSUME NEW S, NEW n \in Nat, NEW s \in SeqOf(S, n)
    PROVE  s \in Seq(S)
<1>1. PICK m \in 0..n : s \in [1..m -> S]
  BY DEF SeqOf
<1> QED
  BY <1>1

\* The values that a conversion takes are those of one of the conditions on the
\* key, if there is any.
LEMMA ValuesTaken ==
    ASSUME NEW S, NEW conditions \in Seq(S), NEW key, NEW kinds,
           LastValues(conditions, key, kinds) # <<>>
    PROVE  \E i \in DOMAIN conditions :
              /\ conditions[i].key = key
              /\ conditions[i].values = LastValues(conditions, key, kinds)
<1> DEFINE at == {i \in DOMAIN conditions : conditions[i].key = key /\ conditions[i].kind \in kinds}
<1>1. at # {}
  BY DEF LastValues
<1>2. at \in SUBSET (1..Len(conditions)) /\ Len(conditions) \in Nat
  OBVIOUS
<1>3. Max(at) \in at
  BY <1>1, <1>2, LastPlace
<1>4. LastValues(conditions, key, kinds) = conditions[Max(at)].values
  BY <1>1 DEF LastValues
<1> QED
  BY <1>3, <1>4

\* A condition of a request has a sequence of values.
LEMMA ConditionTyped ==
    ASSUME NEW c \in RequestConditions
    PROVE  \E S : c.values \in Seq(S)
<1>1. PICK k : \/ \E v \in RequestValues(k) : c = ValueOf(k, v)
               \/ \E vs \in SeqOf(RequestValues(k), 2) : c = AnyOf(k, vs)
  BY DEF RequestConditions
<1>2. CASE \E v \in RequestValues(k) : c = ValueOf(k, v)
  <2>1. PICK v \in RequestValues(k) : c = ValueOf(k, v)
    BY <1>2
  <2>2. c.values = <<v>> /\ <<v>> \in Seq(RequestValues(k))
    BY <2>1 DEF ValueOf
  <2> QED
    BY <2>2
<1>3. CASE \E vs \in SeqOf(RequestValues(k), 2) : c = AnyOf(k, vs)
  <2>1. PICK vs \in SeqOf(RequestValues(k), 2) : c = AnyOf(k, vs)
    BY <1>3
  <2>2. c.values = vs
    BY <2>1 DEF AnyOf
  <2>3. vs \in Seq(RequestValues(k))
    BY SeqOfSeq
  <2> QED
    BY <2>2, <2>3
<1> QED
  BY <1>1, <1>2, <1>3

\* Where the stores read the conditions alike, a value that the keyword store
\* finds of one of them is the document's in Qdrant, too.
LEMMA FoundAlike ==
    ASSUME NEW conditions, NEW doc, ReadAlike(conditions, doc),
           NEW i \in DOMAIN conditions, NEW j \in DOMAIN conditions[i].values,
           conditions[i].values[j] \in Terms(doc, conditions[i].key)
    PROVE  Matches(AnyOf(conditions[i].key, conditions[i].values), doc)
BY DEF ReadAlike, Matches, AnyOf

\* What the keyword search sends of each kind of condition.
LEMMA KeywordSends ==
    ASSUME NEW user, NEW filters, \A d \in filters.custom : d.key \notin NamedKeys
    PROVE  /\ filters.source # <<>> =>
                 AnyOf("source_type", filters.source) \in KeywordFilter(user, filters)
           /\ filters.document # <<>> =>
                 AnyOf("document_id", filters.document) \in KeywordFilter(user, filters)
           /\ filters.groups # <<>> =>
                 ValueOf("allowed_groups", filters.groups[Len(filters.groups)])
                    \in KeywordFilter(user, filters)
           /\ filters.custom \subseteq KeywordFilter(user, filters)
<1>1. AnyOf("source_type", filters.source).key = "source_type"
  BY DEF AnyOf
<1>2. AnyOf("document_id", filters.document).key = "document_id"
  BY DEF AnyOf
<1>3. ValueOf("allowed_groups", filters.groups[Len(filters.groups)]).key = "allowed_groups"
  BY DEF ValueOf
<1>4. \A d \in filters.custom : d.key # "source_type" /\ d.key # "document_id" /\ d.key # "allowed_groups"
  BY DEF NamedKeys
<1>5. filters.source # <<>> => AnyOf("source_type", filters.source) \in KeywordFilter(user, filters)
  BY <1>1, <1>4 DEF KeywordFilter, Unless
<1>6. filters.document # <<>> => AnyOf("document_id", filters.document) \in KeywordFilter(user, filters)
  BY <1>2, <1>4 DEF KeywordFilter, Unless
<1>7. filters.groups # <<>> =>
        ValueOf("allowed_groups", filters.groups[Len(filters.groups)]) \in KeywordFilter(user, filters)
  BY <1>3, <1>4 DEF KeywordFilter, Unless
<1>8. filters.custom \subseteq KeywordFilter(user, filters)
  BY DEF KeywordFilter
<1> QED
  BY <1>5, <1>6, <1>7, <1>8

\* A check of kind "filter" has conditions that a request may carry.
LEMMA FilterCheck ==
    ASSUME AccessTypeOK, access.kind = "filter"
    PROVE  access.conditions \in Seq(RequestConditions)
<1>1. access \in FilterChecks
  BY DEF AccessTypeOK, NoAccess, AclChecks
<1>2. access.conditions \in SeqOf(Requested, MaxConditions)
  BY <1>1 DEF FilterChecks
<1>3. access.conditions \in Seq(Requested)
  BY <1>2, SeqOfSeq, AccessAssumption
<1> QED
  BY <1>3, ConditionsAssumption

\* Of the documents that the semantic search returns without filters, the
\* keyword search returns none that the filters keep from the semantic search,
\* for every list of conditions that the two stores read alike.
THEOREM SearchesAgree == AccessSpec => []KeywordWithinSemantic
<1>1. AccessTypeOK => KeywordWithinSemantic
  <2> DEFINE user == access.user
             doc == access.doc
             conditions == access.conditions
             filters == ConvertFilters(conditions)
             kw == KeywordFilter(user, filters)
             sem == SemanticFilter(user, filters)
             plain == SemanticFilter(user, ConvertFilters(<<>>))
  <2> SUFFICES ASSUME AccessTypeOK, access.kind = "filter", QdrantMatches(plain, doc),
                      ReadAlike(conditions, doc), KeywordMatches(kw, doc)
               PROVE  QdrantMatches(sem, doc)
    BY DEF KeywordWithinSemantic, Found, ConvertKeywordFilters
  <2>1. conditions \in Seq(RequestConditions)
    BY FilterCheck
  <2>2. \A d \in filters.custom : d.key \notin NamedKeys
    <3>1. \A d \in CustomConditions(conditions) : d.key \notin NamedKeys
      BY DEF CustomConditions, ValueOf
    <3> QED
      BY <3>1 DEF ConvertFilters
  <2>3. ASSUME NEW key, NEW kinds, NEW i \in DOMAIN LastValues(conditions, key, kinds),
               LastValues(conditions, key, kinds)[i] \in Terms(doc, key),
               LastValues(conditions, key, kinds) # <<>>
        PROVE  Matches(AnyOf(key, LastValues(conditions, key, kinds)), doc)
    <3>1. PICK n \in DOMAIN conditions :
              conditions[n].key = key /\ conditions[n].values = LastValues(conditions, key, kinds)
      BY <2>1, <2>3, ValuesTaken
    <3> HIDE DEF conditions, doc
    <3> QED
      BY <2>3, <3>1, FoundAlike
  <2>4. \A c \in kw : \E i \in DOMAIN c.values : c.values[i] \in Terms(doc, c.key)
    BY DEF KeywordMatches
  <2>5. /\ filters.source = LastValues(conditions, "source_type", {"value"})
        /\ filters.document = LastValues(conditions, "document_id", {"value"})
        /\ filters.groups = LastValues(conditions, "allowed_groups", {"value", "any"})
        /\ filters.custom = CustomConditions(conditions)
    BY DEF ConvertFilters
  <2> HIDE DEF filters, user, doc, conditions
  <2>6. filters.source # <<>> => Matches(AnyOf("source_type", filters.source), doc)
    <3> SUFFICES ASSUME filters.source # <<>> PROVE Matches(AnyOf("source_type", filters.source), doc)
      OBVIOUS
    <3>1. AnyOf("source_type", filters.source) \in kw
      BY <2>2, KeywordSends
    <3>2. \E i \in DOMAIN filters.source : filters.source[i] \in Terms(doc, "source_type")
      BY <2>4, <3>1 DEF AnyOf
    <3> QED
      BY <2>3, <2>5, <3>2
  <2>7. filters.document # <<>> => Matches(AnyOf("document_id", filters.document), doc)
    <3> SUFFICES ASSUME filters.document # <<>>
                 PROVE Matches(AnyOf("document_id", filters.document), doc)
      OBVIOUS
    <3>1. AnyOf("document_id", filters.document) \in kw
      BY <2>2, KeywordSends
    <3>2. \E i \in DOMAIN filters.document : filters.document[i] \in Terms(doc, "document_id")
      BY <2>4, <3>1 DEF AnyOf
    <3> QED
      BY <2>3, <2>5, <3>2
  <2>8. filters.groups # <<>> => Matches(AnyOf("allowed_groups", filters.groups), doc)
    <3> SUFFICES ASSUME filters.groups # <<>>
                 PROVE Matches(AnyOf("allowed_groups", filters.groups), doc)
      OBVIOUS
    <3> DEFINE last == filters.groups[Len(filters.groups)]
               sent == ValueOf("allowed_groups", last)
    <3>1. sent \in kw
      BY <2>2, KeywordSends
    <3>2. \E i \in DOMAIN sent.values : sent.values[i] \in Terms(doc, sent.key)
      BY <2>4, <3>1
    <3>3. sent.values = <<last>> /\ sent.key = "allowed_groups"
      BY DEF ValueOf
    <3>4. last \in Terms(doc, "allowed_groups")
      <4> HIDE DEF last, sent
      <4>1. DOMAIN <<last>> = {1} /\ <<last>>[1] = last
        OBVIOUS
      <4> QED
        BY <3>2, <3>3, <4>1
    <3>5. Len(filters.groups) \in DOMAIN filters.groups
      <4>1. PICK n \in DOMAIN conditions : conditions[n].values = filters.groups
        BY <2>1, <2>5, ValuesTaken
      <4>2. conditions[n] \in RequestConditions
        BY <2>1, <4>1
      <4>3. PICK S : filters.groups \in Seq(S)
        BY <4>1, <4>2, ConditionTyped
      <4> QED
        BY <4>3
    <3> QED
      BY <2>3, <2>5, <3>4, <3>5
  <2>9. \A c \in filters.custom : Matches(c, doc)
    <3> SUFFICES ASSUME NEW c \in filters.custom PROVE Matches(c, doc)
      OBVIOUS
    <3>1. PICK i \in DOMAIN conditions :
              conditions[i].values # <<>> /\ c = ValueOf(conditions[i].key, conditions[i].values[1])
      BY <2>5 DEF CustomConditions
    <3>2. c \in kw
      BY <2>2, KeywordSends
    <3>3. conditions[i] \in RequestConditions
      BY <2>1, <3>1
    <3>4. PICK S : conditions[i].values \in Seq(S)
      BY <3>3, ConditionTyped
    <3>5. 1 \in DOMAIN conditions[i].values
      BY <3>1, <3>4
    <3> DEFINE k == conditions[i].key
               v == conditions[i].values[1]
    <3>6. \E n \in DOMAIN c.values : c.values[n] \in Terms(doc, c.key)
      BY <2>4, <3>2
    <3>7. c.values = <<v>> /\ c.key = k
      BY <3>1 DEF ValueOf
    <3>8. v \in Terms(doc, k)
      <4> HIDE DEF v, k
      <4>1. DOMAIN <<v>> = {1} /\ <<v>>[1] = v
        OBVIOUS
      <4> QED
        BY <3>6, <3>7, <4>1
    <3>9. v \in Field(doc, k)
      BY <3>5, <3>8 DEF ReadAlike
    <3> QED
      BY <3>1, <3>9, MatchOne
  <2>10. \A c \in sem.must : Matches(c, doc)
    <3>1. ValueOf("tenant_id", user.tenant) \in plain.must
      BY DEF SemanticFilter
    <3>2. Matches(ValueOf("tenant_id", user.tenant), doc)
      BY <3>1 DEF QdrantMatches, IsEmptyFilter, EmptyFilter
    <3>3. sem.must = {ValueOf("tenant_id", user.tenant)}
              \cup Unless(filters.source = <<>>, AnyOf("source_type", filters.source))
              \cup Unless(filters.document = <<>>, AnyOf("document_id", filters.document))
              \cup Unless(filters.groups = <<>>, AnyOf("allowed_groups", filters.groups))
              \cup filters.custom
      BY DEF SemanticFilter
    <3> QED
      BY <2>6, <2>7, <2>8, <2>9, <3>2, <3>3 DEF Unless
  <2>11. sem.should = {} \/ \E c \in sem.should : Matches(c, doc)
    <3>1. sem.should = plain.should
      BY DEF SemanticFilter
    <3>2. plain # EmptyFilter
      BY DEF SemanticFilter, EmptyFilter
    <3> QED
      BY <3>1, <3>2 DEF QdrantMatches, IsEmptyFilter
  <2> QED
    BY <2>10, <2>11 DEF QdrantMatches, SemanticFilter
<1> QED
  BY <1>1, AccessTyped, PTL

----------------------------------------------------------------------------
(* Roles and permissions.                                                  *)

\* Every role grants permissions.
LEMMA GrantsAre ==
    ASSUME NEW r \in Roles
    PROVE  Grants(r) \subseteq Permission
<1>1. \A x : ForResource(x) \subseteq Permission
  BY DEF ForResource
<1>2. AnonymousGrants \subseteq Permission
  BY DEF AnonymousGrants, Permission
<1>3. UserGrants \subseteq Permission
  BY <1>2 DEF UserGrants, Permission
<1>4. AnalystGrants \subseteq Permission
  BY <1>3 DEF AnalystGrants, Permission
<1>5. EngineerGrants \subseteq Permission
  BY <1>4 DEF EngineerGrants, EngineerMore, Permission
<1>6. TenantAdminGrants \subseteq Permission
  <2>1. {<<"document", "delete">>, <<"ingestion", "cancel">>, <<"apikey", "revoke">>,
         <<"audit", "export">>, <<"usage", "read">>, <<"quota", "manage">>} \subseteq Permission
    BY DEF Permission
  <2> QED
    BY <1>1, <1>5, <2>1 DEF TenantAdminGrants
<1>7. AdminGrants \subseteq Permission
  <2>1. <<"admin", "access">> \in Permission
    BY DEF Permission
  <2> QED
    BY <1>6, <2>1 DEF AdminGrants
<1>8. <<"super", "admin">> \in Permission /\ <<"ingestion", "submit">> \in Permission
  BY DEF Permission
<1> QED
  BY <1>2, <1>3, <1>4, <1>5, <1>6, <1>7, <1>8 DEF Grants, Roles

\* level() orders the roles as permissions() does, except for the service's right to submit.
LEMMA LevelsCarryGrants ==
    ASSUME NEW r \in Roles, NEW s \in Roles, s # "service", Implies(r, s)
    PROVE  Grants(s) \subseteq Grants(r)
<1>1. /\ AnonymousGrants \subseteq UserGrants /\ UserGrants \subseteq AnalystGrants
      /\ AnalystGrants \subseteq EngineerGrants /\ EngineerGrants \subseteq TenantAdminGrants
      /\ TenantAdminGrants \subseteq AdminGrants
  BY DEF UserGrants, AnalystGrants, EngineerGrants, TenantAdminGrants, AdminGrants
<1>2. Level(r) >= Level(s)
  BY DEF Implies
<1>3. CASE s = "anonymous"
  BY <1>1, <1>3 DEF Grants, Roles
<1>4. CASE s = "user"
  BY <1>1, <1>2, <1>4 DEF Grants, Roles, Level
<1>5. CASE s = "analyst"
  BY <1>1, <1>2, <1>5 DEF Grants, Roles, Level
<1>6. CASE s = "engineer"
  BY <1>1, <1>2, <1>6 DEF Grants, Roles, Level
<1>7. CASE s = "tenant_admin"
  BY <1>1, <1>2, <1>7 DEF Grants, Roles, Level
<1>8. CASE s = "admin"
  BY <1>1, <1>2, <1>8 DEF Grants, Roles, Level
<1>9. CASE s = "super_admin"
  BY <1>1, <1>2, <1>9 DEF Grants, Roles, Level
<1> QED
  BY <1>3, <1>4, <1>5, <1>6, <1>7, <1>8, <1>9 DEF Roles

\* What check_permission grants by roles and claims is what get_effective_permissions lists.
LEMMA CheckedIsEffective ==
    ASSUME NEW c, NEW p \in Permission
    PROVE  /\ p \in EffectivePermissions(c) => CheckPermission(c, p)
           /\ ~IsSuperAdmin(c) => (CheckPermission(c, p) <=> p \in EffectivePermissions(c))
<1>1. PermissionNamed(p) = {p} /\ \A q : p \in PermissionNamed(q) => q = p
  BY DEF PermissionNamed
<1>2. p \in UNION {PermissionNamed(q) : q \in c.permissions} <=> p \in c.permissions
  BY <1>1
<1>3. p \in UNION {Grants(r) : r \in NamedRoles(c)} <=> \E r \in NamedRoles(c) : p \in Grants(r)
  OBVIOUS
<1> QED
  BY <1>2, <1>3 DEF EffectivePermissions, CheckPermission, HasPermission

\* The effective permissions are permissions.
LEMMA EffectiveAre ==
    ASSUME NEW c
    PROVE  EffectivePermissions(c) \subseteq Permission
<1>1. \A r \in NamedRoles(c) : r \in Roles
  BY DEF NamedRoles, RoleNamed
<1>2. \A r \in NamedRoles(c) : Grants(r) \subseteq Permission
  BY <1>1, GrantsAre
<1>3. \A q : PermissionNamed(q) \subseteq Permission
  BY DEF PermissionNamed
<1> QED
  BY <1>2, <1>3 DEF EffectivePermissions

\* What a value of permit is.
PermitOK ==
    \/ permit.kind = "none"
    \/ /\ permit.kind = "layer"
       /\ \E c \in Claims \cup {Missing}, p \in Required \cup {NoPermission},
             r \in Roles \cup {Unrequired} :
             permit = [kind |-> "layer", claims |-> c, permission |-> p, role |-> r,
                       answer |-> Layer(c, p, r)]
    \/ /\ permit.kind = "resource"
       /\ \E c \in Claims, t \in AuthTenants, allowed \in AllowLists, owner \in Owners :
             permit = [kind |-> "resource", claims |-> c, tenant |-> t, allowed |-> allowed,
                       owner |-> owner,
                       answer |-> CheckTenant(c, t) /\ CheckResourceAccess(c, allowed, owner)]
    \/ /\ permit.kind = "set"
       /\ \E c \in Claims, ps \in SUBSET Required :
             permit = [kind |-> "set", claims |-> c, ps |-> ps, all |-> CheckAll(c, ps),
                       some |-> CheckAny(c, ps), effective |-> EffectivePermissions(c)]

\* Every check is one of those.
LEMMA PermitsAre == PermSpec => []PermitOK
<1>1. PermInit => PermitOK
  BY DEF PermInit, PermitOK
<1>2. PermitOK /\ [PermNext]_permit => PermitOK'
  <2> SUFFICES ASSUME PermitOK, [PermNext]_permit
               PROVE  PermitOK'
    OBVIOUS
  <2>1. CASE PassLayer
    BY <2>1 DEF PassLayer, PermitOK
  <2>2. CASE CheckResource
    BY <2>2 DEF CheckResource, PermitOK
  <2>3. CASE CheckSets
    BY <2>3 DEF CheckSets, PermitOK
  <2>4. CASE UNCHANGED permit
    BY <2>4 DEF PermitOK
  <2> QED
    BY <2>1, <2>2, <2>3, <2>4 DEF PermNext
<1> QED
  BY <1>1, <1>2, PTL DEF PermSpec

\* The sets of permissions of a claim agree with the checks of it.
LEMMA SetsAgree ==
    ASSUME PermitOK
    PROVE  EffectiveIsChecked
<1> SUFFICES ASSUME permit.kind = "set"
             PROVE  EffectiveIsChecked
  BY DEF EffectiveIsChecked
<1>1. PICK c \in Claims, ps \in SUBSET Required :
         permit = [kind |-> "set", claims |-> c, ps |-> ps, all |-> CheckAll(c, ps),
                   some |-> CheckAny(c, ps), effective |-> EffectivePermissions(c)]
  BY DEF PermitOK
<1>2. ps \subseteq Permission
  BY PermissionsAssumption
<1>3. EffectivePermissions(c) \subseteq {p \in Permission : CheckPermission(c, p)}
  BY EffectiveAre, CheckedIsEffective
<1>4. ASSUME ~IsSuperAdmin(c)
      PROVE  /\ CheckAll(c, ps) <=> ps \subseteq EffectivePermissions(c)
             /\ CheckAny(c, ps) <=> ps \cap EffectivePermissions(c) # {}
  <2>1. \A p \in ps : CheckPermission(c, p) <=> p \in EffectivePermissions(c)
    BY <1>2, <1>4, CheckedIsEffective
  <2> QED
    BY <2>1 DEF CheckAll, CheckAny
<1> QED
  BY <1>1, <1>3, <1>4 DEF EffectiveIsChecked

\* What a layer lets through may do what its route asks for.
LEMMA LayersAgree ==
    ASSUME PermitOK
    PROVE  RoleCarriesGrants
<1> SUFFICES ASSUME permit.kind = "layer", permit.answer.inner
             PROVE  RoleCarriesGrants
  BY DEF RoleCarriesGrants
<1>1. PICK c \in Claims \cup {Missing}, p \in Required \cup {NoPermission},
           r \in Roles \cup {Unrequired} :
         permit = [kind |-> "layer", claims |-> c, permission |-> p, role |-> r,
                   answer |-> Layer(c, p, r)]
  BY DEF PermitOK
<1>2. Layer(c, p, r).inner
  BY <1>1
<1>3. /\ p # NoPermission => CheckPermission(c, p)
      /\ r # Unrequired => CheckRole(c, r)
  BY <1>2 DEF Layer, Answer
<1>4. NoPermission \notin Permission /\ Unrequired \notin Roles
  BY DEF NoPermission, Permission, Unrequired, Roles
<1>5. ASSUME NEW q \in Permission, r \notin {Unrequired, "service"}, q \in Grants(r)
      PROVE  CheckPermission(c, q)
  <2>1. CheckRole(c, r) /\ r \in Roles
    BY <1>3, <1>5
  <2>2. CASE IsSuperAdmin(c)
    BY <2>2 DEF CheckPermission
  <2>3. CASE ~IsSuperAdmin(c)
    <3>1. PICK s \in HighestRoles(c) : Implies(s, r)
      BY <2>1, <2>3 DEF CheckRole
    <3>2. s \in NamedRoles(c) /\ s \in Roles
      BY <3>1 DEF HighestRoles, NamedRoles, RoleNamed
    <3>3. q \in Grants(s)
      BY <1>5, <2>1, <3>1, <3>2, LevelsCarryGrants
    <3> QED
      BY <3>2, <3>3 DEF CheckPermission
  <2> QED
    BY <2>2, <2>3
<1>6. \A q \in Permission : q = p => CheckPermission(c, q)
  BY <1>3, <1>4
<1> QED
  BY <1>1, <1>5, <1>6 DEF RoleCarriesGrants

\* Who holds more reaches no less.
LEMMA MoreHeld ==
    ASSUME NEW c, NEW d, NEW t, NEW allowed, NEW owner,
           d.sub = c.sub, d.tenant = c.tenant, c.roles \subseteq d.roles,
           c.groups \subseteq d.groups, c.permissions \subseteq d.permissions
    PROVE  /\ IsSuperAdmin(c) => IsSuperAdmin(d)
           /\ CheckTenant(c, t) => CheckTenant(d, t)
           /\ CheckResourceAccess(c, allowed, owner) => CheckResourceAccess(d, allowed, owner)
<1>1. IsSuperAdmin(c) => IsSuperAdmin(d)
  BY DEF IsSuperAdmin, HasRole, HasPermission
<1> QED
  BY <1>1 DEF CheckTenant, CheckResourceAccess, HasRole, HasPermission

\* Groups, owners and further claims open resources.
LEMMA ResourcesAgree ==
    ASSUME PermitOK
    PROVE  MoreClaimsReachMore
<1> SUFFICES ASSUME permit.kind = "resource", CheckTenant(permit.claims, permit.tenant)
             PROVE  MoreClaimsReachMore
  BY DEF MoreClaimsReachMore
<1>1. PICK c \in Claims, t \in AuthTenants, allowed \in AllowLists, owner \in Owners :
         permit = [kind |-> "resource", claims |-> c, tenant |-> t, allowed |-> allowed,
                   owner |-> owner,
                   answer |-> CheckTenant(c, t) /\ CheckResourceAccess(c, allowed, owner)]
  BY DEF PermitOK
<1>2. CheckTenant(c, t) /\ (permit.answer <=> CheckResourceAccess(c, allowed, owner))
  BY <1>1
<1>3. allowed \cap c.groups # {} \/ owner = c.sub => CheckResourceAccess(c, allowed, owner)
  BY PermissionsAssumption DEF CheckResourceAccess
<1>4. \A d \in Claims :
         /\ d.sub = c.sub /\ d.tenant = c.tenant
         /\ c.roles \subseteq d.roles /\ c.groups \subseteq d.groups
         /\ c.permissions \subseteq d.permissions
         /\ CheckResourceAccess(c, allowed, owner)
         => CheckTenant(d, t) /\ CheckResourceAccess(d, allowed, owner)
  BY <1>2, MoreHeld
<1> QED
  BY <1>1, <1>2, <1>3, <1>4 DEF MoreClaimsReachMore

\* Roles, explicit permissions and the levels of routes grant alike, for every token and
\* every route (role.rs, service.rs, middleware.rs).
THEOREM PermissionsAgree == PermSpec => []GrantsAgree
<1>1. PermitOK => GrantsAgree
  BY SetsAgree, LayersAgree, ResourcesAgree DEF GrantsAgree
<1> QED
  BY <1>1, PermitsAre, PTL

\* A set of numbers that is not empty has a least one.
LEMMA LeastNumber ==
    ASSUME NEW S \in SUBSET Nat, S # {}
    PROVE  \E v \in S : \A w \in S : v <= w
<1>1. PICK x \in S : \A y \in S : ~(<<y, x>> \in OpToRel(<, Nat))
  BY NatLessThanWellFounded, WFMin
<1>2. OpToRel(<, Nat) = {ss \in Nat \X Nat : ss[1] < ss[2]}
  BY DEF OpToRel
<1>3. \A y \in S : x <= y
  <2> SUFFICES ASSUME NEW y \in S, y < x PROVE FALSE
    OBVIOUS
  <2>1. <<y, x>> \in {ss \in Nat \X Nat : ss[1] < ss[2]}
    OBVIOUS
  <2> QED
    BY <1>1, <1>2, <2>1
<1> QED
  BY <1>3

\* A set of numbers from 0 to n that holds 0 and with each number below n the
\* next one holds them all.
LEMMA UpTo ==
    ASSUME NEW n \in Nat, NEW S, 0 \in S, \A k \in 0 .. n - 1 : k \in S => k + 1 \in S
    PROVE  \A k \in 0 .. n : k \in S
<1> SUFFICES ASSUME (0 .. n) \ S # {} PROVE FALSE
  OBVIOUS
<1>1. (0 .. n) \ S \in SUBSET Nat
  OBVIOUS
<1>2. PICK v \in (0 .. n) \ S : \A w \in (0 .. n) \ S : v <= w
  BY <1>1, LeastNumber
<1>3. v \in 0 .. n /\ v # 0 /\ v - 1 \in 0 .. n - 1 /\ v - 1 \in 0 .. n /\ v - 1 < v
  BY <1>2
<1>4. v - 1 \in S
  BY <1>2, <1>3
<1>5. (v - 1) + 1 \in S /\ (v - 1) + 1 = v
  BY <1>3, <1>4
<1> QED
  BY <1>2, <1>5

----------------------------------------------------------------------------
(* Sequences one after the other.                                          *)

\* The recursive function that Joined is defined by exists.
LEMMA JoinFunction ==
    ASSUME NEW parts, NEW m \in Nat
    PROVE  \E f : f = [n \in 0 .. m |-> IF n = 0 THEN <<>> ELSE f[n - 1] \o parts[n]]
<1> DEFINE Is(k, f) == f = [n \in 0 .. k |-> IF n = 0 THEN <<>> ELSE f[n - 1] \o parts[n]]
           Good == {k \in 0 .. m : \E f : Is(k, f)}
<1>1. 0 \in Good
  <2> DEFINE f == [n \in 0 .. 0 |-> <<>>]
  <2>1. \A n \in 0 .. 0 : n = 0
    OBVIOUS
  <2>2. f = [n \in 0 .. 0 |-> IF n = 0 THEN <<>> ELSE f[n - 1] \o parts[n]]
    BY <2>1
  <2> HIDE DEF f
  <2> QED
    BY <2>2
<1>2. ASSUME NEW k \in 0 .. m - 1, k \in Good PROVE k + 1 \in Good
  <2>1. PICK f : Is(k, f)
    BY <1>2
  <2> DEFINE g == [n \in 0 .. k + 1 |-> IF n = k + 1 THEN f[k] \o parts[n] ELSE f[n]]
  <2>2. ASSUME NEW n \in 0 .. k + 1
        PROVE  g[n] = IF n = 0 THEN <<>> ELSE g[n - 1] \o parts[n]
    <3>1. CASE n = k + 1
      <4>1. n # 0 /\ n - 1 = k /\ k \in 0 .. k + 1 /\ k # k + 1
        BY <3>1
      <4>2. g[n] = f[k] \o parts[n] /\ g[k] = f[k]
        BY <3>1, <4>1
      <4> HIDE DEF g
      <4> QED
        BY <4>1, <4>2
    <3>2. CASE n # k + 1
      <4>1. n \in 0 .. k /\ (n # 0 => n - 1 \in 0 .. k + 1 /\ n - 1 # k + 1)
        BY <3>2
      <4>2. g[n] = f[n] /\ (n # 0 => g[n - 1] = f[n - 1])
        BY <3>2, <4>1
      <4> QED
        BY <2>1, <4>1, <4>2
    <3> QED
      BY <3>1, <3>2
  <2>3. g = [n \in 0 .. k + 1 |-> g[n]]
    OBVIOUS
  <2> HIDE DEF g
  <2>4. Is(k + 1, g)
    BY <2>2, <2>3
  <2>5. k + 1 \in 0 .. m
    OBVIOUS
  <2> QED
    BY <2>4, <2>5
<1> HIDE DEF Good
<1>3. m \in Good
  BY <1>1, <1>2, UpTo
<1> QED
  BY <1>3 DEF Good

\* Joined goes through its parts from the first to the last.
LEMMA JoinSteps ==
    ASSUME NEW X, NEW parts \in Seq(Seq(X))
    PROVE  \E f \in [0 .. Len(parts) -> Seq(X)] :
               /\ f[0] = <<>>
               /\ \A n \in 1 .. Len(parts) : f[n] = f[n - 1] \o parts[n]
               /\ Joined(parts) = f[Len(parts)]
<1>1. Len(parts) \in Nat /\ \A n \in 1 .. Len(parts) : parts[n] \in Seq(X)
  BY LenProperties
<1> DEFINE f == CHOOSE f : f = [n \in 0 .. Len(parts) |->
                                  IF n = 0 THEN <<>> ELSE f[n - 1] \o parts[n]]
<1>2. f = [n \in 0 .. Len(parts) |-> IF n = 0 THEN <<>> ELSE f[n - 1] \o parts[n]]
  <2>1. \E g : g = [n \in 0 .. Len(parts) |-> IF n = 0 THEN <<>> ELSE g[n - 1] \o parts[n]]
    BY <1>1, JoinFunction
  <2> QED
    BY <2>1, Zenon
<1>3. Joined(parts) = f[Len(parts)]
  BY Zenon DEF Joined
<1> HIDE DEF f
<1>4. f[0] = <<>> /\ \A n \in 1 .. Len(parts) : f[n] = f[n - 1] \o parts[n]
  <2>1. 0 \in 0 .. Len(parts) /\ \A n \in 1 .. Len(parts) : n \in 0 .. Len(parts) /\ n # 0
    BY <1>1
  <2> QED
    BY <1>2, <2>1, Zenon
<1> DEFINE Good == {k \in 0 .. Len(parts) : f[k] \in Seq(X)}
<1>5. 0 \in Good
  <2>1. 0 \in 0 .. Len(parts) /\ <<>> \in Seq(X)
    BY <1>1
  <2> QED
    BY <1>4, <2>1
<1>6. ASSUME NEW k \in 0 .. Len(parts) - 1, k \in Good PROVE k + 1 \in Good
  <2>1. k + 1 \in 1 .. Len(parts) /\ (k + 1) - 1 = k /\ k + 1 \in 0 .. Len(parts)
    BY <1>1
  <2>2. f[k + 1] = f[k] \o parts[k + 1] /\ parts[k + 1] \in Seq(X)
    BY <1>1, <1>4, <2>1
  <2>3. f[k] \in Seq(X)
    BY <1>6
  <2>4. f[k + 1] \in Seq(X)
    BY <2>2, <2>3, ConcatProperties
  <2> QED
    BY <2>1, <2>4
<1> HIDE DEF Good
<1>7. \A k \in 0 .. Len(parts) : k \in Good
  BY <1>1, <1>5, <1>6, UpTo
<1>8. f \in [0 .. Len(parts) -> Seq(X)]
  BY <1>2, <1>7 DEF Good
<1> QED
  BY <1>3, <1>4, <1>8

\* Joined of sequences over X is a sequence over X.
LEMMA JoinedSeq ==
    ASSUME NEW X, NEW parts \in Seq(Seq(X))
    PROVE  Joined(parts) \in Seq(X)
<1>1. PICK f \in [0 .. Len(parts) -> Seq(X)] : Joined(parts) = f[Len(parts)]
  BY JoinSteps
<1>2. Len(parts) \in 0 .. Len(parts)
  BY LenProperties
<1> QED
  BY <1>1, <1>2

\* What is kept of s: the places in kept.
IsKept(s, kept, out, n) ==
    /\ \A k \in 1 .. Len(out) : \E i \in 1 .. n : i \in kept /\ out[k] = s[i]
    /\ \A i \in 1 .. n : i \in kept => \E k \in 1 .. Len(out) : out[k] = s[i]
Once(out) == \A k, l \in 1 .. Len(out) : out[k] = out[l] => k = l
OnceIn(s, kept) == \A i, j \in kept : s[i] = s[j] => i = j

\* One more place of s: what is kept stays in step with the places passed.
LEMMA KeepOne ==
    ASSUME NEW X, NEW s \in Seq(X), NEW kept \in SUBSET (1 .. Len(s)), NEW out \in Seq(X),
           NEW n \in 0 .. Len(s) - 1, IsKept(s, kept, out, n), n + 1 \in kept
    PROVE  /\ IsKept(s, kept, out \o <<s[n + 1]>>, n + 1)
           /\ OnceIn(s, kept) /\ Once(out) => Once(out \o <<s[n + 1]>>)
<1> DEFINE x == s[n + 1]
           new == out \o <<x>>
<1>1. n \in Nat /\ n + 1 \in 1 .. Len(s) /\ x \in X /\ n + 1 \in 1 .. n + 1
  BY LenProperties
<1>2. /\ Len(out) \in Nat /\ new \in Seq(X) /\ Len(new) = Len(out) + 1
      /\ \A k \in 1 .. Len(out) : new[k] = out[k]
      /\ new[Len(out) + 1] = x
  BY <1>1
<1> HIDE DEF new
<1>3. \A i \in 1 .. n + 1 : i \in 1 .. n \/ i = n + 1
  BY <1>1
<1>4. \A i \in 1 .. n : i \in 1 .. n + 1
  BY <1>1
<1>5. \A k \in 1 .. Len(new) : k \in 1 .. Len(out) \/ k = Len(out) + 1
  BY <1>2
<1>6. Len(out) + 1 \in 1 .. Len(new) /\ \A k \in 1 .. Len(out) : k \in 1 .. Len(new)
  BY <1>2
<1>7. ASSUME NEW k \in 1 .. Len(new) PROVE \E i \in 1 .. n + 1 : i \in kept /\ new[k] = s[i]
  <2>1. CASE k \in 1 .. Len(out)
    <3>1. PICK i \in 1 .. n : i \in kept /\ out[k] = s[i]
      BY <2>1 DEF IsKept
    <3> QED
      BY <1>2, <1>4, <2>1, <3>1
  <2>2. CASE k = Len(out) + 1
    BY <1>1, <1>2, <2>2
  <2> QED
    BY <1>5, <2>1, <2>2
<1>8. ASSUME NEW i \in 1 .. n + 1, i \in kept PROVE \E k \in 1 .. Len(new) : new[k] = s[i]
  <2>1. CASE i \in 1 .. n
    <3>1. PICK k \in 1 .. Len(out) : out[k] = s[i]
      BY <1>8, <2>1 DEF IsKept
    <3> QED
      BY <1>2, <1>6, <3>1
  <2>2. CASE i = n + 1
    BY <1>2, <1>6, <2>2
  <2> QED
    BY <1>3, <2>1, <2>2
<1>9. ASSUME OnceIn(s, kept), Once(out) PROVE Once(new)
  <2>1. ASSUME NEW k \in 1 .. Len(out) PROVE out[k] # x
    <3>1. PICK i \in 1 .. n : i \in kept /\ out[k] = s[i]
      BY DEF IsKept
    <3>2. i # n + 1
      BY <1>1
    <3> QED
      BY <1>9, <3>1, <3>2 DEF OnceIn
  <2> QED
    BY <1>2, <1>5, <1>9, <2>1 DEF Once
<1> QED
  BY <1>7, <1>8, <1>9 DEF IsKept, new

\* Joined of one part for each place of s, some of which are left empty.
LEMMA Picked ==
    ASSUME NEW X, NEW s \in Seq(X), NEW kept \in SUBSET (1 .. Len(s)),
           NEW parts, parts = [i \in DOMAIN s |-> IF i \in kept THEN <<s[i]>> ELSE <<>>]
    PROVE  /\ Joined(parts) \in Seq(X)
           /\ IsKept(s, kept, Joined(parts), Len(s))
           /\ OnceIn(s, kept) => Once(Joined(parts))
<1>1. Len(s) \in Nat /\ DOMAIN s = 1 .. Len(s) /\ \A i \in 1 .. Len(s) : s[i] \in X
  BY LenProperties
<1>2. parts \in Seq(Seq(X)) /\ Len(parts) = Len(s)
  <2>1. \A i \in 1 .. Len(s) : parts[i] \in Seq(X)
    BY <1>1
  <2>2. parts \in [1 .. Len(s) -> Seq(X)]
    BY <1>1, <2>1
  <2> QED
    BY <1>1, <2>2, SeqDef, LenProperties
<1>3. PICK f \in [0 .. Len(parts) -> Seq(X)] :
               /\ f[0] = <<>>
               /\ \A n \in 1 .. Len(parts) : f[n] = f[n - 1] \o parts[n]
               /\ Joined(parts) = f[Len(parts)]
  BY <1>2, JoinSteps
<1> DEFINE Good == {n \in 0 .. Len(s) :
                        /\ IsKept(s, kept, f[n], n)
                        /\ OnceIn(s, kept) => Once(f[n])}
<1>4. 0 \in Good
  BY <1>1, <1>2, <1>3 DEF IsKept, Once
<1>5. ASSUME NEW n \in 0 .. Len(s) - 1, n \in Good PROVE n + 1 \in Good
  <2>1. n \in 0 .. Len(s) /\ n + 1 \in 1 .. Len(s) /\ (n + 1) - 1 = n /\ n + 1 \in 0 .. Len(s)
    BY <1>1
  <2>2. f[n] \in Seq(X) /\ f[n + 1] = f[n] \o parts[n + 1]
    BY <1>2, <1>3, <2>1
  <2>3. IsKept(s, kept, f[n], n) /\ (OnceIn(s, kept) => Once(f[n]))
    BY <1>5
  <2>4. CASE n + 1 \in kept
    <3>1. f[n + 1] = f[n] \o <<s[n + 1]>>
      BY <1>1, <2>1, <2>2, <2>4
    <3> HIDE DEF Good
    <3>2. IsKept(s, kept, f[n + 1], n + 1) /\ (OnceIn(s, kept) => Once(f[n + 1]))
      BY <2>2, <2>3, <2>4, <3>1, KeepOne
    <3> QED
      BY <2>1, <3>2 DEF Good
  <2>5. CASE n + 1 \notin kept
    <3>1. parts[n + 1] = <<>>
      BY <1>1, <2>1, <2>5
    <3>2. f[n + 1] = f[n]
      BY <2>2, <3>1, ConcatEmptySeq
    <3>3. \A i \in 1 .. n + 1 : i \in kept => i \in 1 .. n
      BY <2>1, <2>5
    <3>4. \A i \in 1 .. n : i \in 1 .. n + 1
      BY <2>1
    <3>5. IsKept(s, kept, f[n], n + 1)
      BY <2>3, <3>3, <3>4 DEF IsKept
    <3> QED
      BY <2>1, <2>3, <3>2, <3>5
  <2> QED
    BY <2>4, <2>5
<1> HIDE DEF Good
<1>6. \A n \in 0 .. Len(s) : n \in Good
  BY <1>1, <1>4, <1>5, UpTo
<1>7. Len(s) \in Good /\ Len(s) \in 0 .. Len(s)
  BY <1>1, <1>6
<1> QED
  BY <1>2, <1>3, <1>7 DEF Good

----------------------------------------------------------------------------
(* What the texts of a query come to.                                      *)

SameRange(s, out, kept) ==
    /\ \A k \in 1 .. Len(out) : \E i \in 1 .. Len(s) : i \in kept /\ out[k] = s[i]
    /\ \A i \in 1 .. Len(s) : i \in kept => \E k \in 1 .. Len(out) : out[k] = s[i]

\* Without keeps exactly the elements that are not dropped.
LEMMA WithoutIs ==
    ASSUME NEW X, NEW s \in Seq(X), NEW dropped
    PROVE  /\ Without(s, dropped) \in Seq(X)
           /\ \A k \in 1 .. Len(Without(s, dropped)) :
                  \E i \in 1 .. Len(s) : s[i] \notin dropped /\ Without(s, dropped)[k] = s[i]
           /\ \A i \in 1 .. Len(s) : s[i] \notin dropped =>
                  \E k \in 1 .. Len(Without(s, dropped)) : Without(s, dropped)[k] = s[i]
<1> DEFINE kept == {i \in 1 .. Len(s) : s[i] \notin dropped}
           parts == [i \in DOMAIN s |-> IF s[i] \in dropped THEN <<>> ELSE <<s[i]>>]
<1>1. DOMAIN s = 1 .. Len(s)
  BY LenProperties
<1>2. parts = [i \in DOMAIN s |-> IF i \in kept THEN <<s[i]>> ELSE <<>>]
  BY <1>1
<1>3. Without(s, dropped) = Joined(parts)
  BY DEF Without
<1>4. kept \in SUBSET (1 .. Len(s)) /\ \A i \in 1 .. Len(s) : i \in kept <=> s[i] \notin dropped
  OBVIOUS
<1> HIDE DEF parts, kept
<1>5. Joined(parts) \in Seq(X) /\ IsKept(s, kept, Joined(parts), Len(s))
  BY <1>2, <1>4, Picked
<1> QED
  BY <1>3, <1>4, <1>5 DEF IsKept

\* Unique keeps every element, and each of them once.
LEMMA UniqueIs ==
    ASSUME NEW s \in Seq(Texts)
    PROVE  /\ Unique[s] \in Seq(Texts) /\ Once(Unique[s])
           /\ \A k \in 1 .. Len(Unique[s]) : \E i \in 1 .. Len(s) : Unique[s][k] = s[i]
           /\ \A i \in 1 .. Len(s) : \E k \in 1 .. Len(Unique[s]) : Unique[s][k] = s[i]
<1> DEFINE kept == {i \in 1 .. Len(s) : ~ \E j \in 1 .. (i - 1) : s[j] = s[i]}
           parts == [i \in DOMAIN s |->
                        IF \E j \in 1 .. (i - 1) : s[j] = s[i] THEN <<>> ELSE <<s[i]>>]
<1>1. DOMAIN s = 1 .. Len(s) /\ Len(s) \in Nat
  BY LenProperties
<1>2. parts = [i \in DOMAIN s |-> IF i \in kept THEN <<s[i]>> ELSE <<>>]
  BY <1>1, Zenon
<1>3. Unique[s] = Joined(parts)
  BY Zenon DEF Unique
<1>4. /\ kept \in SUBSET (1 .. Len(s))
      /\ \A i \in 1 .. Len(s) : i \in kept <=> ~ \E j \in 1 .. (i - 1) : s[j] = s[i]
  OBVIOUS
<1> HIDE DEF parts, kept
<1>5. OnceIn(s, kept)
  <2> SUFFICES ASSUME NEW i \in kept, NEW j \in kept, s[i] = s[j] PROVE i = j
    BY DEF OnceIn
  <2>1. i \in 1 .. Len(s) /\ j \in 1 .. Len(s)
    BY <1>4
  <2>2. ~(i < j)
    <3> SUFFICES ASSUME i < j PROVE FALSE
      OBVIOUS
    <3>1. i \in 1 .. (j - 1)
      BY <2>1
    <3> QED
      BY <1>4, <2>1, <3>1
  <2>3. ~(j < i)
    <3> SUFFICES ASSUME j < i PROVE FALSE
      OBVIOUS
    <3>1. j \in 1 .. (i - 1)
      BY <2>1
    <3> QED
      BY <1>4, <2>1, <3>1
  <2> QED
    BY <1>1, <2>1, <2>2, <2>3
<1>6. Joined(parts) \in Seq(Texts) /\ IsKept(s, kept, Joined(parts), Len(s)) /\ Once(Joined(parts))
  BY <1>2, <1>4, <1>5, Picked
<1>7. ASSUME NEW i \in 1 .. Len(s) PROVE \E k \in 1 .. Len(Joined(parts)) : Joined(parts)[k] = s[i]
  <2> DEFINE same == {j \in 1 .. Len(s) : s[j] = s[i]}
  <2>1. same \in SUBSET Nat /\ i \in same
    OBVIOUS
  <2>2. PICK j \in same : \A l \in same : j <= l
    BY <2>1, LeastNumber
  <2>3. j \in 1 .. Len(s) /\ s[j] = s[i]
    OBVIOUS
  <2>4. \A l \in 1 .. (j - 1) : l \in 1 .. Len(s) /\ ~(j <= l)
    BY <1>1, <2>3
  <2>5. j \in kept
    BY <1>4, <2>2, <2>3, <2>4
  <2> QED
    BY <1>6, <2>3, <2>5 DEF IsKept
<1>8. \A k \in 1 .. Len(Joined(parts)) : \E i \in 1 .. Len(s) : Joined(parts)[k] = s[i]
  BY <1>6 DEF IsKept
<1> QED
  BY <1>3, <1>6, <1>7, <1>8

\* Trim of a text is a text: strip, in the expander and in the embedding.
LEMMA TrimIs == ASSUME NEW t \in Texts PROVE Trim(t) \in Texts
<1> DEFINE kept == {i \in DOMAIN t : t[i] # Blank}
<1>1. DOMAIN t = 1 .. Len(t) /\ Len(t) \in Nat /\ \A i \in 1 .. Len(t) : t[i] \in STRING
  BY LenProperties DEF Texts
<1>2. CASE kept = {}
  <2>1. Trim(t) = <<>>
    BY <1>2 DEF Trim
  <2> QED
    BY <2>1 DEF Texts
<1>3. CASE kept # {}
  <2>1. Trim(t) = SubSeq(t, Min(kept), Max(kept))
    BY <1>3 DEF Trim
  <2>2. kept \in SUBSET Nat /\ kept \subseteq 1 .. Len(t)
    BY <1>1
  <2> HIDE DEF kept
  <2>3. \E v \in kept : \A w \in kept : v <= w
    BY <1>3, <2>2, LeastNumber
  <2>4. Min(kept) \in kept
    BY <2>3 DEF Min
  <2>5. \E v \in kept : \A w \in kept : v >= w
    <3> DEFINE gaps == {Len(t) - w : w \in kept}
    <3>0. \A w \in kept : w \in 1 .. Len(t) /\ Len(t) - w \in Nat
      BY <1>1, <2>2
    <3>1. gaps \in SUBSET Nat /\ gaps # {}
      BY <1>3, <3>0
    <3>2. PICK g \in gaps : \A h \in gaps : g <= h
      BY <3>1, LeastNumber
    <3>3. PICK v \in kept : g = Len(t) - v
      OBVIOUS
    <3>4. \A w \in kept : Len(t) - v <= Len(t) - w
      BY <3>2, <3>3
    <3>5. \A w \in kept : v >= w
      BY <1>1, <2>2, <3>4
    <3> QED
      BY <3>5
  <2>6. Max(kept) \in kept
    BY <2>5 DEF Max
  <2>7. Min(kept) \in Int /\ Max(kept) \in Int /\ \A i \in Min(kept) .. Max(kept) : t[i] \in STRING
    <3>1. Min(kept) \in 1 .. Len(t) /\ Max(kept) \in 1 .. Len(t)
      BY <2>2, <2>4, <2>6
    <3>2. \A i \in Min(kept) .. Max(kept) : i \in 1 .. Len(t)
      BY <1>1, <3>1
    <3> QED
      BY <1>1, <3>1, <3>2
  <2>8. SubSeq(t, Min(kept), Max(kept)) \in Seq(STRING)
    BY <2>7, SubSeqProperties
  <2> QED
    BY <2>1, <2>8 DEF Texts
<1> QED
  BY <1>2, <1>3

\* Trim of each text.
LEMMA TrimmedIs ==
    ASSUME NEW s \in Seq(Texts)
    PROVE  /\ [i \in DOMAIN s |-> Trim(s[i])] \in Seq(Texts)
           /\ Len([i \in DOMAIN s |-> Trim(s[i])]) = Len(s)
           /\ \A i \in 1 .. Len(s) : [j \in DOMAIN s |-> Trim(s[j])][i] = Trim(s[i])
<1>1. DOMAIN s = 1 .. Len(s) /\ Len(s) \in Nat /\ \A i \in 1 .. Len(s) : s[i] \in Texts
  BY LenProperties
<1>2. \A i \in 1 .. Len(s) : Trim(s[i]) \in Texts
  BY <1>1, TrimIs
<1> DEFINE trimmed == [i \in DOMAIN s |-> Trim(s[i])]
<1>3. trimmed \in [1 .. Len(s) -> Texts] /\ \A i \in 1 .. Len(s) : trimmed[i] = Trim(s[i])
  BY <1>1, <1>2
<1> HIDE DEF trimmed
<1>4. trimmed \in Seq(Texts) /\ Len(trimmed) = Len(s)
  BY <1>1, <1>3, SeqDef, LenProperties
<1> QED
  BY <1>3, <1>4 DEF trimmed

\* DedupeNonEmpty returns the trimmed texts that are not empty, each of them once.
LEMMA DedupeIs ==
    ASSUME NEW s \in Seq(Texts)
    PROVE  /\ DedupeNonEmpty[s] \in Seq(Texts) /\ Once(DedupeNonEmpty[s])
           /\ \A i \in 1 .. Len(s) : Trim(s[i]) # <<>> =>
                  \E k \in 1 .. Len(DedupeNonEmpty[s]) : DedupeNonEmpty[s][k] = Trim(s[i])
<1> DEFINE trimmed == [i \in DOMAIN s |-> Trim(s[i])]
           full == Without(trimmed, {<<>>})
<1>1. DedupeNonEmpty[s] = Unique[full]
  BY Zenon DEF DedupeNonEmpty
<1>2. /\ trimmed \in Seq(Texts) /\ Len(trimmed) = Len(s)
      /\ \A i \in 1 .. Len(s) : trimmed[i] = Trim(s[i])
  BY TrimmedIs
<1> HIDE DEF trimmed
<1>3. /\ full \in Seq(Texts)
      /\ \A i \in 1 .. Len(trimmed) : trimmed[i] \notin {<<>>} =>
             \E k \in 1 .. Len(full) : full[k] = trimmed[i]
  <2> DEFINE D == {<<>>}
  <2>1. trimmed \in Seq(Texts)
    BY <1>2
  <2>2. full = Without(trimmed, D)
    OBVIOUS
  <2> HIDE DEF D, full
  <2>3. /\ Without(trimmed, D) \in Seq(Texts)
        /\ \A i \in 1 .. Len(trimmed) : trimmed[i] \notin D =>
               \E k \in 1 .. Len(Without(trimmed, D)) : Without(trimmed, D)[k] = trimmed[i]
    BY <2>1, WithoutIs
  <2>4. \A i \in 1 .. Len(trimmed) : trimmed[i] \notin D =>
            \E k \in 1 .. Len(full) : full[k] = trimmed[i]
    BY <2>2, <2>3
  <2> QED
    BY <2>2, <2>3, <2>4 DEF D
<1> HIDE DEF full
<1>4. /\ Unique[full] \in Seq(Texts) /\ Once(Unique[full])
      /\ \A i \in 1 .. Len(full) : \E k \in 1 .. Len(Unique[full]) : Unique[full][k] = full[i]
  BY <1>3, UniqueIs
<1>5. ASSUME NEW i \in 1 .. Len(s), Trim(s[i]) # <<>>
      PROVE  \E k \in 1 .. Len(Unique[full]) : Unique[full][k] = Trim(s[i])
  <2>1. PICK k \in 1 .. Len(full) : full[k] = Trim(s[i])
    BY <1>2, <1>3, <1>5
  <2> QED
    BY <1>4, <2>1
<1> QED
  BY <1>1, <1>4, <1>5

\* What is embedded for a query: its own text, unless it is blank, and none twice.
LEMMA InputsAre ==
    ASSUME NEW t \in Texts, NEW expansion \in Seq(Texts), NEW docs \in Seq(Texts)
    PROVE  /\ Inputs(t, expansion, docs) \in Seq(Texts) /\ Once(Inputs(t, expansion, docs))
           /\ Trim(t) # <<>> => \E k \in 1 .. Len(Inputs(t, expansion, docs)) :
                                    Inputs(t, expansion, docs)[k] = Trim(t)
<1> DEFINE deduped == DedupeNonEmpty[expansion]
           queries == IF Contains(deduped, t) THEN deduped ELSE <<t>> \o deduped
           both == queries \o DedupeNonEmpty[docs]
           all == DedupeNonEmpty[both]
<1>1. Inputs(t, expansion, docs) = IF all = <<>> THEN <<t>> ELSE all
  BY DEF Inputs
<1>2. deduped \in Seq(Texts) /\ DedupeNonEmpty[docs] \in Seq(Texts)
  BY DedupeIs
<1>3. queries \in Seq(Texts) /\ \E i \in 1 .. Len(queries) : queries[i] = t
  <2>1. CASE Contains(deduped, t)
    BY <1>2, <2>1 DEF Contains
  <2>2. CASE ~Contains(deduped, t)
    <3>1. queries = <<t>> \o deduped
      BY <2>2
    <3> HIDE DEF queries, deduped
    <3>2. <<t>> \in Seq(Texts) /\ Len(<<t>>) = 1 /\ Len(deduped) \in Nat
      BY <1>2
    <3>3. /\ queries \in Seq(Texts) /\ Len(queries) = 1 + Len(deduped)
          /\ queries[1] = t
      BY <1>2, <3>1, <3>2
    <3> QED
      BY <3>2, <3>3
  <2> QED
    BY <2>1, <2>2
<1> HIDE DEF queries, deduped
<1>4. both \in Seq(Texts) /\ \E i \in 1 .. Len(both) : both[i] = t
  <2>1. PICK i \in 1 .. Len(queries) : queries[i] = t
    BY <1>3
  <2>2. /\ both \in Seq(Texts) /\ Len(both) = Len(queries) + Len(DedupeNonEmpty[docs])
        /\ \A j \in 1 .. Len(queries) : both[j] = queries[j]
        /\ Len(queries) \in Nat /\ Len(DedupeNonEmpty[docs]) \in Nat
    BY <1>2, <1>3
  <2> QED
    BY <2>1, <2>2
<1> HIDE DEF both
<1>5. all \in Seq(Texts) /\ Once(all)
  BY <1>4, DedupeIs
<1>6. Trim(t) # <<>> => \E k \in 1 .. Len(all) : all[k] = Trim(t)
  <2>1. \A i \in 1 .. Len(both) : Trim(both[i]) # <<>> =>
            \E k \in 1 .. Len(all) : all[k] = Trim(both[i])
    BY <1>4, DedupeIs
  <2>2. PICK i \in 1 .. Len(both) : both[i] = t
    BY <1>4
  <2> HIDE DEF all
  <2> QED
    BY <2>1, <2>2
<1> HIDE DEF all
<1>7. CASE all = <<>>
  <2>1. Trim(t) = <<>>
    BY <1>6, <1>7
  <2>2. <<t>> \in Seq(Texts) /\ Once(<<t>>)
    BY DEF Once
  <2> QED
    BY <1>1, <1>7, <2>1, <2>2
<1>8. CASE all # <<>>
  BY <1>1, <1>5, <1>6, <1>8
<1> QED
  BY <1>7, <1>8

\* What Synonyms holds for a word.
LEMMA SynonymsAre ==
    ASSUME NEW w
    PROVE  SynonymsOf(w) \in Seq(Texts)
BY EmbedAssumption DEF SynonymsOf

\* A query in which one word is replaced.
LEMMA ReplacedIs ==
    ASSUME NEW words \in Texts, NEW i \in 1 .. Len(words), NEW synonym \in Texts
    PROVE  SubSeq(words, 1, i - 1) \o synonym \o SubSeq(words, i + 1, Len(words)) \in Texts
<1>1. Len(words) \in Nat /\ \A j \in 1 .. Len(words) : words[j] \in STRING
  BY LenProperties DEF Texts
<1>2. /\ i - 1 \in Int /\ i + 1 \in Int /\ \A j \in 1 .. i - 1 : words[j] \in STRING
      /\ \A j \in i + 1 .. Len(words) : words[j] \in STRING
  BY <1>1
<1>3. /\ SubSeq(words, 1, i - 1) \in Seq(STRING)
      /\ SubSeq(words, i + 1, Len(words)) \in Seq(STRING)
  BY <1>1, <1>2, SubSeqProperties
<1> QED
  BY <1>3, ConcatProperties DEF Texts

\* The synonyms of the words of a query give texts.
LEMMA SynonymsExpand ==
    ASSUME NEW t \in Texts
    PROVE  ExpandWithSynonyms(t) \in Seq(Texts)
<1> DEFINE words == Split(t)
           at(i) == [j \in DOMAIN SynonymsOf(words[i]) |->
                        SubSeq(words, 1, i - 1) \o SynonymsOf(words[i])[j]
                            \o SubSeq(words, i + 1, Len(words))]
           parts == [i \in DOMAIN words |-> at(i)]
<1>1. words \in Texts
  BY WithoutIs DEF Texts, Split
<1>2. Len(words) \in Nat /\ DOMAIN words = 1 .. Len(words)
  BY <1>1, LenProperties DEF Texts
<1>3. ASSUME NEW i \in 1 .. Len(words) PROVE at(i) \in Seq(Texts)
  <2>1. SynonymsOf(words[i]) \in Seq(Texts)
    BY SynonymsAre
  <2> DEFINE syns == SynonymsOf(words[i])
  <2> HIDE DEF words
  <2>2. /\ DOMAIN syns = 1 .. Len(syns) /\ Len(syns) \in Nat
        /\ \A j \in 1 .. Len(syns) : syns[j] \in Texts
    BY <2>1, LenProperties
  <2> HIDE DEF syns
  <2>3. \A j \in 1 .. Len(syns) :
            SubSeq(words, 1, i - 1) \o syns[j] \o SubSeq(words, i + 1, Len(words)) \in Texts
    BY <1>1, <2>2, ReplacedIs
  <2>4. [j \in DOMAIN syns |-> SubSeq(words, 1, i - 1) \o syns[j] \o SubSeq(words, i + 1, Len(words))]
            \in [1 .. Len(syns) -> Texts]
    BY <2>2, <2>3
  <2>5. [j \in DOMAIN syns |-> SubSeq(words, 1, i - 1) \o syns[j] \o SubSeq(words, i + 1, Len(words))]
            \in Seq(Texts)
    BY <2>2, <2>4, SeqDef
  <2> QED
    BY <2>5 DEF syns
<1> HIDE DEF at, words
<1>4. parts \in [1 .. Len(words) -> Seq(Texts)]
  BY <1>2, <1>3
<1> HIDE DEF parts
<1>5. parts \in Seq(Seq(Texts))
  BY <1>2, <1>4, SeqDef
<1>6. Joined(parts) \in Seq(Texts)
  BY <1>5, JoinedSeq
<1>7. <<t>> \o Joined(parts) \in Seq(Texts)
  <2>1. <<t>> \in Seq(Texts)
    OBVIOUS
  <2> QED
    BY <1>6, <2>1, ConcatProperties
<1>8. Unique[<<t>> \o Joined(parts)] \in Seq(Texts)
  BY <1>7, UniqueIs
<1>9. ExpandWithSynonyms(t) = Unique[<<t>> \o Joined(parts)]
  BY Zenon DEF ExpandWithSynonyms, parts, at, words
<1> QED
  BY <1>8, <1>9

\* The answer of the LLM is read as texts.
LEMMA ParsedIs ==
    ASSUME NEW lines \in Seq(Texts), NEW t
    PROVE  ParseExpansion(lines, t) \in Seq(Texts)
<1> DEFINE trimmed == [i \in DOMAIN lines |-> Trim(lines[i])]
           dropped == {Trim(t)} \cup {l \in Range(trimmed) : Len(l) \notin LineLengths}
<1>1. trimmed \in Seq(Texts)
  BY TrimmedIs
<1>2. ParseExpansion(lines, t) = Without(trimmed, dropped)
  BY Zenon DEF ParseExpansion
<1> HIDE DEF trimmed, dropped
<1> QED
  BY <1>1, <1>2, WithoutIs

\* An expanded query is a sequence of texts, for every setup and every answer of the LLM.
LEMMA ExpandIs ==
    ASSUME NEW conf \in ExpanderConfigs, NEW t \in Texts, NEW lines \in Seq(Texts)
    PROVE  Expand(conf, t, lines) \in Seq(Texts)
<1>1. CASE ~conf.enabled
  BY <1>1 DEF Expand
<1>2. CASE conf.enabled
  <2> DEFINE first == IF conf.original THEN <<t>> ELSE <<>>
             syns == IF conf.synonyms THEN Without(ExpandWithSynonyms(t), {t}) ELSE <<>>
             llm == IF conf.llm THEN ParseExpansion(lines, t) ELSE <<>>
             all == Unique[first \o syns \o llm]
  <2>1. Expand(conf, t, lines) = SubSeq(all, 1, Min({conf.most, Len(all)}))
    BY <1>2 DEF Expand
  <2>2. first \in Seq(Texts)
    OBVIOUS
  <2>3. syns \in Seq(Texts)
    <3>1. Without(ExpandWithSynonyms(t), {t}) \in Seq(Texts)
      BY SynonymsExpand, WithoutIs
    <3> QED
      BY <3>1
  <2>4. llm \in Seq(Texts)
    BY ParsedIs
  <2> HIDE DEF first, syns, llm
  <2>5. first \o syns \o llm \in Seq(Texts)
    BY <2>2, <2>3, <2>4, ConcatProperties
  <2>6. all \in Seq(Texts)
    BY <2>5, UniqueIs
  <2> HIDE DEF all
  <2>7. conf.most \in Nat /\ Len(all) \in Nat /\ \A i \in 1 .. Len(all) : all[i] \in Texts
    BY <2>6, LenProperties DEF ExpanderConfigs
  <2> DEFINE two == {conf.most, Len(all)}
  <2>8. two \in SUBSET Nat /\ two # {} /\ Len(all) \in two
    BY <2>7
  <2> HIDE DEF two
  <2>9. \E v \in two : \A w \in two : v <= w
    BY <2>8, LeastNumber
  <2>10. Min(two) \in two /\ \A w \in two : Min(two) <= w
    BY <2>9 DEF Min
  <2>11. Min(two) \in Nat /\ Min(two) <= Len(all)
    BY <2>8, <2>10
  <2>12. \A i \in 1 .. Min(two) : all[i] \in Texts
    BY <2>7, <2>11
  <2>13. SubSeq(all, 1, Min(two)) \in Seq(Texts)
    BY <2>11, <2>12, SubSeqProperties
  <2> QED
    BY <2>1, <2>13 DEF two
<1>3. conf.enabled \in BOOLEAN
  BY DEF ExpanderConfigs
<1> QED
  BY <1>1, <1>2

\* The lines of an answer of the LLM are texts.
LEMMA LinesAre ==
    ASSUME NEW lines \in SeqOf(LlmLines, 2)
    PROVE  lines \in Seq(Texts)
<1>1. PICK m \in 0 .. 2 : lines \in [1 .. m -> LlmLines]
  BY DEF SeqOf
<1>2. lines \in [1 .. m -> Texts] /\ m \in Nat
  BY <1>1, EmbedAssumption
<1> QED
  BY <1>2, SeqDef

----------------------------------------------------------------------------
(* Batches.                                                                *)

\* How many of k batches there are texts for.
Reached(k, size, n) == IF k * size <= n THEN k * size ELSE n
BatchCount(n, size) == (n + size - 1) \div size

\* A product of naturals is one.
LEMMA ProductNat == ASSUME NEW a \in Nat, NEW b \in Nat PROVE a * b \in Nat
BY SMT

\* The number of batches of n texts: the last batch begins before n, one more would not.
LEMMA BatchCounts ==
    ASSUME NEW n \in Nat, NEW size \in Nat \ {0}
    PROVE  /\ BatchCount(n, size) \in Nat
           /\ n <= BatchCount(n, size) * size
           /\ \A k \in 1 .. BatchCount(n, size) : (k - 1) * size < n
<1> DEFINE q == (n + size - 1) \div size
<1>1. q \in Nat /\ q * size \in Nat
  BY SMTT(20)
<1>2. q * size <= n + size - 1 /\ n + size - 1 < q * size + size
  BY SMTT(20)
<1>3. q = BatchCount(n, size)
  BY DEF BatchCount
<1> HIDE DEF q
<1>4. n <= q * size
  BY <1>1, <1>2
<1>5. ASSUME NEW k \in 1 .. q PROVE (k - 1) * size < n
  <2> DEFINE e == q - k
             c == k - 1
  <2>1. e \in Nat /\ c \in Nat /\ q = c + 1 + e
    BY <1>1
  <2> HIDE DEF e, c
  <2>2. q * size = c * size + size + e * size /\ e * size \in Nat /\ c * size \in Nat
    BY <1>1, <2>1
  <2>3. c * size < n
    BY <1>1, <1>2, <2>2
  <2> QED
    BY <2>3 DEF c
<1> QED
  BY <1>1, <1>3, <1>4, <1>5

\* Where a batch begins and ends.
LEMMA BatchEnds ==
    ASSUME NEW s \in Seq(Texts), NEW size \in Nat \ {0},
           NEW k \in 1 .. BatchCount(Len(s), size)
    PROVE  /\ Reached(k - 1, size, Len(s)) \in Nat
           /\ Reached(k, size, Len(s)) \in Reached(k - 1, size, Len(s)) + 1 .. Len(s)
           /\ InBatches(s, size)[k] =
                  SubSeq(s, Reached(k - 1, size, Len(s)) + 1, Reached(k, size, Len(s)))
<1> DEFINE n == Len(s)
           c == k - 1
<1>1. n \in Nat /\ BatchCount(n, size) \in Nat
  BY LenProperties, BatchCounts
<1>2. c \in Nat /\ k = c + 1 /\ c * size < n /\ c * size \in Nat
  <2>1. c \in Nat /\ k = c + 1
    BY <1>1
  <2>2. (k - 1) * size < n
    BY <1>1, BatchCounts
  <2>3. c * size \in Nat
    BY <2>1, ProductNat
  <2> QED
    BY <2>1, <2>2, <2>3
<1>3. k * size = c * size + size /\ k * size \in Nat
  BY <1>2
<1>4. Reached(c, size, n) = c * size
  BY <1>1, <1>2 DEF Reached
<1>5. Reached(k, size, n) \in c * size + 1 .. n
  BY <1>1, <1>2, <1>3 DEF Reached
<1>6. Min({k * size, n}) = Reached(k, size, n)
  <2>1. CASE k * size <= n
    BY <1>1, <1>3, <2>1 DEF Min, Reached
  <2>2. CASE ~(k * size <= n)
    BY <1>1, <1>3, <2>2 DEF Min, Reached
  <2> QED
    BY <2>1, <2>2
<1>7. InBatches(s, size)[k] = SubSeq(s, c * size + 1, Min({k * size, n}))
  BY DEF InBatches, BatchCount
<1> QED
  BY <1>2, <1>4, <1>5, <1>6, <1>7

\* InBatches cuts s at the places Reached names.
LEMMA BatchIs ==
    ASSUME NEW s \in Seq(Texts), NEW size \in Nat \ {0}
    PROVE  /\ DOMAIN InBatches(s, size) = 1 .. BatchCount(Len(s), size)
           /\ BatchCount(Len(s), size) \in Nat
           /\ \A k \in 1 .. BatchCount(Len(s), size) :
                  /\ InBatches(s, size)[k] \in Seq(Texts)
                  /\ Len(InBatches(s, size)[k]) =
                         Reached(k, size, Len(s)) - Reached(k - 1, size, Len(s))
<1>1. Len(s) \in Nat /\ \A i \in 1 .. Len(s) : s[i] \in Texts
  BY LenProperties
<1>2. BatchCount(Len(s), size) \in Nat
  BY <1>1, BatchCounts
<1>3. DOMAIN InBatches(s, size) = 1 .. BatchCount(Len(s), size)
  BY DEF InBatches, BatchCount
<1>4. ASSUME NEW k \in 1 .. BatchCount(Len(s), size)
      PROVE  /\ InBatches(s, size)[k] \in Seq(Texts)
             /\ Len(InBatches(s, size)[k]) =
                    Reached(k, size, Len(s)) - Reached(k - 1, size, Len(s))
  <2> DEFINE a == Reached(k - 1, size, Len(s))
             b == Reached(k, size, Len(s))
  <2>1. a \in Nat /\ b \in a + 1 .. Len(s) /\ InBatches(s, size)[k] = SubSeq(s, a + 1, b)
    BY BatchEnds
  <2> HIDE DEF a, b
  <2>2. a + 1 \in Int /\ b \in Int /\ (\A i \in a + 1 .. b : s[i] \in Texts) /\ a + 1 <= b
    BY <1>1, <2>1
  <2>3. /\ SubSeq(s, a + 1, b) \in Seq(Texts)
        /\ Len(SubSeq(s, a + 1, b)) = IF a + 1 <= b THEN b - (a + 1) + 1 ELSE 0
    BY <2>2, SubSeqProperties
  <2>4. b - (a + 1) + 1 = b - a
    BY <2>1
  <2> QED
    BY <2>1, <2>2, <2>3, <2>4 DEF a, b
<1> QED
  BY <1>2, <1>3, <1>4

\* What was got for a batch of texts.
Fits(got, batch) ==
    /\ got \in Seq(Texts) /\ Len(got) <= Len(batch)
    /\ Len(got) = Len(batch) => got = batch

\* What fits the batches fits, put together, the texts they were made of.
LEMMA TogetherFits ==
    ASSUME NEW s \in Seq(Texts), NEW size \in Nat \ {0},
           NEW parts \in Seq(Seq(Texts)), Len(parts) = BatchCount(Len(s), size),
           \A k \in 1 .. Len(parts) : Fits(parts[k], InBatches(s, size)[k])
    PROVE  /\ Fits(Joined(parts), s)
           /\ (\A k \in 1 .. Len(parts) : Len(parts[k]) = Len(InBatches(s, size)[k])) =>
                  Len(Joined(parts)) = Len(s)
<1> DEFINE upto(k) == Reached(k, size, Len(s))
           whole == \A k \in 1 .. Len(parts) : Len(parts[k]) = Len(InBatches(s, size)[k])
<1>1. PICK f \in [0 .. Len(parts) -> Seq(Texts)] :
               /\ f[0] = <<>>
               /\ \A n \in 1 .. Len(parts) : f[n] = f[n - 1] \o parts[n]
               /\ Joined(parts) = f[Len(parts)]
  BY JoinSteps
<1>2. Len(s) \in Nat /\ Len(parts) \in Nat
  BY LenProperties
<1> DEFINE Good == {k \in 0 .. Len(parts) :
                        /\ Fits(f[k], SubSeq(s, 1, upto(k)))
                        /\ Len(SubSeq(s, 1, upto(k))) = upto(k)
                        /\ whole => Len(f[k]) = upto(k)}
<1>3. 0 \in Good
  <2>1. 0 * size = 0
    BY SMT
  <2>2. upto(0) = 0 /\ SubSeq(s, 1, 0) = <<>> /\ Len(<<>>) = 0
    BY <1>2, <2>1, SubSeqEmpty DEF Reached
  <2> HIDE DEF whole
  <2>3. 0 \in 0 .. Len(parts) /\ f[0] = <<>> /\ f[0] \in Seq(Texts)
    BY <1>1, <1>2
  <2> QED
    BY <2>2, <2>3 DEF Fits
<1>4. ASSUME NEW k \in 0 .. Len(parts) - 1, k \in Good PROVE k + 1 \in Good
  <2> DEFINE a == upto(k)
             b == upto(k + 1)
             batch == InBatches(s, size)[k + 1]
  <2>1. k + 1 \in 1 .. Len(parts) /\ (k + 1) - 1 = k /\ k + 1 \in 0 .. Len(parts)
    BY <1>2
  <2>2. a \in Nat /\ b \in a + 1 .. Len(s) /\ batch = SubSeq(s, a + 1, b)
    BY <2>1, BatchEnds
  <2>3. Len(batch) = b - a /\ batch \in Seq(Texts)
    <3>1. \A c \in 1 .. BatchCount(Len(s), size) :
              /\ InBatches(s, size)[c] \in Seq(Texts)
              /\ Len(InBatches(s, size)[c]) = upto(c) - upto(c - 1)
      BY BatchIs
    <3> HIDE DEF upto
    <3> QED
      BY <2>1, <3>1
  <2>4. Fits(parts[k + 1], batch)
    BY <2>1
  <2>5. whole => Len(parts[k + 1]) = Len(batch)
    BY <2>1
  <2>6. Fits(f[k], SubSeq(s, 1, a)) /\ Len(SubSeq(s, 1, a)) = a /\ (whole => Len(f[k]) = a)
    BY <1>4
  <2> HIDE DEF Good, whole, a, b, batch, upto
  <2>7. f[k + 1] = f[k] \o parts[k + 1]
    BY <1>1, <2>1
  <2>8. f[k] \in Seq(Texts) /\ parts[k + 1] \in Seq(Texts)
    BY <2>4, <2>6 DEF Fits
  <2>9. /\ f[k + 1] \in Seq(Texts) /\ Len(f[k + 1]) = Len(f[k]) + Len(parts[k + 1])
        /\ Len(f[k]) \in Nat /\ Len(parts[k + 1]) \in Nat
    BY <2>7, <2>8, ConcatProperties, LenProperties
  <2>10. Len(f[k]) <= a /\ Len(parts[k + 1]) <= b - a
    BY <2>3, <2>4, <2>6 DEF Fits
  <2>11. a \in Nat /\ b \in Nat
    BY <1>2, <2>2
  <2>12. /\ Len(f[k]) + Len(parts[k + 1]) <= b
         /\ Len(f[k]) + Len(parts[k + 1]) = b => Len(f[k]) = a /\ Len(parts[k + 1]) = b - a
    <3> DEFINE x == Len(f[k])
               y == Len(parts[k + 1])
    <3>1. x \in Nat /\ y \in Nat /\ x <= a /\ y <= b - a /\ a \in Nat /\ b \in Nat
      BY <2>9, <2>10, <2>11
    <3> HIDE DEF x, y
    <3>2. x + y <= b
      BY <3>1
    <3>3. x + y = b => x = a /\ y = b - a
      BY <3>1
    <3> QED
      BY <3>2, <3>3 DEF x, y
  <2>13. Len(f[k + 1]) <= b /\ (whole => Len(f[k + 1]) = b)
    <3>1. Len(f[k]) + Len(parts[k + 1]) <= b
      BY <2>12
    <3>2. ASSUME whole PROVE Len(f[k]) + Len(parts[k + 1]) = b
      <4>1. Len(f[k]) = a /\ Len(parts[k + 1]) = b - a
        BY <2>3, <2>5, <2>6, <3>2
      <4> QED
        BY <2>11, <4>1
    <3> QED
      BY <2>9, <3>1, <3>2
  <2>14. /\ SubSeq(s, 1, a) \o SubSeq(s, a + 1, b) = SubSeq(s, 1, b)
         /\ Len(SubSeq(s, 1, b)) = b
    <3>1. 1 \in 1 .. Len(s) + 1 /\ a \in 1 - 1 .. Len(s) /\ b \in a .. Len(s)
      BY <1>2, <2>2
    <3>2. SubSeq(s, 1, a) \o SubSeq(s, a + 1, b) = SubSeq(s, 1, b)
      BY <3>1, ConcatAdjacentSubSeq
    <3>3. /\ 1 \in Int /\ b \in Int /\ b >= 1 /\ b - 1 + 1 = b
          /\ \A i \in 1 .. b : s[i] \in Texts
      BY <1>2, <2>2, LenProperties
    <3>4. Len(SubSeq(s, 1, b)) = IF 1 <= b THEN b - 1 + 1 ELSE 0
      BY <3>3, SubSeqProperties
    <3> QED
      BY <3>2, <3>3, <3>4
  <2>15. ASSUME Len(f[k + 1]) = b PROVE f[k + 1] = SubSeq(s, 1, b)
    <3>1. Len(f[k]) = a /\ Len(parts[k + 1]) = b - a
      <4>1. Len(f[k]) + Len(parts[k + 1]) = b
        BY <2>9, <2>15
      <4> QED
        BY <2>12, <4>1
    <3>2. f[k] = SubSeq(s, 1, a) /\ parts[k + 1] = batch
      BY <2>3, <2>4, <2>6, <3>1 DEF Fits
    <3> QED
      BY <2>2, <2>7, <2>14, <3>2
  <2>16. Fits(f[k + 1], SubSeq(s, 1, b))
    BY <2>9, <2>13, <2>14, <2>15 DEF Fits
  <2> QED
    BY <2>1, <2>13, <2>14, <2>16 DEF Good, b
<1> HIDE DEF Good
<1>5. \A k \in 0 .. Len(parts) : k \in Good
  BY <1>2, <1>3, <1>4, UpTo
<1>6. Len(parts) \in Good
  BY <1>2, <1>5
<1>7. upto(Len(parts)) = Len(s)
  <2>1. Len(s) <= BatchCount(Len(s), size) * size
    BY <1>2, BatchCounts
  <2>2. Len(s) <= Len(parts) * size
    BY <2>1
  <2>3. Len(parts) * size \in Nat
    BY <1>2, ProductNat
  <2> QED
    BY <1>2, <2>2, <2>3 DEF Reached
<1>8. SubSeq(s, 1, Len(s)) = s
  BY SubSeqFull
<1> HIDE DEF upto, whole
<1>9. Fits(f[Len(parts)], s) /\ (whole => Len(f[Len(parts)]) = Len(s))
  BY <1>6, <1>7, <1>8 DEF Good
<1> QED
  BY <1>1, <1>9 DEF whole

----------------------------------------------------------------------------
(* The data of a reply in their order.                                     *)

\* Numbers from 1 to n in increasing order are all of them.
LEMMA IncreasingIs ==
    ASSUME NEW n \in Nat, NEW c \in [1 .. n -> 1 .. n],
           \A i, j \in 1 .. n : i < j => c[i] < c[j]
    PROVE  \A i \in 1 .. n : c[i] = i
<1> DEFINE Up == {k \in 0 .. n : k = 0 \/ c[k] >= k}
           Down == {k \in 0 .. n : k = n \/ c[n - k] <= n - k}
<1>1. \A k \in 0 .. n : k \in Up
  <2>1. 0 \in Up
    OBVIOUS
  <2>2. ASSUME NEW k \in 0 .. n - 1, k \in Up PROVE k + 1 \in Up
    <3>1. k + 1 \in 1 .. n /\ k + 1 \in 0 .. n /\ c[k + 1] \in 1 .. n
      OBVIOUS
    <3>2. CASE k = 0
      BY <3>1, <3>2
    <3>3. CASE k # 0
      <4>1. k \in 1 .. n /\ k < k + 1 /\ c[k] \in 1 .. n /\ c[k] >= k
        BY <2>2, <3>3
      <4>2. c[k] < c[k + 1]
        BY <3>1, <4>1
      <4> QED
        BY <3>1, <4>1, <4>2
    <3> QED
      BY <3>2, <3>3
  <2> HIDE DEF Up
  <2> QED
    BY <2>1, <2>2, UpTo
<1>2. \A k \in 0 .. n : k \in Down
  <2>1. 0 \in Down
    <3>1. CASE n = 0
      BY <3>1
    <3>2. CASE n # 0
      <4>1. n \in 1 .. n /\ n - 0 = n
        BY <3>2
      <4>2. c[n] \in 1 .. n
        BY <4>1
      <4> QED
        BY <4>1, <4>2
    <3> QED
      BY <3>1, <3>2
  <2>2. ASSUME NEW k \in 0 .. n - 1, k \in Down PROVE k + 1 \in Down
    <3>1. CASE k + 1 = n
      BY <3>1
    <3>2. CASE k + 1 # n
      <4> DEFINE m == n - (k + 1)
      <4>1. m \in 1 .. n /\ m + 1 = n - k /\ m + 1 \in 1 .. n /\ m < m + 1 /\ k # n
        BY <3>2
      <4>2. c[m + 1] <= m + 1
        BY <2>2, <4>1
      <4> HIDE DEF m
      <4>3. c[m] < c[m + 1] /\ c[m] \in 1 .. n /\ c[m + 1] \in 1 .. n
        BY <4>1
      <4>4. c[m] <= m
        BY <4>1, <4>2, <4>3
      <4> QED
        BY <4>4 DEF m
    <3> QED
      BY <3>1, <3>2
  <2> HIDE DEF Down
  <2> QED
    BY <2>1, <2>2, UpTo
<1> SUFFICES ASSUME NEW i \in 1 .. n PROVE c[i] = i
  OBVIOUS
<1>3. i \in 0 .. n /\ i # 0 /\ n - i \in 0 .. n /\ n - i # n /\ n - (n - i) = i /\ c[i] \in 1 .. n
  OBVIOUS
<1>4. c[i] >= i
  BY <1>1, <1>3
<1>5. c[i] <= i
  BY <1>2, <1>3
<1> QED
  BY <1>3, <1>4, <1>5

\* Each order of places has an inverse.
LEMMA InverseIs ==
    ASSUME NEW n \in Nat, NEW p \in Shuffles(n)
    PROVE  \E a \in Shuffles(n) : \A k \in 1 .. n : p[a[k]] = k
<1>1. p \in [1 .. n -> 1 .. n] /\ IsInjective(p)
  BY DEF Shuffles
<1>2. p \in Injection(1 .. n, 1 .. n)
  BY <1>1 DEF Injection
<1>3. IsFiniteSet(1 .. n)
  BY FS_Interval
<1>4. p \in Surjection(1 .. n, 1 .. n)
  BY <1>2, <1>3, FS_Injection
<1>5. \A k \in 1 .. n : \E i \in 1 .. n : p[i] = k
  BY <1>4 DEF Surjection
<1> DEFINE a == [k \in 1 .. n |-> CHOOSE i \in 1 .. n : p[i] = k]
<1>6. \A k \in 1 .. n : a[k] \in 1 .. n /\ p[a[k]] = k
  BY <1>5
<1>7. a \in [1 .. n -> 1 .. n]
  BY <1>6
<1> HIDE DEF a
<1>8. IsInjective(a)
  BY <1>6, <1>7 DEF IsInjective
<1> QED
  BY <1>6, <1>7, <1>8 DEF Shuffles

\* The data of a reply to a batch: its n first vectors in the order p.
Replied(data, batch, n, p) ==
    data = [i \in 1 .. n |-> [index |-> p[i], vector |-> batch[p[i]]]]

\* Sorted by index, a reply is the beginning of the batch.
LEMMA ByIndexIs ==
    ASSUME NEW batch \in Seq(Texts), NEW n \in 0 .. Len(batch), NEW p \in Shuffles(n),
           NEW data, Replied(data, batch, n, p)
    PROVE  Len(data) = n /\ ByIndex(data) = [i \in 1 .. n |-> batch[i]]
<1>1. n \in Nat /\ p \in [1 .. n -> 1 .. n]
  BY LenProperties DEF Shuffles
<1>2. Len(data) = n
  <2> DEFINE D == {[index |-> p[i], vector |-> batch[p[i]]] : i \in 1 .. n}
  <2>1. data \in [1 .. n -> D]
    BY DEF Replied
  <2> HIDE DEF D
  <2>2. data \in Seq(D)
    BY <1>1, <2>1, SeqDef
  <2> QED
    BY <1>1, <2>1, <2>2, LenProperties
<1>3. \A i \in 1 .. n : data[i].index = p[i] /\ data[i].vector = batch[p[i]]
  BY DEF Replied
<1> DEFINE InOrder(a) == \A i, j \in 1 .. n : i < j => data[a[i]].index < data[a[j]].index
           at == CHOOSE a \in Shuffles(Len(data)) :
                     \A i, j \in 1 .. Len(data) : i < j => data[a[i]].index < data[a[j]].index
<1>4. ByIndex(data) = [i \in 1 .. Len(data) |-> data[at[i]].vector]
  BY Zenon DEF ByIndex
<1>5. \E a \in Shuffles(n) : InOrder(a)
  <2>1. PICK a \in Shuffles(n) : \A k \in 1 .. n : p[a[k]] = k
    BY <1>1, InverseIs
  <2>2. \A i \in 1 .. n : a[i] \in 1 .. n
    BY DEF Shuffles
  <2>3. \A i \in 1 .. n : data[a[i]].index = i
    BY <1>3, <2>1, <2>2
  <2>4. InOrder(a)
    BY <2>3
  <2> QED
    BY <2>4
<1>6. at \in Shuffles(n) /\ InOrder(at)
  <2>1. \E a \in Shuffles(Len(data)) :
            \A i, j \in 1 .. Len(data) : i < j => data[a[i]].index < data[a[j]].index
    BY <1>2, <1>5, Zenon
  <2>2. /\ at \in Shuffles(Len(data))
        /\ \A i, j \in 1 .. Len(data) : i < j => data[at[i]].index < data[at[j]].index
    BY <2>1, Zenon
  <2> QED
    BY <1>2, <2>2, Zenon
<1> HIDE DEF at
<1>7. at \in [1 .. n -> 1 .. n]
  BY <1>6 DEF Shuffles
<1> DEFINE c == [i \in 1 .. n |-> p[at[i]]]
<1>8. c \in [1 .. n -> 1 .. n] /\ \A i \in 1 .. n : c[i] = data[at[i]].index
  BY <1>1, <1>3, <1>7
<1>9. \A i, j \in 1 .. n : i < j => c[i] < c[j]
  BY <1>6, <1>8
<1> HIDE DEF c
<1>10. \A i \in 1 .. n : c[i] = i
  BY <1>1, <1>8, <1>9, IncreasingIs
<1>11. \A i \in 1 .. n : data[at[i]].vector = batch[i]
  BY <1>3, <1>7, <1>10 DEF c
<1> QED
  BY <1>2, <1>4, <1>11

\* What is taken from a reply fits the batch, and is all of it if it is not short.
LEMMA RepliesFit ==
    ASSUME NEW batch \in Seq(Texts), Len(batch) # 0, NEW data \in Replies(batch)
    PROVE  /\ Fits(ByIndex(data), batch) /\ Len(ByIndex(data)) = Len(data)
<1>1. PICK n \in {Len(batch), Len(batch) - 1} \ {0} :
          data \in {[i \in 1 .. n |-> [index |-> p[i], vector |-> batch[p[i]]]] : p \in Shuffles(n)}
  BY DEF Replies
<1>2. PICK p \in Shuffles(n) : Replied(data, batch, n, p)
  BY <1>1 DEF Replied
<1>3. /\ Len(batch) \in Nat /\ Len(batch) # 0 /\ batch \in [1 .. Len(batch) -> Texts]
      /\ \A i \in 1 .. Len(batch) : batch[i] \in Texts
  BY LenProperties
<1>4. n \in 0 .. Len(batch) /\ n \in Nat
  BY <1>1, <1>3
<1>5. Len(data) = n /\ ByIndex(data) = [i \in 1 .. n |-> batch[i]]
  BY <1>2, <1>4, ByIndexIs
<1> DEFINE got == [i \in 1 .. n |-> batch[i]]
<1>6. got \in [1 .. n -> Texts]
  <2>1. \A i \in 1 .. n : i \in 1 .. Len(batch)
    BY <1>3, <1>4
  <2> QED
    BY <1>3, <2>1
<1>7. n = Len(batch) => got = batch
  BY <1>3
<1> HIDE DEF got
<1>8. got \in Seq(Texts) /\ Len(got) = n
  BY <1>4, <1>6, SeqDef, LenProperties
<1> QED
  BY <1>4, <1>5, <1>7, <1>8 DEF Fits, got

----------------------------------------------------------------------------
(* The invariant of the embedding.                                         *)

Clients == {"none", "query", "ingest"}
BatchStates == {"queued", "sent", "backoff", "ok", "failed"}
Reasons == Passing \cup {"none", "garbled", "short", "4xx"}
BatchRecords ==
    [state : BatchStates, tries : 0 .. EmbedRetries, got : Seq(Texts), why : Reasons]

\* What a batch may come to: the vectors of its texts, or an error for good.
BatchGood(b, rec) ==
    /\ rec \in BatchRecords
    /\ rec.state = "ok" => /\ Fits(rec.got, BatchTexts(b))
                           /\ client = "query" => Len(rec.got) = Len(BatchTexts(b))
    /\ rec.state = "failed" /\ Retryable(rec.why) => rec.tries = EmbedRetries

BatchNumbers == 1 .. BatchCount(Len(inputs), BatchSize(client))

EmbedTypes ==
    /\ client \in Clients /\ text \in Texts /\ setup \in Setups
    /\ expanded \in Seq(Texts) \cup {Pending}
    /\ passages \in Seq(Texts \cup {Pending, NoText})
    /\ inputs \in Seq(Texts)

BatchesKept ==
    /\ DOMAIN batches = BatchNumbers /\ batches = [b \in BatchNumbers |-> batches[b]]
    /\ \A b \in BatchNumbers : BatchGood(b, batches[b])

\* What the caller is told.
AnswerKept ==
    \/ answer = Pending
    \/ answer = Failure /\ \E b \in BatchNumbers : batches[b].state = "failed"
    \/ answer = Collected /\ \A b \in BatchNumbers : batches[b].state = "ok"

NotYetAsked ==
    /\ client = "none" => inputs = <<>>
    /\ client # "ingest" /\ inputs = <<>> => answer = Pending

Searched ==
    client = "query" /\ inputs # <<>> =>
        /\ Once(inputs)
        /\ Trim(text) # <<>> => \E i \in 1 .. Len(inputs) : inputs[i] = Trim(text)

EmbedInv == EmbedTypes /\ BatchesKept /\ AnswerKept /\ NotYetAsked /\ Searched

\* The sizes of the batches and the retries are numbers.
LEMMA SizesAre ==
    /\ \A who : BatchSize(who) \in Nat \ {0}
    /\ EmbedRetries \in Nat
BY EmbedAssumption DEF BatchSize, QueryClientConfigured, IngestClientConfigured

\* The reasons a call fails for.
LEMMA ReasonsAre ==
    /\ \A why \in Passing \cup {"garbled"} : why \in Reasons
    /\ "none" \in Reasons /\ "short" \in Reasons /\ "4xx" \in Reasons
BY DEF Reasons

\* No text, no batch.
LEMMA NoBatches == ASSUME NEW size \in Nat \ {0} PROVE BatchCount(0, size) = 0
<1>1. BatchCount(0, size) \in Nat /\ \A k \in 1 .. BatchCount(0, size) : (k - 1) * size < 0
  BY BatchCounts
<1>2. CASE BatchCount(0, size) # 0
  <2>1. 1 \in 1 .. BatchCount(0, size) /\ (1 - 1) * size = 0
    BY <1>1, <1>2, SMT
  <2> QED
    BY <1>1, <2>1
<1> QED
  BY <1>2

\* The empty text is a text.
LEMMA EmptyText == <<>> \in Texts /\ <<>> \in Seq(Texts) /\ Len(<<>>) = 0
BY DEF Texts

\* The texts of a batch.
LEMMA BatchTextsAre ==
    ASSUME EmbedTypes, NEW b \in BatchNumbers
    PROVE  BatchTexts(b) \in Seq(Texts) /\ Len(BatchTexts(b)) # 0
<1> DEFINE size == BatchSize(client)
           before == Reached(b - 1, size, Len(inputs))
<1>1. size \in Nat \ {0} /\ inputs \in Seq(Texts)
  BY SizesAre DEF EmbedTypes
<1>2. b \in 1 .. BatchCount(Len(inputs), size)
  BY DEF BatchNumbers
<1>3. BatchTexts(b) = InBatches(inputs, size)[b]
  BY DEF BatchTexts
<1> HIDE DEF size
<1>4. before \in Nat /\ Reached(b, size, Len(inputs)) \in before + 1 .. Len(inputs)
  BY <1>1, <1>2, BatchEnds
<1>5. /\ InBatches(inputs, size)[b] \in Seq(Texts)
      /\ Len(InBatches(inputs, size)[b]) = Reached(b, size, Len(inputs)) - before
  BY <1>1, <1>2, BatchIs
<1>6. Len(inputs) \in Nat
  BY <1>1, LenProperties
<1> HIDE DEF before
<1> QED
  BY <1>3, <1>4, <1>5, <1>6

\* The batches as they are first made.
LEMMA FirstCallsAre ==
    ASSUME NEW who, NEW s \in Seq(Texts)
    PROVE  /\ DOMAIN FirstCalls(who, s) = 1 .. BatchCount(Len(s), BatchSize(who))
           /\ \A b \in DOMAIN FirstCalls(who, s) :
                  /\ FirstCalls(who, s)[b] \in BatchRecords
                  /\ FirstCalls(who, s)[b].state \in {"sent", "queued"}
           /\ FirstCalls(who, s) = [b \in DOMAIN FirstCalls(who, s) |-> FirstCalls(who, s)[b]]
<1>1. BatchSize(who) \in Nat \ {0} /\ EmbedRetries \in Nat
  BY SizesAre
<1>2. DOMAIN InBatches(s, BatchSize(who)) = 1 .. BatchCount(Len(s), BatchSize(who))
  BY <1>1, BatchIs
<1>3. ASSUME NEW state \in BatchStates
      PROVE  Waiting(state) \in BatchRecords /\ Waiting(state).state = state
  <2>1. 0 \in 0 .. EmbedRetries /\ <<>> \in Seq(Texts) /\ "none" \in Reasons
    BY <1>1, EmptyText, ReasonsAre
  <2> QED
    BY <2>1 DEF Waiting, BatchRecords
<1>4. "sent" \in BatchStates /\ "queued" \in BatchStates
  BY DEF BatchStates
<1> QED
  BY <1>2, <1>3, <1>4 DEF FirstCalls

----------------------------------------------------------------------------
(* Steps of a batch.                                                       *)

\* A batch that has not ended changes to a record that is as good.
LEMMA BatchChanges ==
    ASSUME EmbedInv, NEW b \in BatchNumbers, batches[b].state # "ok", batches[b].state # "failed",
           NEW rec, BatchGood(b, rec), batches' = [batches EXCEPT ![b] = rec],
           UNCHANGED <<client, text, setup, expanded, passages, inputs, answer>>
    PROVE  EmbedInv'
<1>1. /\ BatchNumbers' = BatchNumbers /\ \A c : BatchTexts(c)' = BatchTexts(c)
      /\ \A c, r : BatchGood(c, r)' <=> BatchGood(c, r)
  BY DEF BatchNumbers, BatchTexts, BatchGood
<1>2. EmbedTypes'
  BY DEF EmbedInv, EmbedTypes
<1>3. \A c \in BatchNumbers : batches'[c] = IF c = b THEN rec ELSE batches[c]
  BY DEF EmbedInv, BatchesKept
<1>4. BatchesKept'
  <2>1. DOMAIN batches' = BatchNumbers /\ batches' = [c \in BatchNumbers |-> batches'[c]]
    BY DEF EmbedInv, BatchesKept
  <2>2. \A c \in BatchNumbers : BatchGood(c, batches'[c])
    BY <1>3 DEF EmbedInv, BatchesKept
  <2> QED
    BY <1>1, <2>1, <2>2 DEF BatchesKept
<1>5. AnswerKept'
  <2>1. CASE answer = Pending
    BY <2>1 DEF AnswerKept
  <2>2. CASE answer = Failure /\ \E c \in BatchNumbers : batches[c].state = "failed"
    <3>1. PICK c \in BatchNumbers : batches[c].state = "failed"
      BY <2>2
    <3>2. c # b
      BY <3>1
    <3> QED
      BY <1>1, <1>3, <2>2, <3>1, <3>2 DEF AnswerKept
  <2> QED
    BY <2>1, <2>2 DEF EmbedInv, AnswerKept
<1>6. NotYetAsked' /\ Searched'
  BY DEF EmbedInv, NotYetAsked, Searched
<1> QED
  BY <1>2, <1>4, <1>5, <1>6 DEF EmbedInv

\* The end of a call: a reply, an error that is retried, or one that is not.
LEMMA CallEndsKeeps ==
    ASSUME EmbedInv, NEW b \in DOMAIN batches, CallEnds(b)
    PROVE  EmbedInv'
<1>1. b \in BatchNumbers /\ BatchGood(b, batches[b]) /\ batches[b] \in BatchRecords
  BY DEF EmbedInv, BatchesKept, BatchGood
<1>2. /\ batches[b].state = "sent"
      /\ UNCHANGED <<client, text, setup, expanded, passages, inputs, answer>>
  BY DEF CallEnds
<1>3. BatchTexts(b) \in Seq(Texts) /\ Len(BatchTexts(b)) # 0
  BY <1>1, BatchTextsAre DEF EmbedInv
<1>4. ASSUME NEW data \in Replies(BatchTexts(b)) PROVE BatchGood(b, Taken(b, data))
  <2>1. Fits(ByIndex(data), BatchTexts(b)) /\ Len(ByIndex(data)) = Len(data)
    BY <1>3, RepliesFit
  <2>2. CASE client = "query" /\ Len(data) # Len(BatchTexts(b))
    <3> DEFINE rec == [batches[b] EXCEPT !.state = "failed", !.why = "short"]
    <3>1. Taken(b, data) = rec
      BY <2>2 DEF Taken
    <3>2. rec \in BatchRecords /\ rec.state = "failed" /\ rec.why = "short"
      BY <1>1, ReasonsAre DEF BatchRecords, BatchStates
    <3> HIDE DEF rec
    <3>3. ~Retryable(rec.why)
      BY <3>2 DEF Retryable, Passing
    <3> QED
      BY <3>1, <3>2, <3>3 DEF BatchGood
  <2>3. CASE ~(client = "query" /\ Len(data) # Len(BatchTexts(b)))
    <3> DEFINE rec == [batches[b] EXCEPT !.state = "ok", !.got = ByIndex(data)]
    <3>1. Taken(b, data) = rec
      BY <2>3 DEF Taken
    <3>2. ByIndex(data) \in Seq(Texts)
      BY <2>1 DEF Fits
    <3>3. rec \in BatchRecords /\ rec.state = "ok" /\ rec.got = ByIndex(data)
      BY <1>1, <3>2 DEF BatchRecords, BatchStates
    <3> HIDE DEF rec
    <3> QED
      BY <2>1, <2>3, <3>1, <3>3 DEF BatchGood
  <2> QED
    BY <2>2, <2>3
<1>5. ASSUME NEW why \in Reasons PROVE BatchGood(b, NotTaken(b, why))
  <2>1. EmbedRetries \in Nat /\ batches[b].tries \in 0 .. EmbedRetries
    BY <1>1, SizesAre DEF BatchRecords
  <2>2. CASE Retryable(why) /\ batches[b].tries < EmbedRetries
    <3>1. batches[b].tries + 1 \in 0 .. EmbedRetries
      BY <2>1, <2>2
    <3> DEFINE rec == [batches[b] EXCEPT !.state = "backoff", !.tries = @ + 1]
    <3>2. NotTaken(b, why) = rec
      BY <2>2 DEF NotTaken
    <3>3. rec \in BatchRecords /\ rec.state = "backoff"
      BY <1>1, <3>1 DEF BatchRecords, BatchStates
    <3> HIDE DEF rec
    <3> QED
      BY <3>2, <3>3 DEF BatchGood
  <2>3. CASE ~(Retryable(why) /\ batches[b].tries < EmbedRetries)
    <3> DEFINE rec == [batches[b] EXCEPT !.state = "failed", !.why = why]
    <3>1. NotTaken(b, why) = rec
      BY <2>3 DEF NotTaken
    <3>2. /\ rec \in BatchRecords /\ rec.state = "failed" /\ rec.why = why
          /\ rec.tries = batches[b].tries
      BY <1>1 DEF BatchRecords, BatchStates
    <3> HIDE DEF rec
    <3>3. Retryable(why) => rec.tries = EmbedRetries
      BY <2>1, <2>3, <3>2
    <3> QED
      BY <3>1, <3>2, <3>3 DEF BatchGood
  <2> QED
    BY <2>2, <2>3
<1>6. CASE \E data \in Replies(BatchTexts(b)) : batches' = [batches EXCEPT ![b] = Taken(b, data)]
  BY <1>1, <1>2, <1>4, <1>6, BatchChanges
<1>7. CASE \E why \in Passing \cup {"garbled"} : batches' = [batches EXCEPT ![b] = NotTaken(b, why)]
  <2>1. PICK why \in Passing \cup {"garbled"} : batches' = [batches EXCEPT ![b] = NotTaken(b, why)]
    BY <1>7
  <2>2. why \in Reasons
    BY ReasonsAre
  <2> QED
    BY <1>1, <1>2, <1>5, <2>1, <2>2, BatchChanges
<1>8. CASE batches' = [batches EXCEPT ![b] = NotTaken(b, "4xx")]
  <2>1. BatchGood(b, NotTaken(b, "4xx"))
    BY <1>5, ReasonsAre
  <2> QED
    BY <1>1, <1>2, <1>8, <2>1, BatchChanges
<1> QED
  BY <1>6, <1>7, <1>8 DEF CallEnds

\* A batch is sent again after its backoff, or taken from the queue.
LEMMA CallGoesOn ==
    ASSUME EmbedInv, NEW b \in DOMAIN batches, CallAgain(b) \/ CallNext(b)
    PROVE  EmbedInv'
<1>1. b \in BatchNumbers /\ BatchGood(b, batches[b]) /\ batches[b] \in BatchRecords
  BY DEF EmbedInv, BatchesKept, BatchGood
<1> DEFINE rec == [batches[b] EXCEPT !.state = "sent"]
<1>2. rec \in BatchRecords /\ rec.state = "sent"
  BY <1>1 DEF BatchRecords, BatchStates
<1>3. batches[b].state \in {"backoff", "queued"} /\ batches' = [batches EXCEPT ![b] = rec]
  BY DEF CallAgain, CallNext
<1>4. UNCHANGED <<client, text, setup, expanded, passages, inputs, answer>>
  BY DEF CallAgain, CallNext
<1> HIDE DEF rec
<1>5. BatchGood(b, rec)
  BY <1>2 DEF BatchGood
<1> QED
  BY <1>1, <1>3, <1>4, <1>5, BatchChanges

----------------------------------------------------------------------------
(* The other steps.                                                        *)

\* Calls that have just been made are in order.
LEMMA BatchesMade ==
    ASSUME inputs' \in Seq(Texts), client' \in Clients, batches' = FirstCalls(client', inputs')
    PROVE  BatchesKept'
<1>1. /\ DOMAIN batches' = BatchNumbers' /\ batches' = [b \in DOMAIN batches' |-> batches'[b]]
      /\ \A b \in DOMAIN batches' : /\ batches'[b] \in BatchRecords
                                    /\ batches'[b].state \in {"sent", "queued"}
  BY FirstCallsAre DEF BatchNumbers
<1>2. (\A b \in DOMAIN batches : BatchGood(b, batches[b]))'
  <2> SUFFICES ASSUME NEW b \in DOMAIN batches' PROVE BatchGood(b, batches[b])'
    OBVIOUS
  <2>1. batches'[b] \in BatchRecords /\ batches'[b].state \in {"sent", "queued"}
    BY <1>1
  <2>2. batches'[b].state # "ok" /\ batches'[b].state # "failed"
    BY <2>1
  <2> QED
    BY <2>1, <2>2 DEF BatchGood
<1> QED
  BY <1>1, <1>2 DEF BatchesKept

\* Nothing is collected from no batch.
LEMMA NothingJoined ==
    ASSUME NEW bs, DOMAIN bs = {}
    PROVE  Joined([b \in DOMAIN bs |-> bs[b].got]) = <<>>
<1> DEFINE parts == [b \in DOMAIN bs |-> bs[b].got]
<1>1. parts = <<>> /\ <<>> \in Seq(Seq(Texts)) /\ Len(<<>>) = 0
  OBVIOUS
<1> HIDE DEF parts
<1>2. parts \in Seq(Seq(Texts)) /\ Len(parts) = 0
  BY <1>1
<1>3. Joined(parts) = <<>>
  BY <1>2, JoinSteps
<1> QED
  BY <1>3 DEF parts

\* Without texts there are no batches.
LEMMA EmptyBatches ==
    ASSUME BatchesKept, inputs = <<>>
    PROVE  BatchNumbers = {} /\ batches = <<>>
<1>1. BatchCount(Len(inputs), BatchSize(client)) = 0
  BY EmptyText, SizesAre, NoBatches
<1>2. BatchNumbers = {}
  BY <1>1 DEF BatchNumbers
<1> QED
  BY <1>2 DEF BatchesKept

\* Nothing has been asked yet.
LEMMA EmbedStart == EmbedInit => EmbedInv
<1> SUFFICES ASSUME EmbedInit PROVE EmbedInv
  OBVIOUS
<1>1. EmbedTypes
  BY EmptyText DEF EmbedInit, EmbedTypes, Clients
<1>2. BatchCount(Len(inputs), BatchSize(client)) = 0
  BY EmptyText, SizesAre, NoBatches DEF EmbedInit
<1>3. BatchNumbers = {} /\ batches = <<>>
  BY <1>2 DEF BatchNumbers, EmbedInit
<1>4. BatchesKept
  BY <1>3 DEF BatchesKept
<1> QED
  BY <1>1, <1>4 DEF EmbedInit, EmbedInv, AnswerKept, NotYetAsked, Searched

\* A query is asked: nothing is embedded yet.
LEMMA AskKeeps == EmbedInv /\ Ask => EmbedInv'
<1> SUFFICES ASSUME EmbedInv, Ask PROVE EmbedInv'
  OBVIOUS
<1>1. inputs = <<>> /\ answer = Pending /\ batches = <<>> /\ BatchNumbers = {}
  BY EmptyBatches DEF EmbedInv, NotYetAsked, Ask
<1>2. text' \in Texts /\ setup \in ExpanderConfigs
  BY EmbedAssumption DEF Ask, EmbedInv, EmbedTypes
<1>3. expanded' \in Seq(Texts) \cup {Pending}
  <2>1. Expand(setup, text', <<>>) \in Seq(Texts)
    BY <1>2, EmptyText, ExpandIs
  <2> QED
    BY <2>1 DEF Ask
<1>4. passages' \in Seq(Texts \cup {Pending, NoText})
  <2>1. HydeDocs \in Nat
    BY DEF HydeDocs, HydeFromEnv
  <2>2. passages' \in [1 .. HydeDocs -> Texts \cup {Pending, NoText}]
    BY DEF Ask
  <2> QED
    BY <2>1, <2>2, SeqDef
<1>5. EmbedTypes'
  BY <1>2, <1>3, <1>4 DEF Ask, EmbedInv, EmbedTypes, Clients
<1>6. inputs' = <<>> /\ batches' = <<>> /\ answer' = Pending
  BY <1>1 DEF Ask
<1>7. BatchNumbers' = {}
  <2>1. BatchCount(Len(inputs'), BatchSize(client')) = 0
    BY <1>6, EmptyText, SizesAre, NoBatches
  <2> QED
    BY <2>1 DEF BatchNumbers
<1>8. BatchesKept'
  BY <1>6, <1>7 DEF BatchesKept
<1> QED
  BY <1>5, <1>6, <1>8 DEF Ask, EmbedInv, AnswerKept, NotYetAsked, Searched

\* The chunks of a document are handed to the client of the ingestion.
LEMMA EmbedDocumentKeeps == EmbedInv /\ EmbedDocument => EmbedInv'
<1> SUFFICES ASSUME EmbedInv, EmbedDocument PROVE EmbedInv'
  OBVIOUS
<1>1. inputs' \in Seq(Texts) /\ client' = "ingest" /\ batches' = FirstCalls(client', inputs')
  BY EmbedAssumption DEF EmbedDocument
<1>2. EmbedTypes'
  BY <1>1 DEF EmbedDocument, EmbedInv, EmbedTypes, Clients
<1>3. BatchesKept'
  BY <1>1, BatchesMade DEF Clients
<1>4. AnswerKept'
  <2>1. CASE inputs' # <<>>
    BY <2>1 DEF EmbedDocument, AnswerKept
  <2>2. CASE inputs' = <<>>
    <3>1. BatchNumbers' = {}
      <4>1. BatchCount(Len(inputs'), BatchSize(client')) = 0
        BY <2>2, EmptyText, SizesAre, NoBatches
      <4> QED
        BY <4>1 DEF BatchNumbers
    <3>2. batches' = <<>>
      BY <1>3, <3>1 DEF BatchesKept
    <3>3. Collected' = <<>>
      <4>1. DOMAIN batches' = {}
        BY <3>2
      <4> QED
        BY <4>1, NothingJoined DEF Collected
    <3> QED
      BY <2>2, <3>1, <3>3 DEF EmbedDocument, AnswerKept
  <2> QED
    BY <2>1, <2>2
<1> QED
  BY <1>1, <1>2, <1>3, <1>4 DEF EmbedInv, NotYetAsked, Searched

\* What a step that only touches the texts before the embedding leaves alone.
LEMMA Beforehand ==
    ASSUME EmbedInv, EmbedTypes', UNCHANGED <<client, text, setup, inputs, batches, answer>>
    PROVE  EmbedInv'
<1>1. BatchesKept' /\ AnswerKept' /\ NotYetAsked' /\ Searched'
  BY DEF EmbedInv, BatchesKept, AnswerKept, NotYetAsked, Searched, BatchNumbers, BatchGood,
         BatchTexts, Collected
<1> QED
  BY <1>1 DEF EmbedInv

\* The LLM answers the expander.
LEMMA LlmExpandsKeeps == EmbedInv /\ LlmExpands => EmbedInv'
<1> SUFFICES ASSUME EmbedInv, LlmExpands PROVE EmbedInv'
  OBVIOUS
<1>1. PICK lines \in SeqOf(LlmLines, 2) : expanded' = Expand(setup, text, lines)
  BY DEF LlmExpands
<1>2. lines \in Seq(Texts) /\ text \in Texts /\ setup \in ExpanderConfigs
  BY LinesAre, EmbedAssumption DEF EmbedInv, EmbedTypes
<1>3. expanded' \in Seq(Texts)
  BY <1>1, <1>2, ExpandIs
<1>4. EmbedTypes'
  BY <1>3 DEF LlmExpands, EmbedInv, EmbedTypes
<1> QED
  BY <1>4, Beforehand DEF LlmExpands

\* HyDE writes a passage, or does not.
LEMMA HydeKeeps ==
    ASSUME EmbedInv, NEW i \in DOMAIN passages, HydeWrites(i)
    PROVE  EmbedInv'
<1>1. PICK p \in HydeTexts \cup {NoText} : passages' = [passages EXCEPT ![i] = p]
  BY DEF HydeWrites
<1>2. p \in Texts \cup {Pending, NoText}
  BY EmbedAssumption
<1>3. passages' \in Seq(Texts \cup {Pending, NoText})
  BY <1>1, <1>2 DEF EmbedInv, EmbedTypes
<1>4. EmbedTypes'
  BY <1>3 DEF HydeWrites, EmbedInv, EmbedTypes
<1> QED
  BY <1>4, Beforehand DEF HydeWrites

\* The texts of a query are chosen and its batches made.
LEMMA StartEmbeddingKeeps == EmbedInv /\ StartEmbedding => EmbedInv'
<1> SUFFICES ASSUME EmbedInv, StartEmbedding PROVE EmbedInv'
  OBVIOUS
<1>1. text \in Texts /\ expanded \in Seq(Texts) /\ client = "query" /\ answer = Pending
  BY DEF EmbedInv, EmbedTypes, NotYetAsked, StartEmbedding, Enhanced
<1>2. Written \in Seq(Texts)
  <2> DEFINE X == Texts \cup {Pending, NoText}
  <2>1. passages \in Seq(X) /\ \A i \in DOMAIN passages : passages[i] # Pending
    BY DEF EmbedInv, EmbedTypes, StartEmbedding, Enhanced
  <2> HIDE DEF X
  <2>2. /\ Written \in Seq(X)
        /\ \A k \in 1 .. Len(Written) :
               \E i \in 1 .. Len(passages) : passages[i] \notin {NoText} /\ Written[k] = passages[i]
    <3> DEFINE D == {NoText}
               kept == Without(passages, D)
    <3>1. passages \in Seq(X)
      BY <2>1
    <3> HIDE DEF D
    <3>2. /\ kept \in Seq(X)
          /\ \A k \in 1 .. Len(kept) :
                 \E i \in 1 .. Len(passages) : passages[i] \notin D /\ kept[k] = passages[i]
      <4>1. /\ Without(passages, D) \in Seq(X)
            /\ \A k \in 1 .. Len(Without(passages, D)) :
                   \E i \in 1 .. Len(passages) :
                       passages[i] \notin D /\ Without(passages, D)[k] = passages[i]
            /\ \A i \in 1 .. Len(passages) : passages[i] \notin D =>
                   \E k \in 1 .. Len(Without(passages, D)) : Without(passages, D)[k] = passages[i]
        BY ONLY <3>1, WithoutIs
      <4> QED
        BY <4>1, Zenon
    <3>3. Written = kept
      BY DEF Written, D
    <3> QED
      BY <3>2, <3>3 DEF D
  <2>3. DOMAIN passages = 1 .. Len(passages) /\ \A i \in 1 .. Len(passages) : passages[i] \in X
    BY <2>1, LenProperties
  <2>4. \A k \in 1 .. Len(Written) : Written[k] \in Texts
    BY <2>1, <2>2, <2>3 DEF X
  <2>5. Len(Written) \in Nat /\ Written \in [1 .. Len(Written) -> X]
    BY <2>2, LenProperties
  <2>6. Written \in [1 .. Len(Written) -> Texts]
    BY <2>4, <2>5
  <2> QED
    BY <2>5, <2>6, SeqDef
<1>3. inputs' = Inputs(text, expanded, Written)
  BY DEF StartEmbedding
<1>4. /\ inputs' \in Seq(Texts) /\ Once(inputs')
      /\ Trim(text) # <<>> => \E k \in 1 .. Len(inputs') : inputs'[k] = Trim(text)
  BY <1>1, <1>2, <1>3, InputsAre
<1>5. client' = client /\ text' = text /\ answer' = Pending
  BY <1>1 DEF StartEmbedding
<1>6. EmbedTypes'
  BY <1>4 DEF StartEmbedding, EmbedInv, EmbedTypes
<1>7. BatchesKept'
  BY <1>1, <1>4, <1>5, BatchesMade DEF StartEmbedding, Clients
<1>8. Searched' /\ AnswerKept' /\ NotYetAsked'
  BY <1>1, <1>4, <1>5 DEF Searched, AnswerKept, NotYetAsked
<1> QED
  BY <1>6, <1>7, <1>8 DEF EmbedInv

\* The caller is answered when every batch has ended.
LEMMA GatherKeeps == EmbedInv /\ Gather => EmbedInv'
<1> SUFFICES ASSUME EmbedInv, Gather PROVE EmbedInv'
  OBVIOUS
<1>1. UNCHANGED <<client, text, setup, expanded, passages, inputs, batches>> /\ batches # <<>>
  BY DEF Gather
<1>2. BatchNumbers' = BatchNumbers /\ Collected' = Collected /\ DOMAIN batches = BatchNumbers
  BY <1>1 DEF BatchNumbers, Collected, EmbedInv, BatchesKept
<1>3. AnswerKept'
  BY <1>1, <1>2 DEF Gather, AnswerKept, Settled
<1>4. BatchesKept'
  BY <1>1 DEF EmbedInv, BatchesKept, BatchNumbers, BatchGood, BatchTexts
<1>5. inputs # <<>>
  BY <1>1, EmptyBatches DEF EmbedInv
<1>6. EmbedTypes' /\ NotYetAsked' /\ Searched'
  BY <1>1, <1>5 DEF EmbedInv, EmbedTypes, NotYetAsked, Searched
<1> QED
  BY <1>3, <1>4, <1>6 DEF EmbedInv

\* Every step of the embedding keeps the invariant.
LEMMA EmbedStepKeeps == EmbedInv /\ [EmbedNext]_embedVars => EmbedInv'
<1> SUFFICES ASSUME EmbedInv, [EmbedNext]_embedVars PROVE EmbedInv'
  OBVIOUS
<1>1. CASE Ask
  BY <1>1, AskKeeps
<1>2. CASE EmbedDocument
  BY <1>2, EmbedDocumentKeeps
<1>3. CASE LlmExpands
  BY <1>3, LlmExpandsKeeps
<1>4. CASE StartEmbedding
  BY <1>4, StartEmbeddingKeeps
<1>5. CASE Gather
  BY <1>5, GatherKeeps
<1>6. CASE \E i \in DOMAIN passages : HydeWrites(i)
  BY <1>6, HydeKeeps
<1>7. CASE \E b \in DOMAIN batches : CallEnds(b) \/ CallAgain(b) \/ CallNext(b)
  <2>1. PICK b \in DOMAIN batches : CallEnds(b) \/ CallAgain(b) \/ CallNext(b)
    BY <1>7
  <2>2. CASE CallEnds(b)
    BY <2>2, CallEndsKeeps
  <2>3. CASE CallAgain(b) \/ CallNext(b)
    BY <2>3, CallGoesOn
  <2> QED
    BY <2>1, <2>2, <2>3
<1>8. CASE UNCHANGED embedVars
  <2>1. EmbedTypes' /\ UNCHANGED <<client, text, setup, inputs, batches, answer>>
    BY <1>8 DEF embedVars, EmbedInv, EmbedTypes
  <2> QED
    BY <2>1, Beforehand
<1> QED
  BY <1>1, <1>2, <1>3, <1>4, <1>5, <1>6, <1>7, <1>8 DEF EmbedNext, EmbedStep

----------------------------------------------------------------------------

\* What is collected, once every batch has its vectors, fits the texts.
LEMMA CollectedFits ==
    ASSUME EmbedInv, \A b \in BatchNumbers : batches[b].state = "ok"
    PROVE  /\ Fits(Collected, inputs)
           /\ client = "query" => Len(Collected) = Len(inputs)
<1> DEFINE size == BatchSize(client)
           parts == [b \in DOMAIN batches |-> batches[b].got]
           n == BatchCount(Len(inputs), size)
<1>1. inputs \in Seq(Texts) /\ size \in Nat \ {0} /\ BatchNumbers = 1 .. n
  BY SizesAre DEF EmbedInv, EmbedTypes, BatchNumbers
<1>2. n \in Nat
  BY <1>1, BatchIs
<1>3. Collected = Joined(parts)
  BY DEF Collected
<1>4. DOMAIN batches = 1 .. n
  BY <1>1 DEF EmbedInv, BatchesKept
<1>5. ASSUME NEW b \in 1 .. n
      PROVE  /\ parts[b] \in Seq(Texts) /\ Fits(parts[b], InBatches(inputs, size)[b])
             /\ client = "query" => Len(parts[b]) = Len(InBatches(inputs, size)[b])
  <2>1. BatchGood(b, batches[b]) /\ batches[b].state = "ok"
    BY <1>1 DEF EmbedInv, BatchesKept
  <2>2. BatchTexts(b) = InBatches(inputs, size)[b] /\ parts[b] = batches[b].got
    BY <1>4 DEF BatchTexts
  <2> QED
    BY <2>1, <2>2 DEF BatchGood, Fits
<1>6. parts \in [1 .. n -> Seq(Texts)]
  BY <1>4, <1>5
<1> HIDE DEF parts, size, n
<1>7. parts \in Seq(Seq(Texts)) /\ Len(parts) = n
  BY <1>2, <1>6, SeqDef, LenProperties
<1>8. /\ Fits(Joined(parts), inputs)
      /\ (\A k \in 1 .. Len(parts) : Len(parts[k]) = Len(InBatches(inputs, size)[k])) =>
             Len(Joined(parts)) = Len(inputs)
  BY <1>1, <1>5, <1>7, TogetherFits DEF n
<1> QED
  BY <1>3, <1>5, <1>7, <1>8

\* What the invariant says of the answer is what the caller relies on.
LEMMA EmbedInvFaithful == EmbedInv => EmbeddingFaithful
<1> SUFFICES ASSUME EmbedInv PROVE EmbeddingFaithful
  OBVIOUS
<1>1. QueryIsSearched
  <2> SUFFICES ASSUME client = "query", inputs # <<>>
               PROVE  /\ Trim(text) # <<>> =>
                             Cardinality({i \in DOMAIN inputs : inputs[i] = Trim(text)}) = 1
                      /\ IsInjective(inputs)
    BY DEF QueryIsSearched
  <2>1. Once(inputs) /\ DOMAIN inputs = 1 .. Len(inputs)
    BY LenProperties DEF EmbedInv, EmbedTypes, Searched
  <2>2. IsInjective(inputs)
    BY <2>1 DEF IsInjective, Once
  <2>3. ASSUME Trim(text) # <<>>
        PROVE  Cardinality({i \in DOMAIN inputs : inputs[i] = Trim(text)}) = 1
    <3>1. PICK i \in 1 .. Len(inputs) : inputs[i] = Trim(text)
      BY <2>3 DEF EmbedInv, Searched
    <3>2. {j \in DOMAIN inputs : inputs[j] = Trim(text)} = {i}
      BY <2>1, <3>1 DEF Once
    <3> QED
      BY <3>2, FS_Singleton
  <2> QED
    BY <2>2, <2>3
<1>2. VectorsMatchTexts
  <2> SUFFICES ASSUME answer # Pending, answer # Failure
               PROVE  /\ Len(answer) = Len(inputs) => answer = inputs
                      /\ client = "query" => Len(answer) = Len(inputs)
                      /\ Len(answer) <= Len(inputs)
    BY DEF VectorsMatchTexts, VectorsReturned
  <2>1. answer = Collected /\ \A b \in BatchNumbers : batches[b].state = "ok"
    BY DEF EmbedInv, AnswerKept
  <2> QED
    BY <2>1, CollectedFits DEF Fits
<1>3. FailureHasCause
  <2> SUFFICES ASSUME answer # Pending
               PROVE  answer = Failure <=>
                          \E b \in DOMAIN batches :
                              /\ batches[b].state = "failed"
                              /\ Retryable(batches[b].why) => batches[b].tries = EmbedRetries
    BY DEF FailureHasCause
  <2>1. DOMAIN batches = BatchNumbers /\ \A b \in BatchNumbers : BatchGood(b, batches[b])
    BY DEF EmbedInv, BatchesKept
  <2>2. CASE answer = Failure /\ \E b \in BatchNumbers : batches[b].state = "failed"
    BY <2>1, <2>2 DEF BatchGood
  <2>3. CASE answer = Collected /\ \A b \in BatchNumbers : batches[b].state = "ok"
    <3>1. Collected \in Seq(Texts)
      BY <2>3, CollectedFits DEF Fits
    <3>2. answer # Failure
      BY <2>3, <3>1, EmbedAssumption
    <3> QED
      BY <2>1, <2>3, <3>2
  <2> QED
    BY <2>2, <2>3 DEF EmbedInv, AnswerKept
<1> QED
  BY <1>1, <1>2, <1>3 DEF EmbeddingFaithful

\* The inductive invariant of the embedding, kept by every step of the expander, of
\* HyDE and of the two embedding clients.
THEOREM EmbedInductive == EmbedSpec => []EmbedInv
<1> QED
  BY EmbedStart, EmbedStepKeeps, PTL DEF EmbedSpec

\* A query is embedded as it was asked, each vector is that of its own text, and an
\* error is told only when a batch failed for good: embed_query and embed_batch.
THEOREM EmbeddingIsFaithful == EmbedSpec => []EmbeddingFaithful
<1> QED
  BY EmbedInductive, EmbedInvFaithful, PTL

----------------------------------------------------------------------------
(* Rankings: finite sets and the sequences that list them.                *)

\* The values of a function on a finite set are finitely many.
LEMMA ImageFinite ==
    ASSUME NEW S, IsFiniteSet(S), NEW f
    PROVE  IsFiniteSet({f[x] : x \in S})
<1> DEFINE T == {f[x] : x \in S}
           g == [x \in S |-> f[x]]
<1>1. g \in [S -> T] /\ \A t \in T : \E x \in S : g[x] = t
  OBVIOUS
<1> HIDE DEF T, g
<1>2. g \in Surjection(S, T)
  BY <1>1, Fun_IsSurj
<1>3. IsFiniteSet(T)
  BY <1>2, FS_Surjection
<1> QED
  BY <1>3 DEF T

\* A sequence of keys whose scores never rise.
Descends(s, score) == \A i, j \in DOMAIN s : i < j => score[s[i]] >= score[s[j]]

\* The sequences that list a set.
LEMMA SeqsAre ==
    ASSUME NEW S, NEW f
    PROVE  f \in SetToSeqs(S) <=>
               /\ f \in [1 .. Cardinality(S) -> S]
               /\ \A i, j \in 1 .. Cardinality(S) : i # j => f[i] # f[j]
BY DEF SetToSeqs

\* A finite set can be listed in the order of its scores.
LEMMA SortedExists ==
    ASSUME NEW S, IsFiniteSet(S), NEW score, \A c \in S : score[c] \in Nat
    PROVE  \E s \in SetToSeqs(S) : Descends(s, score)
<1> DEFINE n == Cardinality(S)
           Listed(T) == \E s \in SetToSeqs(T) : Descends(s, score)
           Good == {m \in 0 .. n : \A T \in SUBSET S : Cardinality(T) = m => Listed(T)}
<1>1. n \in Nat /\ 0 \in 0 .. n
  BY FS_CardinalityType
<1>2. 0 \in Good
  <2> SUFFICES ASSUME NEW T \in SUBSET S, Cardinality(T) = 0 PROVE Listed(T)
    BY <1>1
  <2>1. <<>> \in [1 .. 0 -> T] /\ DOMAIN <<>> = {} /\ 1 .. 0 = {}
    OBVIOUS
  <2>2. <<>> \in SetToSeqs(T)
    BY <2>1, SeqsAre
  <2> QED
    BY <2>1, <2>2 DEF Descends
<1>3. ASSUME NEW m \in 0 .. n - 1, m \in Good PROVE m + 1 \in Good
  <2>1. m \in Nat /\ m + 1 \in 0 .. n
    BY <1>1
  <2> SUFFICES ASSUME NEW T \in SUBSET S, Cardinality(T) = m + 1 PROVE Listed(T)
    BY <2>1
  <2>2. IsFiniteSet(T) /\ T # {}
    BY <2>1, FS_Subset, FS_EmptySet
  <2> DEFINE Gained == {score[c] : c \in T}
             least == CHOOSE x \in Gained : \A w \in Gained : x <= w
  <2>3. Gained \in SUBSET Nat /\ Gained # {}
    BY <2>2
  <2>4. least \in Gained /\ \A w \in Gained : least <= w
    <3> HIDE DEF Gained
    <3> QED
      BY <2>3, LeastNumber
  <2> HIDE DEF least
  <2>5. PICK e \in T : \A c \in T : score[c] >= score[e]
    BY <2>4
  <2>6. Cardinality(T \ {e}) = m /\ T \ {e} \in SUBSET S
    <3>1. Cardinality(T \ {e}) = Cardinality(T) - 1
      BY <2>2, <2>5, FS_RemoveElement
    <3> QED
      BY <2>1, <3>1
  <2>7. PICK s \in SetToSeqs(T \ {e}) : Descends(s, score)
    BY <1>3, <2>6
  <2>8. s \in [1 .. m -> T \ {e}] /\ \A i, j \in 1 .. m : i # j => s[i] # s[j]
    BY <2>6, SeqsAre
  <2> DEFINE t == [i \in 1 .. m + 1 |-> IF i = m + 1 THEN e ELSE s[i]]
  <2>9. ASSUME NEW i \in 1 .. m + 1
        PROVE  t[i] \in T /\ (i # m + 1 => i \in 1 .. m /\ t[i] = s[i] /\ t[i] # e)
                          /\ (i = m + 1 => t[i] = e)
    BY <2>1, <2>8
  <2>10. DOMAIN t = 1 .. m + 1 /\ t \in [1 .. m + 1 -> T]
    BY <2>9
  <2> HIDE DEF t
  <2>11. \A i, j \in 1 .. m + 1 : i # j => t[i] # t[j]
    BY <2>8, <2>9
  <2>12. t \in SetToSeqs(T)
    BY <2>10, <2>11, SeqsAre
  <2>13. ASSUME NEW i \in 1 .. m + 1, NEW j \in 1 .. m + 1, i < j
         PROVE  score[t[i]] >= score[t[j]]
    <3>1. CASE j = m + 1
      BY <2>5, <2>9, <3>1
    <3>2. CASE j # m + 1
      <4>1. i # m + 1 /\ DOMAIN s = 1 .. m
        BY <2>1, <2>8, <2>13
      <4> QED
        BY <2>7, <2>9, <2>13, <3>2, <4>1 DEF Descends
    <3> QED
      BY <3>1, <3>2
  <2> QED
    BY <2>10, <2>12, <2>13 DEF Descends
<1> HIDE DEF Good
<1>4. n \in Good
  <2>1. \A k \in 0 .. n - 1 : k \in Good => k + 1 \in Good
    BY <1>3
  <2> HIDE DEF n
  <2>2. \A k \in 0 .. n : k \in Good
    BY <1>1, <1>2, <2>1, UpTo
  <2> QED
    BY <1>1, <2>2
<1> QED
  BY <1>4 DEF Good

\* Such a list holds the whole set.
LEMMA ListsAll ==
    ASSUME NEW S, IsFiniteSet(S), NEW s \in SetToSeqs(S)
    PROVE  /\ Cardinality(S) \in Nat
           /\ s \in Seq(S) /\ s \in [1 .. Cardinality(S) -> S] /\ Len(s) = Cardinality(S)
           /\ \A i, j \in 1 .. Cardinality(S) : i # j => s[i] # s[j]
           /\ \A c \in S : \E i \in 1 .. Cardinality(S) : s[i] = c
<1> DEFINE n == Cardinality(S)
<1>1. n \in Nat
  BY FS_CardinalityType
<1>2. s \in [1 .. n -> S] /\ \A i, j \in 1 .. n : i # j => s[i] # s[j]
  BY SeqsAre
<1> HIDE DEF n
<1>3. s \in Seq(S) /\ Len(s) = n
  BY <1>1, <1>2
<1>4. IsFiniteSet(1 .. n) /\ Cardinality(1 .. n) = n
  BY <1>1, FS_Interval
<1>5. s \in Injection(1 .. n, S)
  BY <1>2, Fun_IsInj
<1>6. s \in Surjection(1 .. n, S)
  BY <1>4, <1>5, FS_Injection DEF n
<1>7. \A c \in S : \E i \in 1 .. n : s[i] = c
  BY <1>6 DEF Surjection
<1> QED
  BY <1>1, <1>2, <1>3, <1>7 DEF n

\* The greatest and the least of finitely many numbers.
LEMMA GreatestOf ==
    ASSUME NEW S \in SUBSET Nat, IsFiniteSet(S), S # {}
    PROVE  /\ Max(S) \in S /\ \A x \in S : Max(S) >= x
           /\ Min(S) \in S /\ \A x \in S : Min(S) <= x
<1> DEFINE f == [x \in S |-> x]
<1>1. PICK s \in SetToSeqs(S) : Descends(s, f)
  <2>1. \A c \in S : f[c] \in Nat
    OBVIOUS
  <2> HIDE DEF f
  <2> QED
    BY <2>1, SortedExists
<1>2. /\ Cardinality(S) \in Nat /\ s \in [1 .. Cardinality(S) -> S]
      /\ \A c \in S : \E i \in 1 .. Cardinality(S) : s[i] = c
  BY ListsAll
<1>3. 1 \in 1 .. Cardinality(S)
  <2>1. PICK c \in S : TRUE
    OBVIOUS
  <2>2. PICK i \in 1 .. Cardinality(S) : s[i] = c
    BY <1>2, <2>1
  <2> QED
    BY <1>2, <2>2
<1>4. s[1] \in S /\ \A x \in S : s[1] >= x
  <2> SUFFICES ASSUME NEW x \in S PROVE s[1] >= x
    BY <1>2, <1>3
  <2>1. PICK i \in 1 .. Cardinality(S) : s[i] = x
    BY <1>2
  <2>2. CASE i = 1
    BY <2>1, <2>2
  <2>3. CASE i # 1
    <3>1. 1 < i /\ 1 \in DOMAIN s /\ i \in DOMAIN s
      BY <1>2, <1>3, <2>3
    <3>2. f[s[1]] >= f[s[i]]
      BY <1>1, <3>1 DEF Descends
    <3>3. s[1] \in S
      BY <1>2, <1>3
    <3> QED
      BY <2>1, <3>2, <3>3
  <2> QED
    BY <2>2, <2>3
<1>5. Max(S) \in S /\ \A x \in S : Max(S) >= x
  BY <1>4 DEF Max
<1>6. Min(S) \in S /\ \A x \in S : Min(S) <= x
  BY LeastNumber DEF Min
<1> QED
  BY <1>5, <1>6

----------------------------------------------------------------------------
(* Rankings: lists of hits.                                               *)

\* A list of hits: each chunk once, the best score first.
Hits == [id : Ids, score : Int]
HitList(s) ==
    /\ s \in Seq(Hits) /\ Len(s) \in Nat /\ DOMAIN s = 1 .. Len(s)
    /\ Distinct(s) /\ Descending(s)

\* What a store returns is one.
LEMMA ListsAre ==
    ASSUME NEW s \in Lists
    PROVE  /\ HitList(s) /\ Len(s) \in 0 .. MaxList
           /\ \A i \in 1 .. Len(s) : s[i].score \in Nat /\ s[i].score \in Scores
<1>1. PICK m \in 0 .. MaxList : s \in [1 .. m -> ScoredItem]
  BY DEF Lists, SeqOf
<1>2. m \in Nat /\ MaxList \in Nat /\ Scores \subseteq Nat
  BY RankingAssumption
<1>3. s \in Seq(ScoredItem) /\ Len(s) = m /\ DOMAIN s = 1 .. m
  BY <1>1, <1>2
<1>4. \A x \in ScoredItem : x \in Hits /\ x.score \in Nat /\ x.score \in Scores
  <2> SUFFICES ASSUME NEW x \in [id : Ids, score : Scores]
               PROVE  x \in [id : Ids, score : Int] /\ x.score \in Nat /\ x.score \in Scores
    BY DEF ScoredItem, Hits
  <2>1. x.score \in Scores /\ x.id \in Ids
    OBVIOUS
  <2>2. x = [id |-> x.id, score |-> x.score]
    OBVIOUS
  <2>3. \A v \in Scores : v \in Nat /\ v \in Int
    BY <1>2
  <2> QED
    BY <2>1, <2>2, <2>3
<1>5. s \in Seq(Hits)
  <2>1. s \in [1 .. m -> Hits]
    BY <1>1, <1>4
  <2> QED
    BY <1>2, <2>1
<1> QED
  BY <1>1, <1>2, <1>3, <1>4, <1>5 DEF HitList, Lists

\* A chunk is in one place of a list.
LEMMA AtIs ==
    ASSUME NEW s, Distinct(s), NEW i \in DOMAIN s
    PROVE  At(s, s[i].id) = i /\ ScoreIn(s, s[i].id) = s[i].score /\ s[i].id \in IdsOf(s)
<1>1. \A j \in DOMAIN s : s[j].id = s[i].id <=> j = i
  BY DEF Distinct
<1>2. At(s, s[i].id) = i
  BY <1>1 DEF At
<1> QED
  BY <1>2 DEF ScoreIn, IdsOf

\* The place of a chunk of the list.
LEMMA AtIn ==
    ASSUME NEW s, NEW id \in IdsOf(s)
    PROVE  At(s, id) \in DOMAIN s /\ s[At(s, id)].id = id
<1>1. PICK i \in DOMAIN s : s[i].id = id
  BY DEF IdsOf
<1> QED
  BY <1>1 DEF At

\* The chunks of a list are finitely many.
LEMMA IdsFinite ==
    ASSUME NEW s, Len(s) \in Nat, DOMAIN s = 1 .. Len(s)
    PROVE  IsFiniteSet(IdsOf(s))
<1> DEFINE f == [i \in DOMAIN s |-> s[i].id]
<1>1. IsFiniteSet(DOMAIN s)
  BY FS_Interval
<1>2. IsFiniteSet({f[i] : i \in DOMAIN s})
  <2> HIDE DEF f
  <2> QED
    BY <1>1, ImageFinite
<1>3. {f[i] : i \in DOMAIN s} = IdsOf(s)
  BY DEF IdsOf
<1> QED
  BY <1>2, <1>3

\* Sorting keeps the chunks, each once, with their scores.
LEMMA SortedIs ==
    ASSUME NEW ids \in SUBSET Ids, IsFiniteSet(ids), NEW score \in [ids -> Int],
           NEW s \in Sorted(ids, score)
    PROVE  /\ HitList(s) /\ IdsOf(s) = ids
           /\ \A i \in DOMAIN s : s[i].id \in ids /\ s[i].score = score[s[i].id]
<1> DEFINE pair == [d \in ids |-> [id |-> d, score |-> score[d]]]
           S == {pair[d] : d \in ids}
<1>1. IsFiniteSet(S)
  <2> HIDE DEF pair
  <2> QED
    BY ImageFinite
<1>2. s \in SetToSeqs(S) /\ Descending(s)
  <2>1. S = {[id |-> d, score |-> score[d]] : d \in ids}
    OBVIOUS
  <2> HIDE DEF S
  <2> QED
    BY <2>1 DEF Sorted
<1>3. \A x \in S : x \in Hits /\ x.id \in ids /\ x.score = score[x.id] /\ x = pair[x.id]
  BY DEF Hits
<1>4. \A d \in ids : pair[d] \in S /\ pair[d].id = d
  OBVIOUS
<1> HIDE DEF S, pair
<1>5. /\ s \in Seq(S) /\ Len(s) \in Nat /\ DOMAIN s = 1 .. Len(s)
      /\ \A i, j \in 1 .. Len(s) : i # j => s[i] # s[j]
      /\ \A c \in S : \E i \in 1 .. Len(s) : s[i] = c
  BY <1>1, <1>2, ListsAll
<1>6. \A i \in DOMAIN s : s[i] \in S
  BY <1>5
<1>7. s \in Seq(Hits)
  <2>1. s \in [1 .. Len(s) -> Hits]
    <3>1. s \in [1 .. Len(s) -> S]
      BY <1>5
    <3> QED
      BY <1>3, <3>1
  <2> QED
    BY <1>5, <2>1
<1>8. Distinct(s)
  <2> SUFFICES ASSUME NEW i \in DOMAIN s, NEW j \in DOMAIN s, i # j, s[i].id = s[j].id
               PROVE  FALSE
    BY DEF Distinct
  <2>1. s[i] = s[j]
    BY <1>3, <1>6
  <2> QED
    BY <1>5, <2>1
<1>9. IdsOf(s) = ids
  <2>1. IdsOf(s) \subseteq ids
    BY <1>3, <1>6 DEF IdsOf
  <2>2. ASSUME NEW d \in ids PROVE d \in IdsOf(s)
    <3>1. PICK i \in 1 .. Len(s) : s[i] = pair[d]
      BY <1>4, <1>5
    <3> QED
      BY <1>4, <1>5, <3>1 DEF IdsOf
  <2> QED
    BY <2>1, <2>2
<1> QED
  BY <1>2, <1>3, <1>5, <1>6, <1>7, <1>8, <1>9 DEF HitList

----------------------------------------------------------------------------
(* Sums.                                                                   *)

\* The recursive function that Summed is defined by exists.
LEMMA SummedFunction ==
    ASSUME NEW f, NEW m \in Nat
    PROVE  \E g : g = [n \in 0 .. m |-> IF n = 0 THEN 0 ELSE g[n - 1] + f[n]]
<1> DEFINE Is(k, g) == g = [n \in 0 .. k |-> IF n = 0 THEN 0 ELSE g[n - 1] + f[n]]
           Good == {k \in 0 .. m : \E g : Is(k, g)}
<1>1. 0 \in Good
  <2> DEFINE g == [n \in 0 .. 0 |-> 0]
  <2>1. \A n \in 0 .. 0 : n = 0
    OBVIOUS
  <2>2. g = [n \in 0 .. 0 |-> IF n = 0 THEN 0 ELSE g[n - 1] + f[n]]
    BY <2>1
  <2> HIDE DEF g
  <2> QED
    BY <2>2
<1>2. ASSUME NEW k \in 0 .. m - 1, k \in Good PROVE k + 1 \in Good
  <2>1. PICK g : Is(k, g)
    BY <1>2
  <2> DEFINE h == [n \in 0 .. k + 1 |-> IF n = k + 1 THEN g[k] + f[n] ELSE g[n]]
  <2>2. ASSUME NEW n \in 0 .. k + 1
        PROVE  h[n] = IF n = 0 THEN 0 ELSE h[n - 1] + f[n]
    <3>1. CASE n = k + 1
      <4>1. n # 0 /\ n - 1 = k /\ k \in 0 .. k + 1 /\ k # k + 1
        BY <3>1
      <4>2. h[n] = g[k] + f[n] /\ h[k] = g[k]
        BY <3>1, <4>1
      <4> HIDE DEF h
      <4> QED
        BY <4>1, <4>2
    <3>2. CASE n # k + 1
      <4>1. n \in 0 .. k /\ (n # 0 => n - 1 \in 0 .. k + 1 /\ n - 1 # k + 1)
        BY <3>2
      <4>2. h[n] = g[n] /\ (n # 0 => h[n - 1] = g[n - 1])
        BY <3>2, <4>1
      <4> QED
        BY <2>1, <4>1, <4>2
    <3> QED
      BY <3>1, <3>2
  <2>3. h = [n \in 0 .. k + 1 |-> h[n]]
    OBVIOUS
  <2> HIDE DEF h
  <2>4. Is(k + 1, h)
    BY <2>2, <2>3
  <2>5. k + 1 \in 0 .. m
    OBVIOUS
  <2> QED
    BY <2>4, <2>5
<1> HIDE DEF Good
<1>3. \A k \in 0 .. m : k \in Good
  BY <1>1, <1>2, UpTo
<1>4. m \in Good
  BY <1>3
<1> QED
  BY <1>4 DEF Good

\* Summed goes through the numbers from the first to the last.
LEMMA SumSteps ==
    ASSUME NEW m \in Nat, NEW f \in [1 .. m -> Int]
    PROVE  \E g \in [0 .. m -> Int] :
               /\ g[0] = 0 /\ \A n \in 1 .. m : g[n] = g[n - 1] + f[n]
               /\ Summed(f) = g[m]
<1> DEFINE g == CHOOSE g : g = [n \in 0 .. m |-> IF n = 0 THEN 0 ELSE g[n - 1] + f[n]]
<1>1. Len(f) = m
  OBVIOUS
<1>2. g = [n \in 0 .. m |-> IF n = 0 THEN 0 ELSE g[n - 1] + f[n]]
  <2>1. \E h : h = [n \in 0 .. m |-> IF n = 0 THEN 0 ELSE h[n - 1] + f[n]]
    BY SummedFunction
  <2> QED
    BY <2>1, Zenon
<1>3. Summed(f) = g[m]
  BY <1>1, Zenon DEF Summed
<1> HIDE DEF g
<1>4. g[0] = 0 /\ \A n \in 1 .. m : g[n] = g[n - 1] + f[n]
  <2>1. 0 \in 0 .. m /\ \A n \in 1 .. m : n \in 0 .. m /\ n # 0
    OBVIOUS
  <2> QED
    BY <1>2, <2>1, Zenon
<1> DEFINE Good == {k \in 0 .. m : g[k] \in Int}
<1>5. 0 \in Good
  BY <1>4
<1>6. ASSUME NEW k \in 0 .. m - 1, k \in Good PROVE k + 1 \in Good
  <2>1. k + 1 \in 1 .. m /\ (k + 1) - 1 = k /\ k + 1 \in 0 .. m
    OBVIOUS
  <2>2. g[k + 1] = g[k] + f[k + 1] /\ f[k + 1] \in Int
    BY <1>4, <2>1
  <2> QED
    BY <1>6, <2>1, <2>2
<1> HIDE DEF Good
<1>7. \A k \in 0 .. m : k \in Good
  BY <1>5, <1>6, UpTo
<1>8. g \in [0 .. m -> Int]
  BY <1>2, <1>7 DEF Good
<1> QED
  BY <1>3, <1>4, <1>8

\* A sum of integers is one.
LEMMA SumInt ==
    ASSUME NEW m \in Nat, NEW f \in [1 .. m -> Int]
    PROVE  Summed(f) \in Int
<1>1. PICK g \in [0 .. m -> Int] : Summed(f) = g[m]
  BY SumSteps
<1> QED
  BY <1>1

\* A sum of naturals is one.
LEMMA SumNat ==
    ASSUME NEW m \in Nat, NEW f \in [1 .. m -> Nat]
    PROVE  Summed(f) \in Nat
<1>0. f \in [1 .. m -> Int]
  OBVIOUS
<1>1. PICK g \in [0 .. m -> Int] : /\ g[0] = 0 /\ \A n \in 1 .. m : g[n] = g[n - 1] + f[n]
                                   /\ Summed(f) = g[m]
  BY <1>0, SumSteps
<1> DEFINE Good == {k \in 0 .. m : g[k] \in Nat}
<1>2. 0 \in Good
  BY <1>1
<1>3. ASSUME NEW k \in 0 .. m - 1, k \in Good PROVE k + 1 \in Good
  <2>1. k + 1 \in 1 .. m /\ (k + 1) - 1 = k /\ k + 1 \in 0 .. m
    OBVIOUS
  <2>2. g[k + 1] = g[k] + f[k + 1] /\ f[k + 1] \in Nat
    BY <1>1, <2>1
  <2> QED
    BY <1>3, <2>1, <2>2
<1> HIDE DEF Good
<1>4. \A k \in 0 .. m : k \in Good
  BY <1>2, <1>3, UpTo
<1> QED
  BY <1>1, <1>4 DEF Good

\* A sum lies between the least and the greatest addend, as often as there are some.
LEMMA SumBetween ==
    ASSUME NEW m \in Nat, NEW f \in [1 .. m -> Nat], NEW F \in SUBSET (1 .. m),
           \A i \in (1 .. m) \ F : f[i] = 0,
           NEW lo \in Nat, NEW hi \in Nat, \A i \in F : lo <= f[i] /\ f[i] <= hi
    PROVE  /\ Summed(f) \in Nat /\ Cardinality(F) \in Nat
           /\ lo * Cardinality(F) <= Summed(f) /\ Summed(f) <= hi * Cardinality(F)
<1>0. f \in [1 .. m -> Int]
  OBVIOUS
<1>1. PICK g \in [0 .. m -> Int] : /\ g[0] = 0 /\ \A n \in 1 .. m : g[n] = g[n - 1] + f[n]
                                   /\ Summed(f) = g[m]
  BY <1>0, SumSteps
<1> DEFINE upto(k) == F \cap (1 .. k)
           Within(k) == /\ Cardinality(upto(k)) \in Nat /\ g[k] \in Nat
                        /\ lo * Cardinality(upto(k)) <= g[k]
                        /\ g[k] <= hi * Cardinality(upto(k))
           Good == {k \in 0 .. m : Within(k)}
<1>2. \A k \in 0 .. m : IsFiniteSet(upto(k))
  <2> SUFFICES ASSUME NEW k \in 0 .. m PROVE IsFiniteSet(F \cap (1 .. k))
    OBVIOUS
  <2>1. IsFiniteSet(1 .. k)
    BY FS_Interval
  <2>2. F \cap (1 .. k) \in SUBSET (1 .. k)
    OBVIOUS
  <2> QED
    BY <2>1, <2>2, FS_Subset
<1>3. 0 \in Good
  <2>1. upto(0) = {}
    OBVIOUS
  <2>2. Cardinality(upto(0)) = 0
    BY <2>1, FS_EmptySet
  <2> QED
    BY <1>1, <2>2
<1>4. ASSUME NEW k \in 0 .. m - 1, k \in Good PROVE k + 1 \in Good
  <2> DEFINE j == k + 1
  <2>1. j \in 1 .. m /\ j - 1 = k /\ j \in 0 .. m /\ k \in 0 .. m
    OBVIOUS
  <2>2. j \notin upto(k) /\ (j \in F => upto(j) = upto(k) \cup {j})
        /\ (j \notin F => upto(j) = upto(k))
    <3>1. j \notin 1 .. k /\ \A i : i \in 1 .. j <=> i \in 1 .. k \/ i = j
      BY <2>1
    <3> HIDE DEF j
    <3>2. \A i : i \in F \cap (1 .. j) <=> i \in F \cap (1 .. k) \/ (i = j /\ j \in F)
      BY <3>1
    <3> QED
      BY <3>1, <3>2
  <2>3. IsFiniteSet(upto(k))
    BY <1>2, <2>1
  <2>4. Within(k)
    BY <1>4
  <2> HIDE DEF j, upto
  <2>5. g[j] = g[k] + f[j] /\ f[j] \in Nat
    BY <1>1, <2>1
  <2> DEFINE c == Cardinality(upto(k))
             d == Cardinality(upto(j))
             x == g[k]
             y == f[j]
  <2>6. CASE j \in F
    <3>1. d = c + 1
      BY <2>2, <2>3, <2>6, FS_AddElement
    <3>2. lo <= y /\ y <= hi /\ y \in Nat
      BY <2>5, <2>6
    <3>3. c \in Nat /\ x \in Nat /\ lo * c <= x /\ x <= hi * c /\ g[j] = x + y
      BY <2>4, <2>5
    <3> HIDE DEF c, d, x, y
    <3>4. lo * (c + 1) = lo * c + lo /\ hi * (c + 1) = hi * c + hi
      BY <3>3
    <3>5. lo * c \in Nat /\ hi * c \in Nat
      BY <3>3, ProductNat
    <3>6. d \in Nat /\ g[j] \in Nat /\ lo * d <= g[j] /\ g[j] <= hi * d
      <4> DEFINE p == lo * c
                 q == hi * c
      <4>1. p \in Nat /\ q \in Nat /\ p <= x /\ x <= q
        BY <3>3, <3>5
      <4>2. lo * d = p + lo /\ hi * d = q + hi
        BY <3>1, <3>4
      <4> HIDE DEF p, q
      <4> QED
        BY <3>1, <3>2, <3>3, <4>1, <4>2
    <3>7. Within(j)
      BY <3>6 DEF d
    <3> QED
      BY <2>1, <3>7 DEF j
  <2>7. CASE j \notin F
    <3>1. d = c /\ y = 0
      BY <2>1, <2>2, <2>7
    <3>2. g[j] = x
      BY <2>4, <2>5, <3>1
    <3>3. Within(j)
      BY <2>4, <3>1, <3>2
    <3> QED
      BY <2>1, <3>3 DEF j
  <2> QED
    BY <2>6, <2>7
<1> HIDE DEF Good
<1>5. \A k \in 0 .. m : k \in Good
  BY <1>3, <1>4, UpTo
<1>6. upto(m) = F
  OBVIOUS
<1> QED
  BY <1>1, <1>5, <1>6 DEF Good

----------------------------------------------------------------------------
(* Rankings: what a list that has one chunk before another gives the two. *)

\* Products and quotients keep an order.
LEMMA ProductGrows ==
    ASSUME NEW k \in Nat, NEW x \in Int, NEW y \in Int, x <= y
    PROVE  k * x \in Int /\ k * y \in Int /\ k * x <= k * y
<1>1. k * x \in Int /\ k * y \in Int
  OBVIOUS
<1> DEFINE d == y - x
<1>2. d \in Nat /\ y = x + d
  OBVIOUS
<1> HIDE DEF d
<1>3. k * y = k * x + k * d /\ k * d \in Nat
  <2>1. k * (x + d) = k * x + k * d
    BY <1>2
  <2>2. k * d \in Nat
    BY <1>2, ProductNat
  <2> QED
    BY <1>2, <2>1, <2>2
<1> QED
  BY <1>1, <1>3

\* The same for quotients.
LEMMA QuotientGrows ==
    ASSUME NEW x \in Int, NEW y \in Int, NEW d \in Nat \ {0}, x <= y
    PROVE  x \div d \in Int /\ y \div d \in Int /\ x \div d <= y \div d
OBVIOUS

\* A larger divisor gives no larger quotient.
LEMMA QuotientShrinks ==
    ASSUME NEW u \in Nat, NEW d \in Nat \ {0}, NEW e \in Nat \ {0}, d <= e
    PROVE  u \div d \in Nat /\ u \div e \in Nat /\ u \div e <= u \div d
<1> DEFINE q == u \div e
           r == u \div d
<1>1. q \in Nat /\ q * e <= u
  BY SMTT(20)
<1>2. r \in Nat /\ u < r * d + d
  BY SMTT(20)
<1> HIDE DEF q, r
<1>3. q * d <= q * e /\ q * d \in Nat /\ q * e \in Nat
  BY <1>1, ProductGrows
<1>4. q <= r
  <2> SUFFICES ASSUME r + 1 <= q PROVE FALSE
    BY <1>1, <1>2
  <2>1. d * (r + 1) <= d * q
    BY <1>1, <1>2, ProductGrows
  <2>2. d * (r + 1) = r * d + d /\ d * q = q * d
    BY <1>1, <1>2
  <2>3. r * d \in Nat
    BY <1>2, ProductNat
  <2> DEFINE p == r * d
             v == q * d
             z == q * e
  <2>4. u < p + d /\ p + d <= v /\ v <= z /\ z <= u
        /\ p \in Nat /\ v \in Nat /\ z \in Nat
    BY <1>1, <1>2, <1>3, <2>1, <2>2, <2>3
  <2> HIDE DEF p, v, z
  <2> QED
    BY <2>4
<1> QED
  BY <1>1, <1>2, <1>4 DEF q, r

\* A weighted sum grows with both of its parts.
LEMMA WeightedGrows ==
    ASSUME NEW v \in Nat, NEW w \in Nat, NEW x \in Int, NEW y \in Int, x <= y,
           NEW p \in Int, NEW q \in Int, p <= q
    PROVE  v * x + w * p <= v * y + w * q /\ v * x + w * p \in Int /\ v * y + w * q \in Int
<1>1. v * x \in Int /\ v * y \in Int /\ v * x <= v * y
  BY ProductGrows
<1>2. w * p \in Int /\ w * q \in Int /\ w * p <= w * q
  BY ProductGrows
<1> DEFINE a == v * x
           b == v * y
           c == w * p
           d == w * q
<1> HIDE DEF a, b, c, d
<1>3. a \in Int /\ b \in Int /\ c \in Int /\ d \in Int /\ a <= b /\ c <= d
  BY <1>1, <1>2 DEF a, b, c, d
<1>4. a + c <= b + d /\ a + c \in Int /\ b + d \in Int
  BY <1>3
<1> QED
  BY <1>4 DEF a, b, c, d

----------------------------------------------------------------------------
(* A list that has one chunk before another gives it no smaller a part.    *)

\* What is ahead in a list has a smaller rank and no lower score.
LEMMA AheadIs ==
    ASSUME NEW s \in Lists, NEW a, NEW b \in IdsOf(s), Ahead(s, a, b)
    PROVE  /\ a \in IdsOf(s) /\ At(s, a) \in 1 .. Len(s) /\ At(s, b) \in 1 .. Len(s)
           /\ At(s, a) < At(s, b) /\ ScoreIn(s, a) >= ScoreIn(s, b)
<1>1. HitList(s)
  BY ListsAre
<1>2. a \in IdsOf(s) /\ At(s, a) < At(s, b)
  BY DEF Ahead
<1>3. At(s, a) \in DOMAIN s /\ At(s, b) \in DOMAIN s
  BY <1>2, AtIn
<1> QED
  BY <1>1, <1>2, <1>3 DEF HitList, Descending, ScoreIn

\* Rank and score of a chunk of a list.
LEMMA ScoreInIs ==
    ASSUME NEW s \in Lists, NEW id \in IdsOf(s)
    PROVE  At(s, id) \in 1 .. Len(s) /\ ScoreIn(s, id) \in Nat /\ Len(s) \in Nat
<1>1. At(s, id) \in DOMAIN s
  BY AtIn
<1> QED
  BY <1>1, ListsAre DEF HitList, ScoreIn

\* A later rank has no larger reciprocal.
LEMMA RrfScoreIs ==
    ASSUME NEW r \in Nat, NEW q \in Nat, r <= q
    PROVE  RrfScore(r) \in Nat /\ RrfScore(q) \in Nat /\ RrfScore(q) <= RrfScore(r)
<1>1. RrfK \in Nat \ {0} /\ RrfUnit \in Nat
  BY RankingAssumption DEF FusionConfigured
<1>2. RrfK + r \in Nat \ {0} /\ RrfK + q \in Nat \ {0} /\ RrfK + r <= RrfK + q
  BY <1>1
<1> QED
  BY <1>1, <1>2, QuotientShrinks DEF RrfScore

\* The reciprocal part of a chunk is a number ...
LEMMA RrfPartNat ==
    ASSUME NEW s \in Lists, NEW id
    PROVE  RrfPart(s, id) \in Nat
<1>1. CASE id \in IdsOf(s)
  <2>1. At(s, id) - 1 \in Nat
    BY <1>1, ScoreInIs
  <2> QED
    BY <1>1, <2>1, RrfScoreIs DEF RrfPart
<1>2. CASE id \notin IdsOf(s)
  BY <1>2 DEF RrfPart
<1> QED
  BY <1>1, <1>2

\* ... and no smaller for what is ahead.
LEMMA RrfPartIs ==
    ASSUME NEW s \in Lists, NEW a, NEW b, b \in IdsOf(s) => Ahead(s, a, b)
    PROVE  RrfPart(s, a) \in Nat /\ RrfPart(s, b) \in Nat /\ RrfPart(s, b) <= RrfPart(s, a)
<1>1. RrfPart(s, a) \in Nat /\ RrfPart(s, b) \in Nat
  BY RrfPartNat
<1>2. CASE b \in IdsOf(s)
  <2>1. /\ a \in IdsOf(s) /\ At(s, a) \in 1 .. Len(s) /\ At(s, b) \in 1 .. Len(s)
        /\ At(s, a) < At(s, b)
    BY <1>2, AheadIs
  <2>2. Len(s) \in Nat
    BY <1>2, ScoreInIs
  <2>3. At(s, a) - 1 \in Nat /\ At(s, b) - 1 \in Nat /\ At(s, a) - 1 <= At(s, b) - 1
    BY <2>1, <2>2
  <2>4. RrfScore(At(s, b) - 1) <= RrfScore(At(s, a) - 1)
    BY <2>3, RrfScoreIs
  <2> QED
    BY <1>1, <1>2, <2>1, <2>4 DEF RrfPart
<1>3. CASE b \notin IdsOf(s)
  <2>1. RrfPart(s, b) = 0
    BY <1>3 DEF RrfPart
  <2> QED
    BY <1>1, <2>1
<1> QED
  BY <1>2, <1>3

\* The greatest and the least score of a list.
LEMMA ExtremesAre ==
    ASSUME NEW s \in Lists, s # <<>>
    PROVE  /\ Greatest(s) \in Nat /\ Least(s) \in Nat /\ Least(s) <= Greatest(s)
           /\ \A id \in IdsOf(s) : Least(s) <= ScoreIn(s, id) /\ ScoreIn(s, id) <= Greatest(s)
<1> DEFINE f == [i \in DOMAIN s |-> s[i].score]
           V == {s[i].score : i \in DOMAIN s}
<1>1. HitList(s) /\ \A i \in 1 .. Len(s) : s[i].score \in Nat
  BY ListsAre
<1>2. DOMAIN s = 1 .. Len(s) /\ Len(s) \in Nat /\ 1 \in DOMAIN s
  BY <1>1 DEF HitList
<1>3. V \in SUBSET Nat /\ V # {} /\ \A i \in DOMAIN s : s[i].score \in V
  BY <1>1, <1>2
<1>4. IsFiniteSet(V)
  <2>1. IsFiniteSet(DOMAIN s)
    BY <1>2, FS_Interval
  <2>2. {f[i] : i \in DOMAIN s} = V
    OBVIOUS
  <2> HIDE DEF f, V
  <2>3. IsFiniteSet({f[i] : i \in DOMAIN s})
    BY <2>1, ImageFinite
  <2> QED
    BY <2>2, <2>3
<1>5. Greatest(s) = Max(V) /\ Least(s) = Min(V)
  BY DEF Greatest, Least
<1> HIDE DEF V
<1>6. /\ Max(V) \in V /\ \A x \in V : Max(V) >= x
      /\ Min(V) \in V /\ \A x \in V : Min(V) <= x
  BY <1>3, <1>4, GreatestOf
<1>7. ASSUME NEW id \in IdsOf(s) PROVE ScoreIn(s, id) \in V /\ ScoreIn(s, id) \in Nat
  BY <1>3, AtIn DEF ScoreIn
<1> QED
  BY <1>3, <1>5, <1>6, <1>7

\* The normalised score is a number ...
LEMMA NormalizedNat ==
    ASSUME NEW s \in Lists, NEW id
    PROVE  Normalized(s, id) \in Nat
<1>1. CASE id \in IdsOf(s)
  <2>1. s # <<>>
    BY <1>1 DEF IdsOf
  <2>2. ScoreIn(s, id) \in Nat /\ Least(s) \in Nat /\ Least(s) <= ScoreIn(s, id)
    BY <1>1, <2>1, ScoreInIs, ExtremesAre
  <2>3. ScoreIn(s, id) - Least(s) \in Nat
    BY <2>2
  <2> QED
    BY <1>1, <2>3 DEF Normalized
<1>2. CASE id \notin IdsOf(s)
  BY <1>2 DEF Normalized
<1> QED
  BY <1>1, <1>2

\* ... and no smaller for what is ahead.
LEMMA NormalizedIs ==
    ASSUME NEW s \in Lists, NEW a, NEW b, b \in IdsOf(s) => Ahead(s, a, b)
    PROVE  /\ Normalized(s, a) \in Nat /\ Normalized(s, b) \in Nat
           /\ Normalized(s, b) <= Normalized(s, a)
<1>0. \A id \in IdsOf(s) : s # <<>>
  BY DEF IdsOf
<1>1. Normalized(s, a) \in Nat /\ Normalized(s, b) \in Nat
  BY NormalizedNat
<1>2. CASE b \in IdsOf(s)
  <2>1. a \in IdsOf(s) /\ ScoreIn(s, a) >= ScoreIn(s, b)
    BY <1>2, AheadIs
  <2>2. ScoreIn(s, a) \in Nat /\ ScoreIn(s, b) \in Nat /\ Least(s) \in Nat
    BY <1>0, <1>2, <2>1, ScoreInIs, ExtremesAre
  <2>3. ScoreIn(s, b) - Least(s) <= ScoreIn(s, a) - Least(s)
    BY <2>1, <2>2
  <2>4. Normalized(s, b) <= Normalized(s, a)
    <3>1. CASE Greatest(s) = Least(s)
      BY <1>2, <2>1, <3>1 DEF Normalized
    <3>2. CASE Greatest(s) # Least(s)
      BY <1>2, <2>1, <2>3, <3>2 DEF Normalized
    <3> QED
      BY <3>1, <3>2
  <2> QED
    BY <1>1, <2>4
<1>3. CASE b \notin IdsOf(s)
  <2>1. Normalized(s, b) = 0
    BY <1>3 DEF Normalized
  <2> QED
    BY <1>1, <2>1
<1> QED
  BY <1>2, <1>3

\* The common denominators of the linear fusion are numbers.
LEMMA SpreadIs ==
    ASSUME NEW s \in Lists
    PROVE  Spread(s) \in Nat
<1>1. CASE s = <<>> \/ Greatest(s) = Least(s)
  BY <1>1 DEF Spread
<1>2. CASE ~(s = <<>> \/ Greatest(s) = Least(s))
  <2>1. Greatest(s) \in Nat /\ Least(s) \in Nat /\ Least(s) <= Greatest(s)
    BY <1>2, ExtremesAre
  <2>2. Greatest(s) - Least(s) \in Nat
    BY <2>1
  <2> QED
    BY <1>2, <2>2 DEF Spread
<1> QED
  BY <1>1, <1>2

\* The score without normalisation.
Raw(s, id) == IF id \in IdsOf(s) THEN ScoreIn(s, id) ELSE 0

\* It is a number, and no smaller for what is ahead.
LEMMA RawNat ==
    ASSUME NEW s \in Lists, NEW id
    PROVE  Raw(s, id) \in Nat
BY ScoreInIs DEF Raw

LEMMA RawIs ==
    ASSUME NEW s \in Lists, NEW a, NEW b, b \in IdsOf(s) => Ahead(s, a, b)
    PROVE  Raw(s, a) \in Nat /\ Raw(s, b) \in Nat /\ Raw(s, b) <= Raw(s, a)
<1>1. Raw(s, a) \in Nat /\ Raw(s, b) \in Nat
  BY RawNat
<1>2. CASE b \in IdsOf(s)
  <2>1. a \in IdsOf(s) /\ ScoreIn(s, a) >= ScoreIn(s, b)
    BY <1>2, AheadIs
  <2>2. Raw(s, a) = ScoreIn(s, a) /\ Raw(s, b) = ScoreIn(s, b)
    BY <1>2, <2>1 DEF Raw
  <2>3. Raw(s, a) \in Nat /\ Raw(s, b) \in Nat
    BY <1>1
  <2> QED
    BY <2>1, <2>2, <2>3
<1>3. CASE b \notin IdsOf(s)
  BY <1>1, <1>3 DEF Raw
<1> QED
  BY <1>2, <1>3

\* The deviation is a number, and a score is a whole number of units off the mean.
LEMMA OffIs ==
    ASSUME NEW s \in Lists, NEW i \in 1 .. Len(s)
    PROVE  Off(s, i) \in Int
<1> DEFINE f == [j \in DOMAIN s |-> s[j].score]
<1>1. /\ DOMAIN s = 1 .. Len(s) /\ Len(s) \in Nat
      /\ \A j \in 1 .. Len(s) : s[j].score \in Nat
  BY ListsAre DEF HitList
<1>2. f \in [1 .. Len(s) -> Int]
  BY <1>1
<1> HIDE DEF f
<1>3. Summed(f) \in Int
  BY <1>1, <1>2, SumInt
<1>4. Len(s) * s[i].score \in Nat
  BY <1>1, ProductNat
<1>5. Len(s) * s[i].score - Summed(f) \in Int
  BY <1>3, <1>4
<1> QED
  BY <1>5 DEF Off, f

LEMMA DeviationIs ==
    ASSUME NEW s \in Lists, s # <<>>
    PROVE  Deviation(s) \in Nat
<1> DEFINE f == [i \in DOMAIN s |-> Off(s, i) * Off(s, i)]
           squares == ZUnit * ZUnit * Summed(f)
           V == {v \in 0 .. squares : (Len(s) - 1) * v * v <= squares}
<1>1. DOMAIN s = 1 .. Len(s) /\ Len(s) \in Nat
  BY ListsAre DEF HitList
<1>2. f \in [1 .. Len(s) -> Nat]
  <2>1. \A x \in Int : x * x \in Nat
    <3> TAKE x \in Int
    <3>1. CASE x \in Nat
      BY <3>1, ProductNat
    <3>2. CASE x \notin Nat
      <4>1. -x \in Nat /\ x * x = (-x) * (-x)
        BY <3>2
      <4> QED
        BY <4>1, ProductNat
    <3> QED
      BY <3>1, <3>2
  <2>2. \A i \in 1 .. Len(s) : Off(s, i) * Off(s, i) \in Nat
    BY <2>1, OffIs
  <2> QED
    BY <1>1, <2>2
<1> HIDE DEF f
<1>3. Summed(f) \in Nat
  BY <1>1, <1>2, SumNat
<1>4. squares \in Nat
  <2>1. ZUnit \in Nat
    BY RankingAssumption
  <2>2. ZUnit * ZUnit \in Nat
    BY <2>1, ProductNat
  <2> QED
    BY <1>3, <2>2, ProductNat
<1>5. Deviation(s) = Max(V)
  BY DEF Deviation, f
<1> HIDE DEF squares
<1>6. 0 \in V
  <2>1. (Len(s) - 1) * 0 * 0 = 0
    BY <1>1
  <2> QED
    BY <1>4, <2>1
<1>7. V \in SUBSET Nat /\ IsFiniteSet(V)
  <2>1. IsFiniteSet(0 .. squares) /\ V \in SUBSET (0 .. squares)
    BY <1>4, FS_Interval
  <2>2. V \in SUBSET Nat
    BY <1>4
  <2> QED
    BY <2>1, <2>2, FS_Subset
<1> HIDE DEF V
<1> QED
  BY <1>5, <1>6, <1>7, GreatestOf

\* The z-score is a number ...
LEMMA ZScoreInt ==
    ASSUME NEW s \in Lists, NEW id
    PROVE  ZScore(s, id) \in Int
<1>1. CASE id \notin IdsOf(s) \/ Deviation(s) = 0
  BY <1>1 DEF ZScore
<1>2. CASE id \in IdsOf(s) /\ Deviation(s) # 0
  <2> DEFINE u == ZUnit * ZUnit
             d == Deviation(s)
             x == Off(s, At(s, id))
  <2>1. d \in Nat \ {0}
    <3>1. s # <<>>
      BY <1>2 DEF IdsOf
    <3> QED
      BY <1>2, <3>1, DeviationIs
  <2>2. u \in Nat
    BY RankingAssumption, ProductNat
  <2>3. x \in Int
    BY <1>2, ScoreInIs, OffIs
  <2>4. ZScore(s, id) = (u * x) \div d
    BY <1>2 DEF ZScore
  <2> HIDE DEF u, d, x
  <2>5. u * x \in Int
    BY <2>2, <2>3
  <2>6. (u * x) \div d \in Int
    BY <2>1, <2>5, QuotientGrows
  <2> QED
    BY <2>4, <2>6
<1> QED
  BY <1>1, <1>2

\* ... and no smaller for what is ahead, if the list has both or neither.
LEMMA ZScoreIs ==
    ASSUME NEW s \in Lists, NEW a, NEW b, b \in IdsOf(s) => Ahead(s, a, b),
           a \in IdsOf(s) => b \in IdsOf(s)
    PROVE  ZScore(s, a) \in Int /\ ZScore(s, b) \in Int /\ ZScore(s, b) <= ZScore(s, a)
<1>1. CASE b \notin IdsOf(s) \/ Deviation(s) = 0
  BY <1>1 DEF ZScore
<1>2. CASE b \in IdsOf(s) /\ Deviation(s) # 0
  <2> DEFINE i == At(s, a)
             j == At(s, b)
             u == ZUnit * ZUnit
             d == Deviation(s)
             f == [k \in DOMAIN s |-> s[k].score]
             n == Len(s)
  <2>1. a \in IdsOf(s) /\ i \in 1 .. n /\ j \in 1 .. n /\ ScoreIn(s, a) >= ScoreIn(s, b)
    BY <1>2, AheadIs
  <2>2. d \in Nat \ {0}
    <3>1. s # <<>>
      BY <1>2 DEF IdsOf
    <3> QED
      BY <1>2, <3>1, DeviationIs
  <2>3. u \in Nat
    BY RankingAssumption, ProductNat
  <2>4. Off(s, i) \in Int /\ Off(s, j) \in Int
    BY <2>1, OffIs
  <2>5. ScoreIn(s, a) \in Nat /\ ScoreIn(s, b) \in Nat /\ n \in Nat
    BY <1>2, <2>1, ScoreInIs
  <2>6. Off(s, j) <= Off(s, i)
    <3>1. n * ScoreIn(s, b) <= n * ScoreIn(s, a)
          /\ n * ScoreIn(s, b) \in Int /\ n * ScoreIn(s, a) \in Int
      BY <2>1, <2>5, ProductGrows
    <3>2. Summed(f) \in Int
      <4>1. f \in [1 .. n -> Int]
        BY ListsAre DEF HitList
      <4> HIDE DEF f
      <4> QED
        BY <2>5, <4>1, SumInt
    <3>3. Off(s, i) = n * ScoreIn(s, a) - Summed(f) /\ Off(s, j) = n * ScoreIn(s, b) - Summed(f)
      BY DEF Off, ScoreIn
    <3> DEFINE x == n * ScoreIn(s, a)
               y == n * ScoreIn(s, b)
               z == Summed(f)
    <3> HIDE DEF x, y, z
    <3>4. x \in Int /\ y \in Int /\ z \in Int /\ y <= x
      BY <3>1, <3>2 DEF x, y, z
    <3>5. y - z <= x - z
      BY <3>4
    <3> QED
      BY <3>3, <3>5 DEF x, y, z
  <2>7. ZScore(s, a) = (u * Off(s, i)) \div d /\ ZScore(s, b) = (u * Off(s, j)) \div d
    BY <1>2, <2>1 DEF ZScore
  <2> HIDE DEF u, d, i, j
  <2>8. u * Off(s, j) \in Int /\ u * Off(s, i) \in Int /\ u * Off(s, j) <= u * Off(s, i)
    BY <2>3, <2>4, <2>6, ProductGrows
  <2> QED
    BY <2>2, <2>7, <2>8, QuotientGrows
<1> QED
  BY <1>1, <1>2

----------------------------------------------------------------------------
(* Rankings: the fusion of two lists.                                     *)

\* The weights are not negative.
LEMMA WeightsAre ==
    ASSUME NEW w \in Weights
    PROVE  w[1] \in Nat /\ w[2] \in Nat
BY RankingAssumption DEF FusionConfigured

\* The linear fusion is a weighted sum of the normalised scores.
LEMMA LinearIs ==
    ASSUME NEW sem \in Lists, NEW kw \in Lists, NEW w \in Weights, NEW id
    PROVE  /\ w[1] * Spread(kw) \in Nat /\ w[2] * Spread(sem) \in Nat
           /\ Linear(sem, kw, w, id) = (w[1] * Spread(kw)) * Normalized(sem, id)
                                           + (w[2] * Spread(sem)) * Normalized(kw, id)
<1> DEFINE v == w[1]
           u == w[2]
           x == Normalized(sem, id)
           y == Normalized(kw, id)
           p == Spread(kw)
           q == Spread(sem)
<1>1. v \in Nat /\ u \in Nat /\ x \in Nat /\ y \in Nat /\ p \in Nat /\ q \in Nat
  BY WeightsAre, NormalizedNat, SpreadIs
<1>2. Linear(sem, kw, w, id) = v * x * p + u * y * q
  BY DEF Linear
<1> HIDE DEF v, u, x, y, p, q
<1>3. v * x * p = (v * p) * x /\ u * y * q = (u * q) * y
  BY <1>1
<1>4. v * p \in Nat /\ u * q \in Nat
  BY <1>1, ProductNat
<1> QED
  BY <1>2, <1>3, <1>4 DEF v, u, x, y, p, q

\* A fused score is a number.
LEMMA FusedInt ==
    ASSUME NEW method \in Methods, NEW sem \in Lists, NEW kw \in Lists, NEW w \in Weights
    PROVE  FusedScore(method, sem, kw, w) \in [IdsOf(sem) \cup IdsOf(kw) -> Int]
<1>0. w[1] \in Nat /\ w[2] \in Nat
  BY WeightsAre
<1> SUFFICES ASSUME NEW id \in IdsOf(sem) \cup IdsOf(kw)
             PROVE  FusedScore(method, sem, kw, w)[id] \in Int
  BY DEF FusedScore
<1>1. CASE method = "rrf"
  <2>1. RrfPart(sem, id) \in Int /\ RrfPart(kw, id) \in Int
    BY RrfPartNat
  <2>2. Rrf(sem, kw, w, id) \in Int
    BY <1>0, <2>1, WeightedGrows DEF Rrf
  <2> QED
    BY <1>1, <2>2 DEF FusedScore
<1>2. CASE method = "linear"
  <2>1. Normalized(sem, id) \in Int /\ Normalized(kw, id) \in Int
    BY NormalizedNat
  <2>2. Linear(sem, kw, w, id) \in Int
    BY <2>1, LinearIs, WeightedGrows
  <2> QED
    BY <1>2, <2>2 DEF FusedScore
<1>3. CASE method = "linear_raw"
  <2>1. Raw(sem, id) \in Int /\ Raw(kw, id) \in Int
    BY RawNat
  <2>2. LinearRaw(sem, kw, w, id) = w[1] * Raw(sem, id) + w[2] * Raw(kw, id)
    BY DEF LinearRaw, Raw
  <2>3. LinearRaw(sem, kw, w, id) \in Int
    BY <1>0, <2>1, <2>2, WeightedGrows
  <2> QED
    BY <1>3, <2>3 DEF FusedScore
<1>4. CASE method = "dbsf"
  <2>1. ZScore(sem, id) \in Int /\ ZScore(kw, id) \in Int
    BY ZScoreInt
  <2>2. Dbsf(sem, kw, w, id) \in Int
    BY <1>0, <2>1, WeightedGrows DEF Dbsf
  <2> QED
    BY <1>4, <2>2 DEF FusedScore
<1> QED
  BY <1>1, <1>2, <1>3, <1>4 DEF Methods

\* Whatever the method and the weights, a chunk that no list puts behind another does
\* not score less.
LEMMA FusionGrows ==
    ASSUME NEW method \in Methods, NEW sem \in Lists, NEW kw \in Lists, NEW w \in Weights,
           NEW a \in IdsOf(sem) \cup IdsOf(kw), NEW b \in IdsOf(sem) \cup IdsOf(kw),
           \A s \in {sem, kw} : b \in IdsOf(s) => Ahead(s, a, b),
           method = "dbsf" => \A s \in {sem, kw} : a \in IdsOf(s) => b \in IdsOf(s)
    PROVE  FusedScore(method, sem, kw, w)[b] <= FusedScore(method, sem, kw, w)[a]
<1>0. w[1] \in Nat /\ w[2] \in Nat
  BY WeightsAre
<1>1. /\ b \in IdsOf(sem) => Ahead(sem, a, b)
      /\ b \in IdsOf(kw) => Ahead(kw, a, b)
  OBVIOUS
<1>2. CASE method = "rrf"
  <2>1. /\ RrfPart(sem, b) \in Int /\ RrfPart(sem, a) \in Int
        /\ RrfPart(sem, b) <= RrfPart(sem, a)
    BY <1>1, RrfPartIs
  <2>2. /\ RrfPart(kw, b) \in Int /\ RrfPart(kw, a) \in Int
        /\ RrfPart(kw, b) <= RrfPart(kw, a)
    BY <1>1, RrfPartIs
  <2>3. Rrf(sem, kw, w, b) <= Rrf(sem, kw, w, a)
    BY <1>0, <2>1, <2>2, WeightedGrows DEF Rrf
  <2> QED
    BY <1>2, <2>3 DEF FusedScore
<1>3. CASE method = "linear"
  <2>1. /\ Normalized(sem, b) \in Int /\ Normalized(sem, a) \in Int
        /\ Normalized(sem, b) <= Normalized(sem, a)
    BY <1>1, NormalizedIs
  <2>2. /\ Normalized(kw, b) \in Int /\ Normalized(kw, a) \in Int
        /\ Normalized(kw, b) <= Normalized(kw, a)
    BY <1>1, NormalizedIs
  <2> DEFINE p == w[1] * Spread(kw)
             q == w[2] * Spread(sem)
  <2>3. /\ p \in Nat /\ q \in Nat
        /\ Linear(sem, kw, w, a) = p * Normalized(sem, a) + q * Normalized(kw, a)
        /\ Linear(sem, kw, w, b) = p * Normalized(sem, b) + q * Normalized(kw, b)
    BY LinearIs
  <2> HIDE DEF p, q
  <2>4. p * Normalized(sem, b) + q * Normalized(kw, b)
            <= p * Normalized(sem, a) + q * Normalized(kw, a)
    BY <2>1, <2>2, <2>3, WeightedGrows
  <2>5. Linear(sem, kw, w, b) <= Linear(sem, kw, w, a)
    BY <2>3, <2>4
  <2> QED
    BY <1>3, <2>5 DEF FusedScore
<1>4. CASE method = "linear_raw"
  <2>1. Raw(sem, b) \in Int /\ Raw(sem, a) \in Int /\ Raw(sem, b) <= Raw(sem, a)
    BY <1>1, RawIs
  <2>2. Raw(kw, b) \in Int /\ Raw(kw, a) \in Int /\ Raw(kw, b) <= Raw(kw, a)
    BY <1>1, RawIs
  <2>3. /\ LinearRaw(sem, kw, w, a) = w[1] * Raw(sem, a) + w[2] * Raw(kw, a)
        /\ LinearRaw(sem, kw, w, b) = w[1] * Raw(sem, b) + w[2] * Raw(kw, b)
    BY DEF LinearRaw, Raw
  <2>4. LinearRaw(sem, kw, w, b) <= LinearRaw(sem, kw, w, a)
    BY <1>0, <2>1, <2>2, <2>3, WeightedGrows
  <2> QED
    BY <1>4, <2>4 DEF FusedScore
<1>5. CASE method = "dbsf"
  <2>0. /\ a \in IdsOf(sem) => b \in IdsOf(sem)
        /\ a \in IdsOf(kw) => b \in IdsOf(kw)
    BY <1>5
  <2>1. ZScore(sem, b) \in Int /\ ZScore(sem, a) \in Int /\ ZScore(sem, b) <= ZScore(sem, a)
    BY <1>1, <2>0, ZScoreIs
  <2>2. ZScore(kw, b) \in Int /\ ZScore(kw, a) \in Int /\ ZScore(kw, b) <= ZScore(kw, a)
    BY <1>1, <2>0, ZScoreIs
  <2>3. Dbsf(sem, kw, w, b) <= Dbsf(sem, kw, w, a)
    BY <1>0, <2>1, <2>2, WeightedGrows DEF Dbsf
  <2> QED
    BY <1>5, <2>3 DEF FusedScore
<1> QED
  BY <1>2, <1>3, <1>4, <1>5 DEF Methods

\* What the fusion of two lists may be.
LEMMA FusionsAre ==
    ASSUME NEW method \in Methods, NEW sem \in Lists, NEW kw \in Lists, NEW w \in Weights,
           NEW fused \in Fusions(method, sem, kw, w)
    PROVE  /\ HitList(fused)
           /\ \A i \in DOMAIN fused : /\ fused[i].id \in IdsOf(sem) \cup IdsOf(kw)
                                      /\ fused[i].score = FusedScore(method, sem, kw, w)[fused[i].id]
<1> DEFINE ids == IdsOf(sem) \cup IdsOf(kw)
<1>1. IsFiniteSet(ids)
  <2>1. IsFiniteSet(IdsOf(sem)) /\ IsFiniteSet(IdsOf(kw))
    BY ListsAre, IdsFinite DEF HitList
  <2> QED
    BY <2>1, FS_Union
<1>2. ids \in SUBSET Ids
  <2>1. \A s \in Lists : IdsOf(s) \subseteq Ids
    <3> TAKE s \in Lists
    <3>1. HitList(s)
      BY ListsAre
    <3>2. \A i \in DOMAIN s : s[i] \in Hits
      BY <3>1 DEF HitList
    <3> QED
      BY <3>2 DEF IdsOf, Hits
  <2> QED
    BY <2>1
<1>3. FusedScore(method, sem, kw, w) \in [ids -> Int]
  BY FusedInt
<1>4. fused \in Sorted(ids, FusedScore(method, sem, kw, w))
  BY DEF Fusions
<1> HIDE DEF ids
<1>5. /\ HitList(fused)
      /\ \A i \in DOMAIN fused : /\ fused[i].id \in ids
                                 /\ fused[i].score = FusedScore(method, sem, kw, w)[fused[i].id]
  BY <1>1, <1>2, <1>3, <1>4, SortedIs
<1> QED
  BY <1>5 DEF ids

\* What FuseLists leaves.
Fused(r) ==
    /\ r.method \in Methods /\ r.sem \in Lists /\ r.kw \in Lists /\ r.w \in Weights
    /\ r.k \in TopKs /\ r.fused \in Fusions(r.method, r.sem, r.kw, r.w)
    /\ r.cut \in Int /\ r.dedup \in BOOLEAN
    /\ r.out \in Outcomes(r.fused, r.cut, r.k, r.dedup)

\* What SingleList leaves.
Alone(r) == r.list \in Lists /\ r.k \in TopKs /\ r.out = Best(r.list, r.k)

\* What both lists put first does not come out behind.
LEMMA AgreementRespected ==
    ASSUME ranking.kind = "fusion" => Fused(ranking)
    PROVE  FusionRespectsAgreement
<1> DEFINE r == ranking
<1> SUFFICES ASSUME r.kind = "fusion", NEW i \in DOMAIN r.fused, NEW j \in DOMAIN r.fused,
                    \A s \in {r.sem, r.kw} :
                        r.fused[j].id \in IdsOf(s) => Ahead(s, r.fused[i].id, r.fused[j].id),
                    r.method = "dbsf" =>
                        \A s \in {r.sem, r.kw} :
                            r.fused[i].id \in IdsOf(s) => r.fused[j].id \in IdsOf(s)
             PROVE  r.fused[i].score >= r.fused[j].score
  BY DEF FusionRespectsAgreement
<1> DEFINE a == r.fused[i].id
           b == r.fused[j].id
           score == FusedScore(r.method, r.sem, r.kw, r.w)
<1>1. Fused(r)
  OBVIOUS
<1>2. /\ a \in IdsOf(r.sem) \cup IdsOf(r.kw) /\ r.fused[i].score = score[a]
      /\ b \in IdsOf(r.sem) \cup IdsOf(r.kw) /\ r.fused[j].score = score[b]
  BY <1>1, FusionsAre DEF Fused
<1>3. /\ \A s \in {r.sem, r.kw} : b \in IdsOf(s) => Ahead(s, a, b)
      /\ r.method = "dbsf" => \A s \in {r.sem, r.kw} : a \in IdsOf(s) => b \in IdsOf(s)
  OBVIOUS
<1>4. /\ r.method \in Methods /\ r.sem \in Lists /\ r.kw \in Lists /\ r.w \in Weights
  BY <1>1 DEF Fused
<1>6. score[a] \in Int /\ score[b] \in Int
  <2>1. score \in [IdsOf(r.sem) \cup IdsOf(r.kw) -> Int]
    BY <1>4, FusedInt
  <2> HIDE DEF score, a, b, r
  <2> QED
    BY <1>2, <2>1
<1> HIDE DEF a, b, r
<1>5. score[b] <= score[a]
  BY <1>2, <1>3, <1>4, FusionGrows
<1> QED
  BY <1>2, <1>5, <1>6 DEF a, b

----------------------------------------------------------------------------
(* Rankings: one chunk for a document.                                    *)

\* Cutting a list keeps its beginning.
LEMMA BestIs ==
    ASSUME NEW X, NEW s \in Seq(X), NEW k \in Nat
    PROVE  /\ Best(s, k) \in Seq(X) /\ DOMAIN Best(s, k) = 1 .. Len(Best(s, k))
           /\ Len(Best(s, k)) = IF k <= Len(s) THEN k ELSE Len(s)
           /\ \A i \in 1 .. Len(Best(s, k)) : i \in 1 .. Len(s) /\ Best(s, k)[i] = s[i]
<1>1. Len(s) \in Nat
  BY LenProperties
<1> DEFINE m == Min({k, Len(s)})
<1>2. m = IF k <= Len(s) THEN k ELSE Len(s)
  <2>1. CASE k <= Len(s)
    BY <1>1, <2>1 DEF Min
  <2>2. CASE ~(k <= Len(s))
    BY <1>1, <2>2 DEF Min
  <2> QED
    BY <2>1, <2>2
<1>3. Best(s, k) = SubSeq(s, 1, m)
  BY DEF Best
<1> HIDE DEF m
<1>4. m \in Nat /\ m <= Len(s)
  BY <1>1, <1>2
<1>5. SubSeq(s, 1, m) = [i \in 1 .. m |-> s[i]]
  BY <1>4
<1>6. \A i \in 1 .. m : i \in 1 .. Len(s) /\ s[i] \in X
  BY <1>1, <1>4
<1>7. [i \in 1 .. m |-> s[i]] \in [1 .. m -> X]
  BY <1>6
<1> DEFINE t == [i \in 1 .. m |-> s[i]]
<1>8. t \in Seq(X) /\ Len(t) = m /\ DOMAIN t = 1 .. m /\ \A i \in 1 .. m : t[i] = s[i]
  BY <1>4, <1>7
<1> QED
  BY <1>2, <1>3, <1>5, <1>6, <1>8

\* One step of Retained: the value at n from the one before it.
RetainNext(s, kept, g, n) ==
    IF n = 0 THEN <<>> ELSE IF n \in kept THEN Append(g[n - 1], s[n]) ELSE g[n - 1]

\* The recursive function that Retained is defined by exists.
LEMMA RetainFunction ==
    ASSUME NEW s, NEW kept, NEW m \in Nat
    PROVE  \E g : g = [n \in 0 .. m |-> RetainNext(s, kept, g, n)]
<1> DEFINE Is(k, g) == g = [n \in 0 .. k |-> RetainNext(s, kept, g, n)]
           Good == {k \in 0 .. m : \E g : Is(k, g)}
<1>1. 0 \in Good
  <2> DEFINE g == [n \in 0 .. 0 |-> <<>>]
  <2>1. \A n \in 0 .. 0 : n = 0
    OBVIOUS
  <2>2. Is(0, g)
    BY <2>1 DEF RetainNext
  <2> HIDE DEF g
  <2> QED
    BY <2>2
<1>2. ASSUME NEW k \in 0 .. m - 1, k \in Good PROVE k + 1 \in Good
  <2>1. PICK g : Is(k, g)
    BY <1>2
  <2> DEFINE last == IF k + 1 \in kept THEN Append(g[k], s[k + 1]) ELSE g[k]
             h == [n \in 0 .. k + 1 |-> IF n = k + 1 THEN last ELSE g[n]]
  <2>2. ASSUME NEW n \in 0 .. k + 1
        PROVE  h[n] = RetainNext(s, kept, h, n)
    <3>1. CASE n = k + 1
      <4>1. n # 0 /\ n - 1 = k /\ k \in 0 .. k + 1 /\ k # k + 1
        BY <3>1
      <4>2. h[n] = last /\ h[k] = g[k]
        BY <3>1, <4>1
      <4> HIDE DEF h
      <4> QED
        BY <3>1, <4>1, <4>2 DEF RetainNext
    <3>2. CASE n # k + 1
      <4>1. n \in 0 .. k /\ (n # 0 => n - 1 \in 0 .. k + 1 /\ n - 1 # k + 1)
        BY <3>2
      <4>2. h[n] = g[n] /\ (n # 0 => h[n - 1] = g[n - 1])
        BY <3>2, <4>1
      <4>3. g[n] = RetainNext(s, kept, g, n)
        BY <2>1, <4>1
      <4> HIDE DEF h
      <4> QED
        BY <4>1, <4>2, <4>3 DEF RetainNext
    <3> QED
      BY <3>1, <3>2
  <2>3. h = [n \in 0 .. k + 1 |-> h[n]]
    OBVIOUS
  <2> HIDE DEF h
  <2>4. Is(k + 1, h)
    BY <2>2, <2>3
  <2>5. k + 1 \in 0 .. m
    OBVIOUS
  <2> QED
    BY <2>4, <2>5
<1> HIDE DEF Good
<1>3. \A k \in 0 .. m : k \in Good
  BY <1>1, <1>2, UpTo
<1>4. m \in Good
  BY <1>3
<1> QED
  BY <1>4 DEF Good

\* What is retained of a list without repetitions is one.
LEMMA RetainedIs ==
    ASSUME NEW X, NEW s \in Seq(X), Distinct(s), NEW kept
    PROVE  /\ Retained(s, kept) \in Seq(X) /\ Distinct(Retained(s, kept))
           /\ \A i \in 1 .. Len(Retained(s, kept)) :
                  \E n \in 1 .. Len(s) : Retained(s, kept)[i] = s[n]
           /\ Descending(s) => Descending(Retained(s, kept))
<1> DEFINE m == Len(s)
           g == CHOOSE g : g = [n \in 0 .. m |-> RetainNext(s, kept, g, n)]
<1>1. m \in Nat /\ DOMAIN s = 1 .. m /\ \A n \in 1 .. m : s[n] \in X
  BY LenProperties
<1>2. g = [n \in 0 .. m |-> RetainNext(s, kept, g, n)]
  <2>1. \E h : h = [n \in 0 .. m |-> RetainNext(s, kept, h, n)]
    <3> HIDE DEF m
    <3> QED
      BY <1>1, RetainFunction, Zenon
  <2> QED
    BY <2>1, Zenon
<1>3. Retained(s, kept) = g[m]
  BY Zenon DEF Retained, RetainNext
<1> HIDE DEF g
<1>4. /\ g[0] = <<>>
      /\ \A n \in 1 .. m : g[n] = IF n \in kept THEN Append(g[n - 1], s[n]) ELSE g[n - 1]
  <2>1. 0 \in 0 .. m /\ \A n \in 1 .. m : n \in 0 .. m /\ n # 0
    BY <1>1
  <2> QED
    BY <1>2, <2>1, Zenon DEF RetainNext
<1> DEFINE Fine(k) == /\ g[k] \in Seq(X) /\ Distinct(g[k])
                      /\ \A i \in 1 .. Len(g[k]) : \E n \in 1 .. k : g[k][i] = s[n]
                      /\ Descending(s) => Descending(g[k])
           Good == {k \in 0 .. m : Fine(k)}
<1> HIDE DEF m
<1>5. 0 \in Good
  <2>1. <<>> \in Seq(X) /\ DOMAIN <<>> = {} /\ 1 .. Len(<<>>) = {}
    OBVIOUS
  <2>2. g[0] \in Seq(X) /\ Distinct(g[0]) /\ Descending(g[0])
    BY <1>4, <2>1 DEF Distinct, Descending
  <2>3. 1 .. Len(g[0]) = {}
    BY <1>4, <2>1
  <2>4. Fine(0)
    BY <2>2, <2>3
  <2> QED
    BY <1>1, <2>4
<1>6. ASSUME NEW k \in 0 .. m - 1, k \in Good PROVE k + 1 \in Good
  <2> DEFINE j == k + 1
             t == g[k]
             x == s[j]
  <2>1. j \in 1 .. m /\ j - 1 = k /\ j \in 0 .. m /\ 1 .. k \subseteq 1 .. j /\ k \in Nat
    BY <1>1
  <2>2. /\ t \in Seq(X) /\ Distinct(t) /\ \A i \in 1 .. Len(t) : \E n \in 1 .. k : t[i] = s[n]
        /\ Descending(s) => Descending(t)
    BY <1>6
  <2>3. x \in X
    BY <1>1, <2>1
  <2>4. CASE j \notin kept
    <3>1. g[j] = t
      BY <1>4, <2>1, <2>4
    <3>2. Fine(j)
      BY <2>1, <2>2, <3>1
    <3> QED
      BY <2>1, <3>2
  <2>5. CASE j \in kept
    <3>1. g[j] = Append(t, x)
      BY <1>4, <2>1, <2>5
    <3> HIDE DEF t
    <3>2. /\ Append(t, x) \in Seq(X) /\ Len(Append(t, x)) = Len(t) + 1 /\ Len(t) \in Nat
          /\ Append(t, x)[Len(t) + 1] = x
          /\ \A i \in 1 .. Len(t) : Append(t, x)[i] = t[i]
      BY <2>2, <2>3, AppendProperties, LenProperties
    <3> DEFINE a == Append(t, x)
    <3>3. DOMAIN a = 1 .. Len(t) + 1 /\ DOMAIN t = 1 .. Len(t)
      BY <2>2, <3>2, LenProperties
    <3>4. \A i \in 1 .. Len(t) + 1 : i \in 1 .. Len(t) \/ i = Len(t) + 1
      BY <3>2
    <3>5. \A i \in 1 .. Len(t) : a[i].id # x.id
      <4> SUFFICES ASSUME NEW i \in 1 .. Len(t) PROVE a[i].id # x.id
        OBVIOUS
      <4>1. PICK n \in 1 .. k : t[i] = s[n]
        BY <2>2
      <4>2. n \in DOMAIN s /\ j \in DOMAIN s /\ n # j
        BY <1>1, <2>1
      <4>3. s[n].id # s[j].id
        BY <4>2 DEF Distinct
      <4> QED
        BY <3>2, <4>1, <4>3
    <3>9. ASSUME Descending(s), NEW i \in 1 .. Len(t) PROVE a[i].score >= x.score
      <4>1. PICK n \in 1 .. k : t[i] = s[n]
        BY <2>2
      <4>2. n \in DOMAIN s /\ j \in DOMAIN s /\ n < j
        BY <1>1, <2>1
      <4>3. s[n].score >= s[j].score
        BY <3>9, <4>2 DEF Descending
      <4> QED
        BY <3>2, <4>1, <4>3
    <3> HIDE DEF j, x
    <3>10. ASSUME Descending(s) PROVE Descending(a)
      <4> SUFFICES ASSUME NEW p \in 1 .. Len(t) + 1, NEW q \in 1 .. Len(t) + 1, p < q
                   PROVE  a[p].score >= a[q].score
        BY <3>3 DEF Descending
      <4>1. p \in 1 .. Len(t)
        BY <3>2
      <4>2. CASE q = Len(t) + 1
        BY <3>2, <3>9, <3>10, <4>1, <4>2
      <4>3. CASE q \in 1 .. Len(t)
        <5>1. t[p].score >= t[q].score
          BY <2>2, <3>3, <3>10, <4>1, <4>3 DEF Descending
        <5> QED
          BY <3>2, <4>1, <4>3, <5>1
      <4> QED
        BY <3>4, <4>2, <4>3
    <3>6. Distinct(a)
      <4> SUFFICES ASSUME NEW p \in 1 .. Len(t) + 1, NEW q \in 1 .. Len(t) + 1, p # q
                   PROVE  a[p].id # a[q].id
        BY <3>3 DEF Distinct
      <4>1. CASE p = Len(t) + 1
        BY <3>2, <3>4, <3>5, <4>1
      <4>2. CASE q = Len(t) + 1
        BY <3>2, <3>4, <3>5, <4>2
      <4>3. CASE p \in 1 .. Len(t) /\ q \in 1 .. Len(t)
        BY <2>2, <3>2, <3>3, <4>3 DEF Distinct
      <4> QED
        BY <3>4, <4>1, <4>2, <4>3
    <3>7. \A i \in 1 .. Len(a) : \E n \in 1 .. j : a[i] = s[n]
      <4> SUFFICES ASSUME NEW i \in 1 .. Len(t) + 1 PROVE \E n \in 1 .. j : a[i] = s[n]
        BY <3>2
      <4>1. CASE i = Len(t) + 1
        <5>1. j \in 1 .. j /\ a[i] = s[j]
          BY <2>1, <3>2, <4>1 DEF x
        <5> QED
          BY <5>1
      <4>2. CASE i \in 1 .. Len(t)
        BY <2>1, <2>2, <3>2, <4>2
      <4> QED
        BY <3>4, <4>1, <4>2
    <3>8. Fine(j)
      BY <3>1, <3>2, <3>6, <3>7, <3>10
    <3> QED
      BY <2>1, <3>8 DEF j
  <2> QED
    BY <2>4, <2>5
<1> HIDE DEF Good
<1>7. \A k \in 0 .. m : k \in Good
  BY <1>1, <1>5, <1>6, UpTo
<1>8. Fine(m)
  BY <1>1, <1>7 DEF Good
<1> QED
  BY <1>3, <1>8 DEF m

DocAt(p, i) == DocumentOf[p[i].id]
LeadIn(p, n, d, l) ==
    /\ l \in 1 .. n /\ DocAt(p, l) = d
    /\ \A j \in 1 .. n : DocAt(p, j) = d /\ j # l =>
           p[j].score < p[l].score \/ (p[j].score = p[l].score /\ j > l)

\* Each document of a list has a chunk that leads it.
LEMMA LeadExists ==
    ASSUME NEW p \in Seq(Hits), NEW i \in 1 .. Len(p)
    PROVE  \E l \in 1 .. Len(p) : DocAt(p, l) = DocAt(p, i) /\ Leads(p, l)
<1> DEFINE m == Len(p)
           d == DocAt(p, i)
           Led(k) == (\E j \in 1 .. k : DocAt(p, j) = d) => \E l \in 1 .. k : LeadIn(p, k, d, l)
           Good == {k \in 0 .. m : Led(k)}
<1>1. m \in Nat /\ DOMAIN p = 1 .. m /\ \A j \in 1 .. m : p[j].score \in Int
  <2>1. m \in Nat /\ DOMAIN p = 1 .. m /\ \A j \in 1 .. m : p[j] \in Hits
    BY LenProperties
  <2> QED
    BY <2>1 DEF Hits
<1> HIDE DEF m, d
<1>2. 0 \in Good
  BY <1>1
<1>3. ASSUME NEW k \in 0 .. m - 1, k \in Good PROVE k + 1 \in Good
  <2> DEFINE n == k + 1
  <2>1. /\ n \in 1 .. m /\ n \in 0 .. m /\ k \in Nat /\ n \in 1 .. n
        /\ \A j \in 1 .. n : j \in 1 .. m /\ (j = n \/ (j \in 1 .. k /\ j < n))
        /\ \A j \in 1 .. k : j \in 1 .. n /\ j \in 1 .. m /\ j < n
    BY <1>1
  <2>2. Led(k)
    BY <1>3
  <2> HIDE DEF n
  <2>3. CASE DocAt(p, n) # d
    <3>1. \A j \in 1 .. n : DocAt(p, j) = d => j \in 1 .. k
      BY <2>1, <2>3
    <3>2. \A l \in 1 .. k : LeadIn(p, k, d, l) => LeadIn(p, n, d, l)
      BY <2>1, <3>1 DEF LeadIn
    <3>3. Led(n)
      BY <2>1, <2>2, <3>1, <3>2
    <3> QED
      BY <2>1, <3>3 DEF n
  <2>4. CASE DocAt(p, n) = d /\ ~\E j \in 1 .. k : DocAt(p, j) = d
    <3>1. LeadIn(p, n, d, n)
      BY <2>1, <2>4 DEF LeadIn
    <3>2. Led(n)
      BY <2>1, <3>1
    <3> QED
      BY <2>1, <3>2 DEF n
  <2>5. CASE DocAt(p, n) = d /\ \E j \in 1 .. k : DocAt(p, j) = d
    <3>1. PICK l \in 1 .. k : LeadIn(p, k, d, l)
      BY <2>2, <2>5
    <3>2. p[n].score \in Int /\ p[l].score \in Int /\ \A j \in 1 .. n : p[j].score \in Int
      BY <1>1, <2>1
    <3>3. DocAt(p, l) = d
          /\ \A j \in 1 .. k : DocAt(p, j) = d /\ j # l =>
                 p[j].score < p[l].score \/ (p[j].score = p[l].score /\ j > l)
      BY <3>1 DEF LeadIn
    <3>4. CASE p[n].score > p[l].score
      <4>1. ASSUME NEW j \in 1 .. n, DocAt(p, j) = d, j # n PROVE p[j].score < p[n].score
        <5>1. j \in 1 .. k
          BY <2>1, <4>1
        <5>2. p[j].score <= p[l].score
          BY <3>2, <3>3, <4>1, <5>1
        <5> QED
          BY <3>2, <3>4, <5>2
      <4>2. LeadIn(p, n, d, n)
        BY <2>1, <2>5, <4>1 DEF LeadIn
      <4>3. Led(n)
        BY <2>1, <4>2
      <4> QED
        BY <2>1, <4>3 DEF n
    <3>5. CASE ~(p[n].score > p[l].score)
      <4>1. ASSUME NEW j \in 1 .. n, DocAt(p, j) = d, j # l
            PROVE  p[j].score < p[l].score \/ (p[j].score = p[l].score /\ j > l)
        <5>1. CASE j = n
          BY <2>1, <3>2, <3>5, <5>1
        <5>2. CASE j \in 1 .. k
          BY <3>3, <4>1, <5>2
        <5> QED
          BY <2>1, <5>1, <5>2
      <4>2. LeadIn(p, n, d, l)
        BY <2>1, <3>1, <3>3, <4>1 DEF LeadIn
      <4>3. Led(n)
        BY <2>1, <4>2
      <4> QED
        BY <2>1, <4>3 DEF n
    <3> QED
      BY <3>4, <3>5
  <2> QED
    BY <2>3, <2>4, <2>5
<1> HIDE DEF Good
<1>4. \A k \in 0 .. m : k \in Good
  BY <1>1, <1>2, <1>3, UpTo
<1>5. Led(m)
  BY <1>1, <1>4 DEF Good
<1>6. PICK l \in 1 .. m : LeadIn(p, m, d, l)
  BY <1>5 DEF d, m
<1>7. Leads(p, l)
  BY <1>1, <1>6 DEF LeadIn, Leads, DocAt
<1> QED
  BY <1>6, <1>7 DEF LeadIn, d, m

\* Two chunks that lead the same document are the same.
LEMMA OneLeads ==
    ASSUME NEW p \in Seq(Hits), NEW i \in 1 .. Len(p), NEW j \in 1 .. Len(p),
           Leads(p, i), Leads(p, j), DocAt(p, i) = DocAt(p, j)
    PROVE  i = j
<1>1. DOMAIN p = 1 .. Len(p) /\ p[i] \in Hits /\ p[j] \in Hits /\ Len(p) \in Nat
  BY LenProperties
<1>2. p[i].score \in Int /\ p[j].score \in Int
  BY <1>1 DEF Hits
<1> SUFFICES ASSUME i # j PROVE FALSE
  OBVIOUS
<1>3. p[j].score < p[i].score \/ (p[j].score = p[i].score /\ j > i)
  BY <1>1 DEF Leads, DocAt
<1>4. p[i].score < p[j].score \/ (p[i].score = p[j].score /\ i > j)
  BY <1>1 DEF Leads, DocAt
<1> QED
  BY <1>2, <1>3, <1>4

\* The deduplicated list holds what leads, with the scores it had.
LEMMA DeduplicatedIs ==
    ASSUME NEW p \in Seq(Hits), Distinct(p), NEW out \in Deduplicated(p)
    PROVE  /\ HitList(out)
           /\ \A i \in 1 .. Len(out) :
                  \E l \in 1 .. Len(p) : Leads(p, l) /\ out[i].id = p[l].id /\ out[i].score = p[l].score
           /\ \A l \in 1 .. Len(p) : Leads(p, l) => \E i \in 1 .. Len(out) : out[i].id = p[l].id
<1> DEFINE leading == {i \in DOMAIN p : Leads(p, i)}
           kept == {p[i] : i \in leading}
           ids == {x.id : x \in kept}
           score == [id \in ids |-> ScoreIn(p, id)]
<1>1. DOMAIN p = 1 .. Len(p) /\ Len(p) \in Nat /\ \A i \in 1 .. Len(p) : p[i] \in Hits
  BY LenProperties
<1>2. out \in Sorted(ids, score)
  BY DEF Deduplicated
<1>3. \A d \in ids : \E l \in 1 .. Len(p) : Leads(p, l) /\ d = p[l].id
  BY <1>1
<1>4. \A l \in 1 .. Len(p) : Leads(p, l) => p[l].id \in ids
  BY <1>1
<1>5. ids \in SUBSET IdsOf(p)
  BY <1>1, <1>3 DEF IdsOf
<1>6. ids \in SUBSET Ids /\ IsFiniteSet(ids)
  <2>1. IsFiniteSet(IdsOf(p))
    BY <1>1, IdsFinite
  <2>2. IdsOf(p) \subseteq Ids
    BY <1>1 DEF IdsOf, Hits
  <2> HIDE DEF ids
  <2> QED
    BY <1>5, <2>1, <2>2, FS_Subset
<1>7. ASSUME NEW l \in 1 .. Len(p), Leads(p, l) PROVE score[p[l].id] = p[l].score
  <2>1. ScoreIn(p, p[l].id) = p[l].score
    BY <1>1, AtIs
  <2> QED
    BY <1>4, <1>7, <2>1
<1>8. score \in [ids -> Int]
  <2>1. \A d \in ids : score[d] \in Int
    <3> TAKE d \in ids
    <3>1. PICK l \in 1 .. Len(p) : Leads(p, l) /\ d = p[l].id
      BY <1>3
    <3>2. score[d] = p[l].score
      BY <1>7, <3>1
    <3> QED
      BY <1>1, <3>2 DEF Hits
  <2> QED
    BY <2>1
<1> HIDE DEF ids, score
<1>9. /\ HitList(out) /\ IdsOf(out) = ids
      /\ \A i \in DOMAIN out : out[i].id \in ids /\ out[i].score = score[out[i].id]
  BY <1>2, <1>6, <1>8, SortedIs
<1>10. DOMAIN out = 1 .. Len(out)
  BY <1>9 DEF HitList
<1>11. ASSUME NEW i \in 1 .. Len(out)
       PROVE  \E l \in 1 .. Len(p) : Leads(p, l) /\ out[i].id = p[l].id /\ out[i].score = p[l].score
  <2>1. out[i].id \in ids /\ out[i].score = score[out[i].id]
    BY <1>9, <1>10
  <2>2. PICK l \in 1 .. Len(p) : Leads(p, l) /\ out[i].id = p[l].id
    BY <1>3, <2>1
  <2> QED
    BY <1>7, <2>1, <2>2
<1>12. ASSUME NEW l \in 1 .. Len(p), Leads(p, l) PROVE \E i \in 1 .. Len(out) : out[i].id = p[l].id
  <2>1. p[l].id \in IdsOf(out)
    BY <1>4, <1>9, <1>12
  <2> QED
    BY <1>10, <2>1 DEF IdsOf
<1> QED
  BY <1>9, <1>11, <1>12

\* The beginning of a list of hits is one, and so is what the threshold leaves of it.
LEMMA BeginningIs ==
    ASSUME NEW s, HitList(s), NEW k \in Nat
    PROVE  HitList(Best(s, k))
<1> DEFINE best == Best(s, k)
<1>1. s \in Seq(Hits) /\ Distinct(s) /\ Descending(s) /\ DOMAIN s = 1 .. Len(s)
  BY DEF HitList
<1>2. /\ best \in Seq(Hits) /\ DOMAIN best = 1 .. Len(best)
      /\ \A i \in 1 .. Len(best) : i \in 1 .. Len(s) /\ best[i] = s[i]
  BY <1>1, BestIs
<1> HIDE DEF best
<1>3. Distinct(best) /\ Descending(best)
  BY <1>1, <1>2 DEF Distinct, Descending
<1>4. Len(best) \in Nat
  BY <1>2, LenProperties
<1>5. HitList(best)
  BY <1>2, <1>3, <1>4 DEF HitList
<1> QED
  BY <1>5 DEF best

LEMMA PrunedIs ==
    ASSUME NEW fused, HitList(fused), NEW cut, NEW k \in Nat
    PROVE  HitList(Pruned(fused, cut, k))
<1> DEFINE best == Best(fused, k)
           kept == {i \in DOMAIN best : best[i].score >= cut}
<1>1. HitList(best)
  BY BeginningIs
<1>2. Pruned(fused, cut, k) = IF cut > 0 THEN Retained(best, kept) ELSE best
  BY DEF Pruned
<1> HIDE DEF best, kept
<1>3. best \in Seq(Hits) /\ Distinct(best) /\ Descending(best)
  BY <1>1 DEF HitList
<1>4. /\ Retained(best, kept) \in Seq(Hits) /\ Distinct(Retained(best, kept))
      /\ Descending(Retained(best, kept))
  BY <1>3, RetainedIs
<1>5. HitList(Retained(best, kept))
  BY <1>4, LenProperties DEF HitList
<1> QED
  BY <1>1, <1>2, <1>5

\* What a hybrid search prunes and answers with.
LEMMA FusedIs ==
    ASSUME NEW r, Fused(r)
    PROVE  /\ HitList(Pruned(r.fused, r.cut, r.k)) /\ r.dedup \in BOOLEAN
           /\ r.dedup => r.out \in Deduplicated(Pruned(r.fused, r.cut, r.k))
           /\ ~r.dedup => r.out = Pruned(r.fused, r.cut, r.k)
<1>1. HitList(r.fused)
  BY FusionsAre DEF Fused
<1>2. r.k \in Nat
  BY RankingAssumption DEF Fused, HybridConfigured
<1>3. HitList(Pruned(r.fused, r.cut, r.k))
  BY <1>1, <1>2, PrunedIs
<1> QED
  BY <1>3 DEF Fused, Outcomes

\* With deduplication a document is named once, by its best chunk.
LEMMA DocumentsOnce ==
    ASSUME ranking.kind = "fusion" => Fused(ranking)
    PROVE  OneBestChunkPerDocument
<1> DEFINE r == ranking
           p == Pruned(r.fused, r.cut, r.k)
           out == r.out
           documents(s) == {DocumentOf[s[i].id] : i \in DOMAIN s}
<1>1. CASE r.kind = "fusion" /\ ~r.dedup
  <2>1. out = p
    BY <1>1, FusedIs
  <2> QED
    BY <1>1, <2>1 DEF OneBestChunkPerDocument
<1> SUFFICES ASSUME r.kind = "fusion", r.dedup
             PROVE  /\ documents(out) = documents(p) /\ Len(out) = Cardinality(documents(out))
                    /\ \A i \in DOMAIN out : \A j \in DOMAIN p :
                           DocumentOf[p[j].id] = DocumentOf[out[i].id] => p[j].score <= out[i].score
  BY <1>1 DEF OneBestChunkPerDocument
<1>2. out \in Deduplicated(p) /\ p \in Seq(Hits) /\ Distinct(p)
  BY FusedIs DEF HitList
<1> HIDE DEF p, r, out
<1>3. /\ HitList(out)
      /\ \A i \in 1 .. Len(out) :
             \E l \in 1 .. Len(p) : Leads(p, l) /\ out[i].id = p[l].id /\ out[i].score = p[l].score
      /\ \A l \in 1 .. Len(p) : Leads(p, l) => \E i \in 1 .. Len(out) : out[i].id = p[l].id
  BY <1>2, DeduplicatedIs
<1>4. /\ DOMAIN out = 1 .. Len(out) /\ Len(out) \in Nat /\ Distinct(out)
      /\ DOMAIN p = 1 .. Len(p)
      /\ \A i \in 1 .. Len(p) : p[i].score \in Int
  <2>1. DOMAIN p = 1 .. Len(p) /\ \A i \in 1 .. Len(p) : p[i] \in Hits
    BY <1>2, LenProperties
  <2> QED
    BY <1>3, <2>1 DEF HitList, Hits
<1>5. documents(out) = documents(p)
  <2>1. ASSUME NEW i \in DOMAIN out PROVE \E l \in DOMAIN p : DocumentOf[out[i].id] = DocumentOf[p[l].id]
    BY <1>3, <1>4
  <2>2. ASSUME NEW i \in DOMAIN p PROVE \E j \in DOMAIN out : DocumentOf[out[j].id] = DocumentOf[p[i].id]
    <3>1. PICK l \in 1 .. Len(p) : DocAt(p, l) = DocAt(p, i) /\ Leads(p, l)
      BY <1>2, <1>4, LeadExists
    <3>2. PICK j \in 1 .. Len(out) : out[j].id = p[l].id
      BY <1>3, <3>1
    <3> QED
      BY <1>4, <3>1, <3>2 DEF DocAt
  <2> QED
    BY <2>1, <2>2
<1>6. Len(out) = Cardinality(documents(out))
  <2> DEFINE D == documents(out)
             f == [i \in 1 .. Len(out) |-> DocumentOf[out[i].id]]
  <2>1. f \in [1 .. Len(out) -> D] /\ \A d \in D : \E i \in 1 .. Len(out) : f[i] = d
    BY <1>4
  <2>2. ASSUME NEW i \in 1 .. Len(out), NEW j \in 1 .. Len(out), f[i] = f[j] PROVE i = j
    <3>1. PICK l \in 1 .. Len(p) : Leads(p, l) /\ out[i].id = p[l].id
      BY <1>3
    <3>2. PICK n \in 1 .. Len(p) : Leads(p, n) /\ out[j].id = p[n].id
      BY <1>3
    <3>3. DocAt(p, l) = DocAt(p, n)
      BY <2>2, <3>1, <3>2 DEF DocAt
    <3>4. l = n
      BY <1>2, <3>1, <3>2, <3>3, OneLeads
    <3>5. out[i].id = out[j].id
      BY <3>1, <3>2, <3>4
    <3> QED
      BY <1>4, <3>5 DEF Distinct
  <2> HIDE DEF D, f
  <2>3. f \in Surjection(1 .. Len(out), D) /\ f \in Injection(1 .. Len(out), D)
    BY <2>1, <2>2, Fun_IsSurj, Fun_IsInj
  <2>4. IsFiniteSet(1 .. Len(out)) /\ Cardinality(1 .. Len(out)) = Len(out)
    <3>1. 1 \in Int /\ Len(out) \in Int /\ (1 > Len(out) => Len(out) = 0)
      BY <1>4
    <3>2. /\ IsFiniteSet(1 .. Len(out))
          /\ Cardinality(1 .. Len(out)) = IF 1 > Len(out) THEN 0 ELSE Len(out) - 1 + 1
      BY <3>1, FS_Interval
    <3> QED
      BY <3>1, <3>2
  <2>5. Cardinality(D) = Cardinality(1 .. Len(out))
    BY <2>3, <2>4, FS_Surjection
  <2> QED
    BY <2>4, <2>5 DEF D
<1>7. ASSUME NEW i \in DOMAIN out, NEW j \in DOMAIN p, DocumentOf[p[j].id] = DocumentOf[out[i].id]
      PROVE  p[j].score <= out[i].score
  <2>1. PICK l \in 1 .. Len(p) : Leads(p, l) /\ out[i].id = p[l].id /\ out[i].score = p[l].score
    BY <1>3, <1>4
  <2>2. j = l \/ p[j].score < p[l].score \/ p[j].score = p[l].score
    BY <1>4, <1>7, <2>1 DEF Leads
  <2>3. p[j].score \in Int /\ p[l].score \in Int
    BY <1>4
  <2> QED
    BY <2>1, <2>2, <2>3
<1> QED
  BY <1>5, <1>6, <1>7

\* Answers list the better scores first.
LEMMA BetterIsFirst ==
    ASSUME ranking.kind = "fusion" => Fused(ranking), ranking.kind = "single" => Alone(ranking)
    PROVE  BetterFirst
<1> DEFINE r == ranking
           out == r.out
<1>1. ASSUME r.kind = "fusion" PROVE HitList(out)
  <2> DEFINE p == Pruned(r.fused, r.cut, r.k)
  <2>1. HitList(p) /\ (r.dedup => out \in Deduplicated(p)) /\ (~r.dedup => out = p)
    BY <1>1, FusedIs
  <2> HIDE DEF p, out
  <2>2. p \in Seq(Hits) /\ Distinct(p)
    BY <2>1 DEF HitList
  <2> QED
    BY <2>1, <2>2, DeduplicatedIs
<1>2. ASSUME r.kind = "single" PROVE HitList(out)
  <2>1. r.list \in Lists /\ r.k \in Nat /\ out = Best(r.list, r.k)
    BY <1>2, RankingAssumption DEF Alone, HybridConfigured
  <2>2. HitList(r.list)
    BY <2>1, ListsAre
  <2> QED
    BY <2>1, <2>2, BeginningIs
<1> QED
  BY <1>1, <1>2 DEF BetterFirst, HitList

----------------------------------------------------------------------------
(* Rankings: several queries.                                             *)

\* The lists of the queries of a request.
QueryLists(lists) ==
    /\ Len(lists) \in Nat /\ DOMAIN lists = 1 .. Len(lists)
    /\ \A i \in 1 .. Len(lists) : lists[i] \in Lists

\* The lists of a request.
LEMMA QueryListsAre ==
    ASSUME NEW lists \in SeqOf(Lists, MaxQueries)
    PROVE  QueryLists(lists)
<1>1. PICK m \in 0 .. MaxQueries : lists \in [1 .. m -> Lists]
  BY DEF SeqOf
<1>2. m \in Nat
  BY RankingAssumption
<1>3. Len(lists) = m /\ DOMAIN lists = 1 .. m
  BY <1>1, <1>2
<1> QED
  BY <1>1, <1>2, <1>3 DEF QueryLists

\* The chunks found are finitely many.
LEMMA FoundIs ==
    ASSUME NEW lists, QueryLists(lists)
    PROVE  FoundByAny(lists) \in SUBSET Ids /\ IsFiniteSet(FoundByAny(lists))
<1> DEFINE f == [i \in DOMAIN lists |-> IdsOf(lists[i])]
           S == {f[i] : i \in DOMAIN lists}
<1>1. DOMAIN lists = 1 .. Len(lists) /\ Len(lists) \in Nat
  BY DEF QueryLists
<1>2. ASSUME NEW i \in DOMAIN lists PROVE IsFiniteSet(f[i]) /\ f[i] \subseteq Ids
  <2>1. HitList(lists[i])
    BY <1>1, ListsAre DEF QueryLists
  <2>2. IsFiniteSet(IdsOf(lists[i]))
    BY <2>1, IdsFinite DEF HitList
  <2>3. \A n \in DOMAIN lists[i] : lists[i][n] \in Hits
    BY <2>1 DEF HitList
  <2>4. IdsOf(lists[i]) \subseteq Ids
    BY <2>3 DEF IdsOf, Hits
  <2> QED
    BY <2>2, <2>4
<1>3. IsFiniteSet(DOMAIN lists)
  BY <1>1, FS_Interval
<1>4. FoundByAny(lists) = UNION S
  BY DEF FoundByAny
<1> HIDE DEF f
<1>5. IsFiniteSet(S)
  BY <1>3, ImageFinite
<1>6. \A T \in S : IsFiniteSet(T) /\ T \subseteq Ids
  BY <1>2
<1> HIDE DEF S
<1>7. IsFiniteSet(UNION S)
  BY <1>5, <1>6, FS_UNION
<1>8. UNION S \in SUBSET Ids
  BY <1>6
<1> QED
  BY <1>4, <1>7, <1>8

\* The scores of a chunk in the lists that found it.
LEMMA ScoresOfIs ==
    ASSUME NEW lists, QueryLists(lists), NEW id \in FoundByAny(lists)
    PROVE  /\ Finding(lists, id) \in SUBSET (1 .. Len(lists)) /\ Finding(lists, id) # {}
           /\ IsFiniteSet(Finding(lists, id))
           /\ ScoresOf(lists, id) \in SUBSET Nat /\ ScoresOf(lists, id) # {}
           /\ IsFiniteSet(ScoresOf(lists, id))
           /\ \A i \in Finding(lists, id) : /\ lists[i] \in Lists /\ id \in IdsOf(lists[i])
                                            /\ ScoreIn(lists[i], id) \in Nat
<1> DEFINE F == Finding(lists, id)
           f == [i \in F |-> ScoreIn(lists[i], id)]
<1>1. DOMAIN lists = 1 .. Len(lists) /\ Len(lists) \in Nat
  BY DEF QueryLists
<1>2. F \in SUBSET (1 .. Len(lists)) /\ F # {}
  BY <1>1 DEF FoundByAny, Finding
<1>3. IsFiniteSet(F)
  <2>1. IsFiniteSet(1 .. Len(lists))
    BY <1>1, FS_Interval
  <2> QED
    BY <1>2, <2>1, FS_Subset
<1>4. \A i \in F : /\ lists[i] \in Lists /\ id \in IdsOf(lists[i])
                   /\ ScoreIn(lists[i], id) \in Nat
  BY <1>1, ScoreInIs DEF Finding, QueryLists
<1>5. ScoresOf(lists, id) = {f[i] : i \in F}
  BY DEF ScoresOf
<1>6. \A i \in F : f[i] \in Nat
  BY <1>4
<1> HIDE DEF F, f
<1>7. IsFiniteSet({f[i] : i \in F})
  BY <1>3, ImageFinite
<1> QED
  BY <1>2, <1>3, <1>4, <1>5, <1>6, <1>7 DEF F

\* A quotient by c lies between u times the bounds of what it divides.
LEMMA QuotientWithin ==
    ASSUME NEW u \in Nat, NEW x \in Nat, NEW c \in Nat \ {0}, NEW lo \in Nat, NEW hi \in Nat,
           lo * c <= x, x <= hi * c
    PROVE  (u * x) \div c \in (u * lo) .. (u * hi)
<1> DEFINE p == u * lo
           q == u * hi
           y == u * x
<1>1. p \in Nat /\ q \in Nat /\ y \in Nat /\ lo * c \in Nat /\ hi * c \in Nat
  BY ProductNat
<1>2. u * (lo * c) <= y /\ y <= u * (hi * c)
  BY <1>1, ProductGrows
<1>3. u * (lo * c) = p * c /\ u * (hi * c) = q * c
  OBVIOUS
<1> HIDE DEF p, q, y
<1>4. p * c <= y /\ y <= q * c
  BY <1>2, <1>3
<1>5. (p * c) \div c = p /\ (q * c) \div c = q
  BY <1>1, SMTT(20)
<1>6. p * c \in Int /\ q * c \in Int
  BY <1>1
<1>7. p <= y \div c /\ y \div c <= q /\ y \div c \in Int
  BY <1>1, <1>4, <1>5, <1>6, QuotientGrows
<1> QED
  BY <1>1, <1>7 DEF p, q, y

\* The greatest score and the average lie between the scores.
LEMMA MaxWithin ==
    ASSUME NEW lists, QueryLists(lists), NEW id \in FoundByAny(lists)
    PROVE  AggregateMax(lists, id) \in
               (AvgUnit * Min(ScoresOf(lists, id))) .. (AvgUnit * Max(ScoresOf(lists, id)))
<1> DEFINE V == ScoresOf(lists, id)
           lo == Min(V)
           hi == Max(V)
<1>1. V \in SUBSET Nat /\ V # {} /\ IsFiniteSet(V)
  BY ScoresOfIs
<1> HIDE DEF V
<1>2. hi \in Nat /\ lo \in Nat /\ lo <= hi
  BY <1>1, GreatestOf
<1> HIDE DEF lo, hi
<1>3. AvgUnit \in Nat
  BY RankingAssumption
<1>4. AvgUnit * lo <= AvgUnit * hi /\ AvgUnit * lo \in Nat /\ AvgUnit * hi \in Nat
  BY <1>2, <1>3, ProductGrows, ProductNat
<1>5. AvgUnit * hi \in (AvgUnit * lo) .. (AvgUnit * hi)
  <2> DEFINE x == AvgUnit * lo
             y == AvgUnit * hi
  <2> HIDE DEF x, y
  <2>1. x \in Nat /\ y \in Nat /\ x <= y
    BY <1>4 DEF x, y
  <2>2. y \in x .. y
    BY <2>1
  <2> QED
    BY <2>2 DEF x, y
<1> QED
  BY <1>5 DEF AggregateMax, lo, hi, V

\* The average, likewise.
LEMMA AvgWithin ==
    ASSUME NEW lists, QueryLists(lists), NEW id \in FoundByAny(lists)
    PROVE  AggregateAvg(lists, id) \in
               (AvgUnit * Min(ScoresOf(lists, id))) .. (AvgUnit * Max(ScoresOf(lists, id)))
<1> DEFINE V == ScoresOf(lists, id)
           lo == Min(V)
           hi == Max(V)
           m == Len(lists)
           F == Finding(lists, id)
           f == [i \in DOMAIN lists |-> IF i \in F THEN ScoreIn(lists[i], id) ELSE 0]
           c == Cardinality(F)
<1>1. /\ F \in SUBSET (1 .. m) /\ F # {} /\ IsFiniteSet(F)
      /\ V \in SUBSET Nat /\ V # {} /\ IsFiniteSet(V)
      /\ \A i \in F : ScoreIn(lists[i], id) \in Nat
  BY ScoresOfIs
<1>2. DOMAIN lists = 1 .. m /\ m \in Nat
  BY DEF QueryLists
<1>3. \A i \in F : ScoreIn(lists[i], id) \in V
  BY DEF ScoresOf
<1>4. f \in [1 .. m -> Nat] /\ \A i \in (1 .. m) \ F : f[i] = 0
  BY <1>1, <1>2
<1>5. \A i \in F : f[i] \in V
  BY <1>1, <1>2, <1>3
<1>6. AggregateAvg(lists, id) = (AvgUnit * Summed(f)) \div c
  BY DEF AggregateAvg
<1> HIDE DEF V, F, f, m
<1>7. /\ hi \in Nat /\ lo \in Nat
      /\ \A x \in V : lo <= x /\ x <= hi
  BY <1>1, GreatestOf
<1> HIDE DEF lo, hi
<1>8. \A i \in F : lo <= f[i] /\ f[i] <= hi
  BY <1>5, <1>7
<1>9. /\ Summed(f) \in Nat /\ c \in Nat
      /\ lo * c <= Summed(f) /\ Summed(f) <= hi * c
  BY <1>1, <1>2, <1>4, <1>7, <1>8, SumBetween
<1>10. c # 0
  BY <1>1, FS_EmptySet
<1> HIDE DEF c
<1>11. AvgUnit \in Nat
  BY RankingAssumption
<1>12. (AvgUnit * Summed(f)) \div c \in (AvgUnit * lo) .. (AvgUnit * hi)
  BY <1>7, <1>9, <1>10, <1>11, QuotientWithin
<1> QED
  BY <1>6, <1>12 DEF lo, hi, V

\* The sum of reciprocals is a number.
LEMMA RrfInt ==
    ASSUME NEW lists, QueryLists(lists), NEW id
    PROVE  AggregateRrf(lists, id) \in Int
<1> DEFINE f == [i \in DOMAIN lists |->
                    IF i \in Finding(lists, id) THEN RrfScore(At(lists[i], id)) ELSE 0]
<1>1. DOMAIN lists = 1 .. Len(lists) /\ Len(lists) \in Nat
  BY DEF QueryLists
<1>2. ASSUME NEW i \in Finding(lists, id) PROVE RrfScore(At(lists[i], id)) \in Nat
  <2>1. lists[i] \in Lists /\ id \in IdsOf(lists[i])
    BY <1>1 DEF Finding, QueryLists
  <2>2. At(lists[i], id) \in Nat
    BY <2>1, ScoreInIs
  <2> QED
    BY <2>2, RrfScoreIs
<1>3. f \in [1 .. Len(lists) -> Int]
  <2>1. \A i \in 1 .. Len(lists) : f[i] \in Int
    BY <1>1, <1>2
  <2> QED
    BY <1>1, <2>1
<1>4. AggregateRrf(lists, id) = Summed(f)
  BY DEF AggregateRrf
<1> HIDE DEF f
<1> QED
  BY <1>1, <1>3, <1>4, SumInt

\* What AggregateLists leaves.
Gathered(r) ==
    /\ r.how \in {"max", "avg", "rrf"} /\ r.lists \in SeqOf(Lists, MaxQueries)
    /\ r.out \in Sorted(FoundByAny(r.lists), Aggregated(r.how, r.lists))

\* The aggregate holds every chunk, and an average lies within its scores.
LEMMA WithinScores ==
    ASSUME ranking.kind = "aggregation" => Gathered(ranking)
    PROVE  AggregateWithinScores
<1> DEFINE r == ranking
           score == Aggregated(r.how, r.lists)
           lists == r.lists
           out == r.out
           found == FoundByAny(lists)
           range(id) == (AvgUnit * Min(ScoresOf(lists, id))) .. (AvgUnit * Max(ScoresOf(lists, id)))
<1> SUFFICES ASSUME r.kind = "aggregation"
             PROVE  /\ IdsOf(out) = found /\ Distinct(out)
                    /\ r.how # "rrf" => \A i \in DOMAIN out : out[i].score \in range(out[i].id)
  BY DEF AggregateWithinScores
<1>1. QueryLists(lists) /\ out \in Sorted(found, score) /\ r.how \in {"max", "avg", "rrf"}
  BY QueryListsAre DEF Gathered
<1>2. found \in SUBSET Ids /\ IsFiniteSet(found)
  BY <1>1, FoundIs
<1>3. /\ DOMAIN score = found
      /\ \A id \in found : score[id] = CASE r.how = "max" -> AggregateMax(lists, id)
                                         [] r.how = "avg" -> AggregateAvg(lists, id)
                                         [] OTHER -> AggregateRrf(lists, id)
  BY DEF Aggregated
<1>4. score = [id \in found |-> score[id]]
  BY DEF Aggregated
<1>5. ASSUME NEW id \in found PROVE r.how # "rrf" => score[id] \in range(id)
  <2>1. CASE r.how = "max"
    BY <1>1, <1>3, <2>1, MaxWithin
  <2>2. CASE r.how = "avg"
    BY <1>1, <1>3, <2>2, AvgWithin
  <2> QED
    BY <1>1, <2>1, <2>2
<1>6. ASSUME NEW id \in found PROVE score[id] \in Int
  <2>1. CASE r.how = "rrf"
    <3>1. score[id] = AggregateRrf(lists, id)
      BY <1>3, <2>1
    <3> QED
      BY <1>1, <3>1, RrfInt
  <2>2. CASE r.how # "rrf"
    <3>1. \A a, b : a .. b \subseteq Int
      OBVIOUS
    <3> QED
      BY <1>5, <2>2, <3>1
  <2> QED
    BY <2>1, <2>2
<1> HIDE DEF score, found, lists, out, r, range
<1>7. score \in [found -> Int]
  BY <1>4, <1>6
<1>8. /\ HitList(out) /\ IdsOf(out) = found
      /\ \A i \in DOMAIN out : out[i].id \in found /\ out[i].score = score[out[i].id]
  BY <1>1, <1>2, <1>7, SortedIs
<1> QED
  BY <1>5, <1>8 DEF HitList

----------------------------------------------------------------------------
(* Rankings: reranking in batches.                                        *)

\* The batch of a document.
BatchOf(j) == ((j - 1) \div RerankBatch) * RerankBatch

\* The multiple of d below x.
LEMMA FloorIs ==
    ASSUME NEW x \in Nat, NEW d \in Nat \ {0}
    PROVE  /\ (x \div d) * d \in Nat /\ (x \div d) * d <= x /\ x < (x \div d) * d + d
           /\ ((x \div d) * d) % d = 0
<1> DEFINE q == x \div d
<1>1. q \in Nat /\ q * d \in Nat /\ q * d <= x /\ x < q * d + d
  BY SMTT(20)
<1> HIDE DEF q
<1>2. (q * d) % d = 0
  BY <1>1, SMTT(20)
<1> QED
  BY <1>1, <1>2 DEF q

\* The batch of a document, and its place in the batch.
LEMMA BatchOfIs ==
    ASSUME NEW n \in Nat, NEW j \in 1 .. n
    PROVE  /\ BatchOf(j) \in BatchStarts(n) /\ BatchLen(n, BatchOf(j)) \in Nat
           /\ BatchOf(j) \in Nat /\ j - BatchOf(j) \in 1 .. BatchLen(n, BatchOf(j))
<1> DEFINE b == BatchOf(j)
           B == RerankBatch
<1>1. B \in Nat \ {0} /\ j - 1 \in Nat /\ j - 1 < n
  BY RankingAssumption DEF RerankerConfigured
<1>2. b \in Nat /\ b <= j - 1 /\ j - 1 < b + B /\ b % B = 0
  BY <1>1, FloorIs DEF BatchOf
<1> HIDE DEF b
<1>3. b \in BatchStarts(n)
  BY <1>1, <1>2 DEF BatchStarts
<1>4. BatchLen(n, b) = IF B <= n - b THEN B ELSE n - b
  <2>1. CASE B <= n - b
    BY <1>1, <1>2, <2>1 DEF BatchLen, Min
  <2>2. CASE ~(B <= n - b)
    BY <1>1, <1>2, <2>2 DEF BatchLen, Min
  <2> QED
    BY <2>1, <2>2
<1> HIDE DEF B
<1>5. BatchLen(n, b) \in Nat /\ j - b \in 1 .. BatchLen(n, b)
  BY <1>1, <1>2, <1>4
<1> QED
  BY <1>2, <1>3, <1>5 DEF b

ReplyEntries == [index : 0 .. RerankBatch, score : Scores]

\* What a reply of the reranker may be.
LEMMA ScoreRepliesAre ==
    ASSUME NEW reply \in ScoreReplies
    PROVE  /\ DOMAIN reply = 1 .. Len(reply) /\ Len(reply) \in Nat
           /\ \A i \in DOMAIN reply : reply[i].score \in Nat
<1>1. PICK m \in 0 .. RerankBatch : reply \in [1 .. m -> ReplyEntries]
  BY DEF ScoreReplies, SeqOf, ReplyEntries
<1>2. m \in Nat /\ \A v \in Scores : v \in Nat
  BY RankingAssumption DEF RerankerConfigured
<1>3. Len(reply) = m /\ DOMAIN reply = 1 .. m
  BY <1>1, <1>2
<1>4. \A x \in ReplyEntries : x.score \in Scores
  BY DEF ReplyEntries
<1> QED
  BY <1>1, <1>2, <1>3, <1>4

\* The last score under an index, and the only one.
LEMMA NamedIs ==
    ASSUME NEW reply \in ScoreReplies, NEW index
    PROVE  /\ Named(reply, index) # {} => reply[Max(Named(reply, index))].score \in Nat
           /\ \A i \in DOMAIN reply : Named(reply, index) = {i} => Max(Named(reply, index)) = i
<1> DEFINE N == Named(reply, index)
<1>1. /\ DOMAIN reply = 1 .. Len(reply) /\ Len(reply) \in Nat
      /\ \A i \in DOMAIN reply : reply[i].score \in Nat
  BY ScoreRepliesAre
<1>2. N \subseteq DOMAIN reply
  BY DEF Named
<1> HIDE DEF N
<1>3. N \in SUBSET Nat /\ IsFiniteSet(N)
  <2>1. IsFiniteSet(1 .. Len(reply))
    BY <1>1, FS_Interval
  <2> QED
    BY <1>1, <1>2, <2>1, FS_Subset
<1>4. ASSUME N # {} PROVE reply[Max(N)].score \in Nat
  <2>1. Max(N) \in N
    BY <1>3, <1>4, GreatestOf
  <2> QED
    BY <1>1, <1>2, <2>1
<1>5. ASSUME NEW i \in DOMAIN reply, N = {i} PROVE Max(N) = i
  <2>1. Max(N) \in N
    BY <1>3, <1>5, GreatestOf
  <2> QED
    BY <1>5, <2>1
<1> QED
  BY <1>4, <1>5 DEF N

\* What the batches give a document.
LEMMA AllScoresAre ==
    ASSUME NEW n \in Nat, NEW reply \in [BatchStarts(n) -> ScoreReplies], NEW j \in 1 .. n
    PROVE  LET b == BatchOf(j)
               N == Named(reply[b], j - b - 1)
           IN /\ AllScores(n, reply)[j] \in Nat
              /\ \A i \in DOMAIN reply[b] : N = {i} => AllScores(n, reply)[j] = reply[b][i].score
<1> DEFINE b == BatchOf(j)
           N == Named(reply[b], j - b - 1)
           len == BatchLen(n, b)
           t == BatchScores(reply[b], len)
<1>1. b \in BatchStarts(n) /\ len \in Nat /\ b \in Nat /\ j - b \in 1 .. len
  BY BatchOfIs
<1>2. AllScores(n, reply)[j] = t[j - b]
  BY DEF AllScores, BatchOf
<1>3. reply[b] \in ScoreReplies
  BY <1>1
<1> HIDE DEF b, len
<1>4. t[j - b] = IF N = {} THEN 0 ELSE reply[b][Max(N)].score
  BY <1>1 DEF BatchScores
<1> HIDE DEF N, t
<1>5. /\ N # {} => reply[b][Max(N)].score \in Nat
      /\ \A i \in DOMAIN reply[b] : N = {i} => Max(N) = i
  BY <1>3, NamedIs DEF N
<1>6. AllScores(n, reply)[j] \in Nat
  BY <1>2, <1>4, <1>5
<1>7. \A i \in DOMAIN reply[b] : N = {i} => AllScores(n, reply)[j] = reply[b][i].score
  BY <1>2, <1>4, <1>5
<1> QED
  BY <1>6, <1>7 DEF N, b

\* What the threshold lets pass.
LEMMA SurvivingIs ==
    ASSUME NEW n \in Nat, NEW reply \in [BatchStarts(n) -> ScoreReplies]
    PROVE  /\ IsFiniteSet(Surviving(n, reply))
           /\ \A x \in Surviving(n, reply) : /\ x.id \in 1 .. n /\ x.score \in Nat
                                             /\ x.score = AllScores(n, reply)[x.id]
                                             /\ x = [id |-> x.id, score |-> x.score]
           /\ \A j \in 1 .. n : AllScores(n, reply)[j] >= RerankThreshold =>
                  [id |-> j, score |-> AllScores(n, reply)[j]] \in Surviving(n, reply)
<1> DEFINE f == [j \in 1 .. n |-> [id |-> j, score |-> AllScores(n, reply)[j]]]
           S == {f[j] : j \in 1 .. n}
<1>1. \A j \in 1 .. n : AllScores(n, reply)[j] \in Nat
  BY AllScoresAre
<1>2. Surviving(n, reply) = {x \in S : x.score >= RerankThreshold}
  BY DEF Surviving
<1>3. /\ \A x \in S : /\ x.id \in 1 .. n /\ x.score = AllScores(n, reply)[x.id]
                      /\ x = [id |-> x.id, score |-> x.score]
      /\ \A j \in 1 .. n : /\ [id |-> j, score |-> AllScores(n, reply)[j]] \in S
                           /\ [id |-> j, score |-> AllScores(n, reply)[j]].score = AllScores(n, reply)[j]
  OBVIOUS
<1>4. IsFiniteSet(1 .. n)
  BY FS_Interval
<1> HIDE DEF f
<1>5. IsFiniteSet(S)
  BY <1>4, ImageFinite
<1> HIDE DEF S
<1>6. Surviving(n, reply) \in SUBSET S
  BY <1>2
<1>7. IsFiniteSet(Surviving(n, reply))
  BY <1>5, <1>6, FS_Subset
<1> QED
  BY <1>1, <1>2, <1>3, <1>6, <1>7

\* Results by their scores, and in the order of the documents among equals.
Stable(s) ==
    /\ Descending(s)
    /\ \A i, j \in DOMAIN s : i < j /\ s[i].score = s[j].score => s[i].id < s[j].id

\* Score and place packed in one number order as the pair does.
LEMMA KeysOrder ==
    ASSUME NEW n \in Nat, NEW v \in Nat, NEW w \in Nat, NEW i \in 1 .. n, NEW j \in 1 .. n,
           v * (n + 1) + (n - i) >= w * (n + 1) + (n - j)
    PROVE  v >= w /\ (v = w => i <= j)
<1> DEFINE p == v * (n + 1)
           q == w * (n + 1)
<1>1. p \in Nat /\ q \in Nat
  BY ProductNat
<1>2. v >= w
  <2> SUFFICES ASSUME v + 1 <= w PROVE FALSE
    OBVIOUS
  <2>1. (n + 1) * (v + 1) <= (n + 1) * w
    BY ProductGrows
  <2>2. (n + 1) * (v + 1) = p + n + 1 /\ (n + 1) * w = q
    OBVIOUS
  <2>3. p + (n - i) >= q + (n - j)
    OBVIOUS
  <2> HIDE DEF p, q
  <2> QED
    BY <1>1, <2>1, <2>2, <2>3
<1>3. ASSUME v = w PROVE i <= j
  <2>1. p = q /\ p + (n - i) >= q + (n - j)
    BY <1>3
  <2> HIDE DEF p, q
  <2> QED
    BY <1>1, <2>1
<1> QED
  BY <1>2, <1>3

\* The stable order that Reranked chooses exists.
LEMMA StableExists ==
    ASSUME NEW n \in Nat, NEW reply \in [BatchStarts(n) -> ScoreReplies]
    PROVE  \E s \in SetToSeqs(Surviving(n, reply)) : Stable(s)
<1> DEFINE S == Surviving(n, reply)
           key == [x \in S |-> x.score * (n + 1) + (n - x.id)]
<1>1. /\ IsFiniteSet(S)
      /\ \A x \in S : x.id \in 1 .. n /\ x.score \in Nat /\ x = [id |-> x.id, score |-> x.score]
  BY SurvivingIs
<1> HIDE DEF S
<1>2. \A x \in S : key[x] \in Nat /\ key[x] = x.score * (n + 1) + (n - x.id)
  <2> TAKE x \in S
  <2>1. x.score * (n + 1) \in Nat /\ n - x.id \in Nat
    BY <1>1, ProductNat
  <2> QED
    BY <2>1
<1> HIDE DEF key
<1>3. PICK s \in SetToSeqs(S) : Descends(s, key)
  BY <1>1, <1>2, SortedExists
<1>4. /\ DOMAIN s = 1 .. Cardinality(S) /\ \A i \in DOMAIN s : s[i] \in S
      /\ \A i, j \in DOMAIN s : i # j => s[i] # s[j]
      /\ Cardinality(S) \in Nat
  <2>1. /\ Cardinality(S) \in Nat /\ s \in [1 .. Cardinality(S) -> S]
        /\ \A i, j \in 1 .. Cardinality(S) : i # j => s[i] # s[j]
    <3>1. IsFiniteSet(S) /\ s \in SetToSeqs(S)
      BY <1>1, <1>3
    <3> QED
      BY ONLY <3>1, ListsAll
  <2> QED
    BY <2>1
<1>5. ASSUME NEW i \in DOMAIN s, NEW j \in DOMAIN s, i < j
      PROVE  /\ s[i].score >= s[j].score
             /\ s[i].score = s[j].score => s[i].id < s[j].id
  <2>1. key[s[i]] >= key[s[j]]
    BY <1>3, <1>5 DEF Descends
  <2>2. s[i] \in S /\ s[j] \in S /\ s[i] # s[j]
    BY <1>4, <1>5
  <2> DEFINE x == s[i]
             y == s[j]
  <2> HIDE DEF x, y
  <2>3. x \in S /\ y \in S /\ x # y /\ key[x] >= key[y]
    BY <2>1, <2>2 DEF x, y
  <2>4. x.score * (n + 1) + (n - x.id) >= y.score * (n + 1) + (n - y.id)
    BY <1>2, <2>3
  <2>5. x.score \in Nat /\ y.score \in Nat /\ x.id \in 1 .. n /\ y.id \in 1 .. n
    BY <1>1, <2>3
  <2>6. x.score >= y.score /\ (x.score = y.score => x.id <= y.id)
    BY <2>4, <2>5, KeysOrder
  <2>7. x.score = y.score => x.id # y.id
    BY <1>1, <2>3
  <2>8. x.score >= y.score /\ (x.score = y.score => x.id < y.id)
    BY <2>5, <2>6, <2>7
  <2> QED
    BY <2>8 DEF x, y
<1>6. Stable(s)
  BY <1>5 DEF Stable, Descending
<1> QED
  BY <1>3, <1>6 DEF S

\* What comes back of the documents.
LEMMA RerankedIs ==
    ASSUME NEW n \in Nat, NEW reply \in [BatchStarts(n) -> ScoreReplies], NEW k \in Nat \ {0}
    PROVE  LET out == Reranked(n, reply, k)
               scores == AllScores(n, reply)
           IN /\ DOMAIN out = 1 .. Len(out) /\ Len(out) \in Nat
              /\ \A i \in DOMAIN out : out[i].id \in 1 .. n /\ out[i].score = scores[out[i].id]
              /\ \A j \in (1 .. n) \ IdsOf(out) :
                     \/ scores[j] < RerankThreshold
                     \/ Len(out) = k /\ scores[j] <= Last(out).score
<1> DEFINE S == Surviving(n, reply)
           scores == AllScores(n, reply)
           s == CHOOSE s \in SetToSeqs(S) : Stable(s)
           out == Best(s, k)
<1>1. s \in SetToSeqs(S) /\ Stable(s)
  BY StableExists
<1>2. Reranked(n, reply, k) = out
  BY DEF Reranked, Stable
<1>3. /\ IsFiniteSet(S)
      /\ \A x \in S : x.id \in 1 .. n /\ x.score \in Nat /\ x.score = scores[x.id]
      /\ \A j \in 1 .. n : scores[j] >= RerankThreshold => [id |-> j, score |-> scores[j]] \in S
  BY SurvivingIs
<1>4. \A j \in 1 .. n : scores[j] \in Nat
  BY AllScoresAre
<1>5. RerankThreshold \in Nat
  BY RankingAssumption DEF RerankerConfigured
<1> HIDE DEF s, S, scores
<1>6. /\ s \in Seq(S) /\ Len(s) \in Nat /\ DOMAIN s = 1 .. Len(s)
      /\ \A i \in 1 .. Len(s) : s[i] \in S
      /\ \A c \in S : \E i \in 1 .. Len(s) : s[i] = c
  <2>1. /\ Cardinality(S) \in Nat /\ s \in Seq(S) /\ s \in [1 .. Cardinality(S) -> S]
        /\ Len(s) = Cardinality(S)
        /\ \A c \in S : \E i \in 1 .. Cardinality(S) : s[i] = c
    BY <1>1, <1>3, ListsAll
  <2> QED
    BY <2>1
<1>7. /\ out \in Seq(S) /\ DOMAIN out = 1 .. Len(out)
      /\ Len(out) = IF k <= Len(s) THEN k ELSE Len(s)
      /\ \A i \in 1 .. Len(out) : i \in 1 .. Len(s) /\ out[i] = s[i]
  BY <1>6, BestIs
<1> HIDE DEF out
<1>8. Len(out) \in Nat
  BY <1>6, <1>7
<1>9. \A i \in DOMAIN out : out[i].id \in 1 .. n /\ out[i].score = scores[out[i].id]
  BY <1>3, <1>6, <1>7
<1>10. ASSUME NEW j \in (1 .. n) \ IdsOf(out), ~(scores[j] < RerankThreshold)
       PROVE  Len(out) = k /\ scores[j] <= Last(out).score
  <2> DEFINE x == [id |-> j, score |-> scores[j]]
  <2>1. x \in S /\ x.id = j /\ x.score = scores[j]
    BY <1>3, <1>4, <1>5, <1>10
  <2>2. PICK i \in 1 .. Len(s) : s[i] = x
    BY <1>6, <2>1
  <2>3. ~(i \in 1 .. Len(out))
    <3>1. ASSUME i \in 1 .. Len(out) PROVE j \in IdsOf(out)
      <4>1. i \in DOMAIN out /\ out[i].id = j
        BY <1>7, <2>1, <2>2, <3>1
      <4> QED
        BY <4>1 DEF IdsOf
    <3> QED
      BY <1>10, <3>1
  <2>4. Len(out) = k /\ k < i /\ k \in 1 .. Len(out) /\ k \in 1 .. Len(s)
    <3>1. i \in Nat /\ 1 <= i /\ i <= Len(s) /\ Len(s) \in Nat /\ Len(out) < i
      BY <1>6, <1>8, <2>2, <2>3
    <3>2. Len(out) = k
      BY <1>7, <3>1
    <3> QED
      BY <3>1, <3>2
  <2>5. Last(out) = s[k]
    BY <1>7, <2>4 DEF Last
  <2>6. s[k].score >= s[i].score
    BY <1>1, <1>6, <2>4 DEF Stable, Descending
  <2>7. s[k].score \in Nat /\ s[i].score \in Nat
    BY <1>3, <1>6, <2>4
  <2> HIDE DEF x
  <2> QED
    BY <2>1, <2>2, <2>4, <2>5, <2>6, <2>7
<1> QED
  BY <1>2, <1>7, <1>8, <1>9, <1>10 DEF scores

\* What RerankList leaves.
Rescored(r) ==
    /\ r.n \in Nat /\ r.k \in TopKs /\ r.reply \in [BatchStarts(r.n) -> ScoreReplies]
    /\ r.out = Reranked(r.n, r.reply, r.k)

\* A reranked text carries its own score.
LEMMA RerankIsTrue ==
    ASSUME ranking.kind = "rerank" => Rescored(ranking)
    PROVE  RerankTruthful
<1> DEFINE r == ranking
           n == r.n
           reply == r.reply
           out == r.out
           named(j) == {i \in DOMAIN reply[BatchOf(j)] : reply[BatchOf(j)][i].index = j - BatchOf(j) - 1}
           given(j) == {reply[BatchOf(j)][i].score : i \in named(j)}
           scores == AllScores(n, reply)
<1> SUFFICES ASSUME r.kind = "rerank", \A j \in 1 .. n : Cardinality(named(j)) = 1
             PROVE  /\ \A i \in DOMAIN out : given(out[i].id) = {out[i].score}
                    /\ \A j \in (1 .. n) \ IdsOf(out) : \A x \in given(j) :
                           x < RerankThreshold \/ (Len(out) = r.k /\ x <= Last(out).score)
  BY Zenon DEF RerankTruthful, BatchOf
<1>1. /\ n \in Nat /\ reply \in [BatchStarts(n) -> ScoreReplies] /\ r.k \in Nat \ {0}
      /\ out = Reranked(n, reply, r.k)
  BY RankingAssumption DEF Rescored, HybridConfigured
<1>2. ASSUME NEW j \in 1 .. n PROVE given(j) = {scores[j]}
  <2> DEFINE b == BatchOf(j)
             N == named(j)
             t == reply[b]
  <2>1. t \in ScoreReplies
    BY <1>1, BatchOfIs
  <2>2. DOMAIN t = 1 .. Len(t) /\ Len(t) \in Nat
    BY <2>1, ScoreRepliesAre
  <2>3. N = Named(t, j - b - 1) /\ N \subseteq DOMAIN t
    BY DEF Named
  <2>4. IsFiniteSet(N)
    <3>1. IsFiniteSet(1 .. Len(t))
      BY <2>2, FS_Interval
    <3> HIDE DEF N, t
    <3> QED
      BY <2>2, <2>3, <3>1, FS_Subset
  <2>5. Cardinality(N) = 1
    OBVIOUS
  <2>6. PICK i : N = {i}
    <3> HIDE DEF N
    <3> QED
      BY <2>4, <2>5, FS_Singleton
  <2>7. i \in DOMAIN t
    BY <2>3, <2>6
  <2>8. scores[j] = t[i].score
    <3>1. \A m \in DOMAIN reply[BatchOf(j)] :
              Named(reply[BatchOf(j)], j - BatchOf(j) - 1) = {m} =>
                  AllScores(n, reply)[j] = reply[BatchOf(j)][m].score
      BY <1>1, AllScoresAre
    <3>2. Named(t, j - b - 1) = {i}
      BY <2>3, <2>6
    <3> QED
      BY <2>7, <3>1, <3>2
  <2>9. given(j) = {t[m].score : m \in N}
    OBVIOUS
  <2> HIDE DEF given, N, t
  <2> QED
    BY <2>6, <2>8, <2>9
<1>3. /\ DOMAIN out = 1 .. Len(out) /\ Len(out) \in Nat
      /\ \A i \in DOMAIN out : out[i].id \in 1 .. n /\ out[i].score = scores[out[i].id]
      /\ \A j \in (1 .. n) \ IdsOf(out) :
             \/ scores[j] < RerankThreshold
             \/ Len(out) = r.k /\ scores[j] <= Last(out).score
  BY <1>1, RerankedIs
<1> HIDE DEF given, scores, out, n, r
<1>4. \A i \in DOMAIN out : given(out[i].id) = {out[i].score}
  BY <1>2, <1>3
<1>5. ASSUME NEW j \in (1 .. n) \ IdsOf(out), NEW x \in given(j)
      PROVE  x < RerankThreshold \/ (Len(out) = r.k /\ x <= Last(out).score)
  <2>1. x = scores[j]
    BY <1>2, <1>5
  <2> QED
    BY <1>3, <1>5, <2>1
<1> QED
  BY <1>4, <1>5

----------------------------------------------------------------------------

\* What one ranking leaves: the inductive invariant.
RankInv ==
    /\ ranking.kind = "fusion" => Fused(ranking)
    /\ ranking.kind = "single" => Alone(ranking)
    /\ ranking.kind = "aggregation" => Gathered(ranking)
    /\ ranking.kind = "rerank" => Rescored(ranking)

\* Every ranking establishes the invariant ...
LEMMA RankStep == RankInv /\ [RankNext]_ranking => RankInv'
<1> SUFFICES ASSUME RankInv, [RankNext]_ranking PROVE RankInv'
  OBVIOUS
<1>1. CASE FuseLists
  <2>1. PICK method \in Methods, sem \in Lists, kw \in Lists, w \in Weights, k \in TopKs :
          \E fused \in Fusions(method, sem, kw, w) :
          \E cut \in {0} \cup {fused[i].score : i \in DOMAIN fused}, dedup \in BOOLEAN :
          \E out \in Outcomes(fused, cut, k, dedup) :
              ranking' = [kind |-> "fusion", method |-> method, sem |-> sem, kw |-> kw,
                          w |-> w, k |-> k, cut |-> cut, dedup |-> dedup, fused |-> fused,
                          out |-> out]
    BY <1>1 DEF FuseLists
  <2>2. PICK fused \in Fusions(method, sem, kw, w) :
          \E cut \in {0} \cup {fused[i].score : i \in DOMAIN fused}, dedup \in BOOLEAN :
          \E out \in Outcomes(fused, cut, k, dedup) :
              ranking' = [kind |-> "fusion", method |-> method, sem |-> sem, kw |-> kw,
                          w |-> w, k |-> k, cut |-> cut, dedup |-> dedup, fused |-> fused,
                          out |-> out]
    BY <2>1
  <2>3. PICK cut \in {0} \cup {fused[i].score : i \in DOMAIN fused}, dedup \in BOOLEAN :
          \E out \in Outcomes(fused, cut, k, dedup) :
              ranking' = [kind |-> "fusion", method |-> method, sem |-> sem, kw |-> kw,
                          w |-> w, k |-> k, cut |-> cut, dedup |-> dedup, fused |-> fused,
                          out |-> out]
    BY <2>2
  <2>4. PICK out \in Outcomes(fused, cut, k, dedup) :
              ranking' = [kind |-> "fusion", method |-> method, sem |-> sem, kw |-> kw,
                          w |-> w, k |-> k, cut |-> cut, dedup |-> dedup, fused |-> fused,
                          out |-> out]
    BY <2>3
  <2>5. cut \in Int
    <3>1. \A i \in DOMAIN fused : fused[i] \in Hits
      BY <2>2, FusionsAre DEF HitList
    <3>2. \A i \in DOMAIN fused : fused[i].score \in Int
      BY <3>1 DEF Hits
    <3> QED
      BY <3>2
  <2>6. Fused(ranking')
    BY <2>4, <2>5 DEF Fused
  <2>7. ranking'.kind = "fusion"
    BY <2>4
  <2> QED
    BY <2>6, <2>7 DEF RankInv, Fused
<1>2. CASE AggregateLists
  <2>1. PICK how \in {"max", "avg", "rrf"}, lists \in SeqOf(Lists, MaxQueries) :
          \E out \in Sorted(FoundByAny(lists), Aggregated(how, lists)) :
              ranking' = [kind |-> "aggregation", how |-> how, lists |-> lists, out |-> out]
    BY <1>2 DEF AggregateLists
  <2>2. PICK out \in Sorted(FoundByAny(lists), Aggregated(how, lists)) :
              ranking' = [kind |-> "aggregation", how |-> how, lists |-> lists, out |-> out]
    BY <2>1
  <2>3. Gathered(ranking') /\ ranking'.kind = "aggregation"
    BY <2>2 DEF Gathered
  <2> QED
    BY <2>3 DEF RankInv, Gathered
<1>3. CASE RerankList
  <2>1. PICK n \in 0 .. (MaxReranked + 1), k \in TopKs :
          \E reply \in [BatchStarts(n) -> ScoreReplies] :
          ranking' = IF RerankFails(n, reply) THEN [kind |-> "rerank failed"]
                     ELSE [kind |-> "rerank", n |-> n, k |-> k, reply |-> reply,
                           out |-> Reranked(n, reply, k)]
    BY <1>3 DEF RerankList
  <2>2. PICK reply \in [BatchStarts(n) -> ScoreReplies] :
          ranking' = IF RerankFails(n, reply) THEN [kind |-> "rerank failed"]
                     ELSE [kind |-> "rerank", n |-> n, k |-> k, reply |-> reply,
                           out |-> Reranked(n, reply, k)]
    BY <2>1
  <2>3. CASE RerankFails(n, reply)
    <3>1. ranking'.kind = "rerank failed"
      BY <2>2, <2>3
    <3> QED
      BY <3>1 DEF RankInv
  <2>4. CASE ~RerankFails(n, reply)
    <3>1. ranking' = [kind |-> "rerank", n |-> n, k |-> k, reply |-> reply,
                      out |-> Reranked(n, reply, k)]
      BY <2>2, <2>4
    <3>2. n \in Nat
      BY RankingAssumption DEF RerankerConfigured
    <3>3. Rescored(ranking') /\ ranking'.kind = "rerank"
      BY <3>1, <3>2 DEF Rescored
    <3> QED
      BY <3>3 DEF RankInv, Rescored
  <2> QED
    BY <2>3, <2>4
<1>5. CASE SingleList
  <2>1. PICK list \in Lists, k \in TopKs :
          ranking' = [kind |-> "single", list |-> list, k |-> k, out |-> Best(list, k)]
    BY <1>5 DEF SingleList
  <2>2. Alone(ranking') /\ ranking'.kind = "single"
    BY <2>1 DEF Alone
  <2> QED
    BY <2>2 DEF RankInv, Alone
<1>4. CASE UNCHANGED ranking
  BY <1>4 DEF RankInv, Fused, Alone, Gathered, Rescored
<1> QED
  BY <1>1, <1>2, <1>3, <1>4, <1>5 DEF RankNext

\* ... which implies the property.
LEMMA RankInvRespects == RankInv => RankingRespectsScores
<1> SUFFICES ASSUME RankInv PROVE RankingRespectsScores
  OBVIOUS
<1>1. FusionRespectsAgreement /\ OneBestChunkPerDocument /\ BetterFirst
  BY AgreementRespected, DocumentsOnce, BetterIsFirst DEF RankInv
<1>2. AggregateWithinScores
  BY WithinScores DEF RankInv
<1>3. RerankTruthful
  BY RerankIsTrue DEF RankInv
<1> QED
  BY <1>1, <1>2, <1>3 DEF RankingRespectsScores

\* The record of the last ranking holds what the code computes from its lists.
THEOREM RankInductive == RankSpec => []RankInv
<1>1. RankInit => RankInv
  BY DEF RankInit, RankInv
<1> QED
  BY <1>1, RankStep, PTL DEF RankSpec

\* Whatever the lists, their lengths, the weights and the method, fusion overrules no
\* two lists that agree; a hybrid answer loses no document above the threshold, if there
\* is one, and with deduplicate names each once, by its best chunk; the answer of any
\* mode has the better scores first; the aggregate keeps every chunk and an average lies within its scores; and a reranked
\* text carries its own score, across the batches (fusion/, multi.rs, reranking/).
THEOREM RankingsRespectScores == RankSpec => []RankingRespectsScores
BY RankInductive, RankInvRespects, PTL

-----------------------------------------------------------------------------
(* RequestText: texts of any length, keys of any tenants and users.        *)

\* p lists the m numbers in S upwards.
Upwards(p, m, S) ==
    /\ m \in Nat /\ p \in [1 .. m -> S] /\ S \in SUBSET (Nat \ {0})
    /\ \A j, k \in 1 .. m : j < k => p[j] < p[k]
    /\ \A i \in S : \E k \in 1 .. m : p[k] = i
\* t is what s holds at the places p.
Picks(t, s, p) == \A k \in 1 .. Len(t) : t[k] = s[p[k]]

\* Retained keeps the elements at the places it is told to, in their order.
LEMMA RetainedPicks ==
    ASSUME NEW X, NEW s \in Seq(X), NEW kept \in SUBSET (1 .. Len(s))
    PROVE  \E p : /\ Retained(s, kept) \in Seq(X) /\ Upwards(p, Len(Retained(s, kept)), kept)
                  /\ Picks(Retained(s, kept), s, p)
<1> DEFINE m == Len(s)
           g == CHOOSE g : g = [n \in 0 .. m |-> RetainNext(s, kept, g, n)]
<1>1. m \in Nat /\ DOMAIN s = 1 .. m /\ \A n \in 1 .. m : s[n] \in X
  BY LenProperties
<1>2. g = [n \in 0 .. m |-> RetainNext(s, kept, g, n)]
  <2>1. \E h : h = [n \in 0 .. m |-> RetainNext(s, kept, h, n)]
    <3> HIDE DEF m
    <3> QED
      BY <1>1, RetainFunction, Zenon
  <2> QED
    BY <2>1, Zenon
<1>3. Retained(s, kept) = g[m]
  BY Zenon DEF Retained, RetainNext
<1> HIDE DEF g
<1>4. /\ g[0] = <<>>
      /\ \A n \in 1 .. m : g[n] = IF n \in kept THEN Append(g[n - 1], s[n]) ELSE g[n - 1]
  <2>1. 0 \in 0 .. m /\ \A n \in 1 .. m : n \in 0 .. m /\ n # 0
    BY <1>1
  <2> QED
    BY <1>2, <2>1, Zenon DEF RetainNext
<1> DEFINE upto(k) == {i \in kept : i <= k}
           Fine(k) == \E p : g[k] \in Seq(X) /\ Upwards(p, Len(g[k]), upto(k)) /\ Picks(g[k], s, p)
           Good == {k \in 0 .. m : Fine(k)}
<1>5. kept \in SUBSET (1 .. m)
  OBVIOUS
<1>5a. \A i \in kept : i \in Nat \ {0} /\ 0 < i /\ i <= m
  BY <1>1, <1>5
<1> HIDE DEF m
<1>6. 0 \in Good
  <2>1. <<>> \in Seq(X) /\ Len(<<>>) = 0 /\ 1 .. 0 = {}
    OBVIOUS
  <2>2. upto(0) = {}
    <3>1. \A i \in kept : ~(i <= 0)
      BY <1>5a
    <3> QED
      BY <3>1
  <2> DEFINE p == [i \in {} |-> 0]
  <2>3. Upwards(p, 0, {})
    BY <2>1 DEF Upwards
  <2>4. g[0] \in Seq(X) /\ Len(g[0]) = 0 /\ Picks(g[0], s, p)
    BY <1>4, <2>1 DEF Picks
  <2>5. Fine(0)
    BY <2>2, <2>3, <2>4
  <2>6. 0 \in 0 .. m
    BY <1>1
  <2> QED
    BY <2>5, <2>6
<1>7. ASSUME NEW k \in 0 .. m - 1, k \in Good PROVE k + 1 \in Good
  <2> DEFINE j == k + 1
             t == g[k]
             x == s[j]
             l == Len(t)
  <2>1. j \in 1 .. m /\ j - 1 = k /\ j \in 0 .. m /\ k \in Nat /\ j \in Nat
    BY <1>1
  <2>2. PICK p : t \in Seq(X) /\ Upwards(p, l, upto(k)) /\ Picks(t, s, p)
    BY <1>7
  <2>3. \A i \in kept : i <= j <=> i <= k \/ i = j
    BY <1>5a, <2>1
  <2>4. CASE j \notin kept
    <3>1. g[j] = t
      BY <1>4, <2>1, <2>4
    <3>2. upto(j) = upto(k)
      BY <2>3, <2>4
    <3>3. Fine(j)
      BY <2>2, <3>1, <3>2
    <3> QED
      BY <2>1, <3>3
  <2>5. CASE j \in kept
    <3>1. g[j] = Append(t, x)
      BY <1>4, <2>1, <2>5
    <3>2. x \in X
      BY <1>1, <2>1
    <3> DEFINE a == Append(t, x)
               q == [i \in 1 .. l + 1 |-> IF i = l + 1 THEN j ELSE p[i]]
    <3> HIDE DEF t
    <3>3. /\ a \in Seq(X) /\ Len(a) = l + 1 /\ l \in Nat /\ a[l + 1] = x
          /\ \A i \in 1 .. l : a[i] = t[i]
      BY <2>2, <3>2, AppendProperties, LenProperties
    <3>4. \A i : i \in 1 .. l + 1 <=> i \in 1 .. l \/ i = l + 1
      BY <3>3
    <3>5. l + 1 \notin 1 .. l
      BY <3>3
    <3>6. q[l + 1] = j /\ \A i \in 1 .. l : q[i] = p[i]
      BY <3>4, <3>5
    <3>7. upto(j) = upto(k) \cup {j}
      BY <2>1, <2>3, <2>5
    <3>8. \A i \in 1 .. l : p[i] \in upto(k) /\ p[i] < j
      BY <1>1, <1>5, <2>1, <2>2 DEF Upwards
    <3>9. q \in [1 .. l + 1 -> upto(j)]
      BY <3>7, <3>8, <3>4
    <3>10. \A i \in 1 .. l + 1, h \in 1 .. l + 1 : i < h => q[i] < q[h]
      <4> SUFFICES ASSUME NEW i \in 1 .. l + 1, NEW h \in 1 .. l + 1, i < h PROVE q[i] < q[h]
        OBVIOUS
      <4>1. i \in 1 .. l
        BY <3>3
      <4>2. CASE h = l + 1
        BY <3>6, <3>8, <4>1, <4>2
      <4>3. CASE h \in 1 .. l
        <5>1. p[i] < p[h]
          BY <2>2, <4>1, <4>3 DEF Upwards
        <5> QED
          BY <3>6, <4>1, <4>3, <5>1
      <4> QED
        BY <3>4, <4>2, <4>3
    <3>11. \A i \in upto(j) : \E h \in 1 .. l + 1 : q[h] = i
      <4> SUFFICES ASSUME NEW i \in upto(j) PROVE \E h \in 1 .. l + 1 : q[h] = i
        OBVIOUS
      <4>1. CASE i = j
        BY <3>4, <3>6, <4>1
      <4>2. CASE i \in upto(k)
        <5>1. PICK h \in 1 .. l : p[h] = i
          BY <2>2, <4>2 DEF Upwards
        <5> QED
          BY <3>4, <3>6, <5>1
      <4> QED
        BY <3>7, <4>1, <4>2
    <3>12. Upwards(q, l + 1, upto(j))
      <4>1. l + 1 \in Nat /\ upto(j) \in SUBSET (Nat \ {0})
        <5>1. \A i \in upto(j) : i \in Nat \ {0}
          BY <1>5a
        <5>2. l + 1 \in Nat
          BY <3>3
        <5>3. upto(j) \in SUBSET (Nat \ {0})
          <6> HIDE DEF upto
          <6> QED
            BY <5>1
        <5> QED
          BY <5>2, <5>3
      <4> QED
        BY <3>9, <3>10, <3>11, <4>1 DEF Upwards
    <3>13. Picks(a, s, q)
      <4> SUFFICES ASSUME NEW i \in 1 .. l + 1 PROVE a[i] = s[q[i]]
        BY <3>3 DEF Picks
      <4>1. CASE i = l + 1
        BY <3>3, <3>6, <4>1
      <4>2. CASE i \in 1 .. l
        BY <2>2, <3>3, <3>6, <4>2 DEF Picks
      <4> QED
        BY <3>4, <4>1, <4>2
    <3> HIDE DEF q, j
    <3>14. Fine(j)
      BY <3>1, <3>3, <3>12, <3>13
    <3> QED
      BY <2>1, <3>14 DEF j
  <2> QED
    BY <2>4, <2>5
<1> HIDE DEF Good
<1>8. \A k \in 0 .. m : k \in Good
  BY <1>1, <1>6, <1>7, UpTo
<1>9. Fine(m)
  <2>1. m \in 0 .. m
    BY <1>1
  <2>2. m \in Good
    BY <1>8, <2>1
  <2> QED
    BY <2>2 DEF Good
<1>10. upto(m) = kept
  BY <1>5a
<1> QED
  BY <1>3, <1>9, <1>10

\* There is one such list.
LEMMA UpwardsOnce ==
    ASSUME NEW S, NEW m, NEW n, NEW p, NEW q, Upwards(p, m, S), Upwards(q, n, S)
    PROVE  m = n /\ p = q
<1>1. /\ m \in Nat /\ n \in Nat /\ p \in [1 .. m -> S] /\ q \in [1 .. n -> S]
      /\ S \in SUBSET Nat
      /\ \A j \in 1 .. m, k \in 1 .. m : j < k => p[j] < p[k]
      /\ \A j \in 1 .. n, k \in 1 .. n : j < k => q[j] < q[k]
      /\ \A i \in S : \E k \in 1 .. m : p[k] = i
      /\ \A i \in S : \E k \in 1 .. n : q[k] = i
  BY DEF Upwards
<1> DEFINE Apart == {k \in Nat \ {0} : ~(k \in 1 .. m <=> k \in 1 .. n)
                                       \/ (k \in 1 .. m /\ k \in 1 .. n /\ p[k] # q[k])}
<1>2. Apart = {}
  <2> SUFFICES ASSUME Apart # {} PROVE FALSE
    OBVIOUS
  <2>1. Apart \in SUBSET Nat
    OBVIOUS
  <2> HIDE DEF Apart
  <2>2. PICK k \in Apart : \A i \in Apart : k <= i
    BY <2>1, LeastNumber
  <2>3. /\ k \in Nat \ {0}
        /\ ~(k \in 1 .. m <=> k \in 1 .. n) \/ (k \in 1 .. m /\ k \in 1 .. n /\ p[k] # q[k])
        /\ \A i \in 1 .. k - 1 : (i \in 1 .. m <=> i \in 1 .. n)
                                 /\ (i \in 1 .. m => p[i] = q[i])
    BY <2>2 DEF Apart
  <2>4. ASSUME k \in 1 .. m PROVE k \in 1 .. n /\ q[k] <= p[k]
    <3>1. PICK h \in 1 .. n : q[h] = p[k]
      BY <1>1, <2>4
    <3>2. h >= k
      <4> SUFFICES ASSUME h < k PROVE FALSE
        BY <2>3, <3>1
      <4>1. h \in 1 .. k - 1 /\ h \in 1 .. m
        BY <1>1, <2>3, <2>4
      <4>2. p[h] = p[k] /\ p[h] < p[k] /\ p[k] \in Nat
        BY <1>1, <2>3, <2>4, <3>1, <4>1
      <4> QED
        BY <4>2
    <3>3. k \in 1 .. n
      BY <1>1, <2>3, <3>2
    <3>4. q[k] \in Nat /\ q[h] \in Nat
      BY <1>1, <3>3
    <3>5. CASE h = k
      BY <3>1, <3>3, <3>4, <3>5
    <3>6. CASE h # k
      <4>1. k < h
        BY <1>1, <2>3, <3>2, <3>6
      <4>2. q[k] < q[h]
        BY <1>1, <3>3, <4>1
      <4> QED
        BY <3>1, <3>3, <3>4, <4>2
    <3> QED
      BY <3>5, <3>6
  <2>5. ASSUME k \in 1 .. n PROVE k \in 1 .. m /\ p[k] <= q[k]
    <3>1. PICK h \in 1 .. m : p[h] = q[k]
      BY <1>1, <2>5
    <3>2. h >= k
      <4> SUFFICES ASSUME h < k PROVE FALSE
        BY <2>3, <3>1
      <4>1. h \in 1 .. k - 1 /\ h \in 1 .. n
        BY <1>1, <2>3, <2>5
      <4>2. q[h] = q[k] /\ q[h] < q[k] /\ q[k] \in Nat
        BY <1>1, <2>3, <2>5, <3>1, <4>1
      <4> QED
        BY <4>2
    <3>3. k \in 1 .. m
      BY <1>1, <2>3, <3>2
    <3>4. p[k] \in Nat /\ p[h] \in Nat
      BY <1>1, <3>3
    <3>5. CASE h = k
      BY <3>1, <3>3, <3>4, <3>5
    <3>6. CASE h # k
      <4>1. k < h
        BY <1>1, <2>3, <3>2, <3>6
      <4>2. p[k] < p[h]
        BY <1>1, <3>3, <4>1
      <4> QED
        BY <3>1, <3>3, <3>4, <4>2
    <3> QED
      BY <3>5, <3>6
  <2>6. k \in 1 .. m => p[k] \in Nat
    BY <1>1
  <2>7. k \in 1 .. n => q[k] \in Nat
    BY <1>1
  <2> QED
    BY <2>3, <2>4, <2>5, <2>6, <2>7
<1>3. m = n
  <2>1. m # 0 => m \in 1 .. n
    BY <1>1, <1>2
  <2>2. n # 0 => n \in 1 .. m
    BY <1>1, <1>2
  <2> QED
    BY <1>1, <2>1, <2>2
<1>4. \A k \in 1 .. m : p[k] = q[k]
  BY <1>1, <1>2, <1>3
<1> QED
  BY <1>1, <1>3, <1>4

\* A text that neither begins nor ends with a blank; one without two blanks in a row.
Tidy(x) == x \in Seq(Units) /\ (x # <<>> => x[1] # "blank" /\ x[Len(x)] # "blank")
Single(x) == \A i \in 1 .. Len(x) : i + 1 \in 1 .. Len(x) => ~(x[i] = "blank" /\ x[i + 1] = "blank")
\* The places that collapse_whitespace keeps.
Worth(x) == {i \in DOMAIN x : x[i] # "blank" \/ (i > 1 /\ x[i - 1] # "blank")}

\* Trimming leaves no blank at an end.
LEMMA TrimTidies ==
    ASSUME NEW x \in Seq(Units)
    PROVE  Tidy(Trimmed(x))
<1>1. Len(x) \in Nat /\ DOMAIN x = 1 .. Len(x) /\ \A i \in 1 .. Len(x) : x[i] \in Units
  BY LenProperties
<1>2. CASE Letters(x) = {}
  <2>1. Trimmed(x) = <<>> /\ <<>> \in Seq(Units)
    BY <1>2 DEF Trimmed
  <2> QED
    BY <2>1 DEF Tidy
<1>3. CASE Letters(x) # {}
  <2>1. Letters(x) \in SUBSET Nat /\ Letters(x) \in SUBSET (1 .. Len(x))
    BY <1>1 DEF Letters
  <2>2. \E a \in Letters(x) : \A j \in Letters(x) : a <= j
    BY <1>3, <2>1, LeastNumber
  <2>3. \E b \in Letters(x) : \A j \in Letters(x) : b >= j
    <3> DEFINE R == {Len(x) - i : i \in Letters(x)}
    <3>1. R \in SUBSET Nat /\ R # {}
      BY <1>1, <1>3, <2>1
    <3>2. \A i \in Letters(x) : i \in Nat /\ Len(x) - i \in R
      BY <2>1
    <3>3. \A r \in R : \E i \in Letters(x) : r = Len(x) - i
      OBVIOUS
    <3> HIDE DEF R
    <3>4. PICK v \in R : \A w \in R : v <= w
      BY <3>1, LeastNumber
    <3>5. PICK b \in Letters(x) : v = Len(x) - b
      BY <3>3
    <3>6. ASSUME NEW j \in Letters(x) PROVE b >= j
      <4>1. v <= Len(x) - j /\ j \in Nat /\ b \in Nat
        BY <3>2, <3>4
      <4> QED
        BY <1>1, <3>5, <4>1
    <3> QED
      BY <3>6
  <2> DEFINE a == CHOOSE i \in Letters(x) : \A j \in Letters(x) : i <= j
             b == CHOOSE i \in Letters(x) : \A j \in Letters(x) : i >= j
  <2>4. a \in Letters(x) /\ \A j \in Letters(x) : a <= j
    BY <2>2
  <2>5. b \in Letters(x) /\ \A j \in Letters(x) : b >= j
    BY <2>3
  <2>6. Trimmed(x) = SubSeq(x, a, b)
    BY <1>3 DEF Trimmed
  <2> HIDE DEF a, b
  <2>7. a \in 1 .. Len(x) /\ b \in 1 .. Len(x) /\ a <= b /\ x[a] # "blank" /\ x[b] # "blank"
    BY <2>1, <2>4, <2>5 DEF Letters
  <2> DEFINE t == SubSeq(x, a, b)
  <2>8. t \in Seq(Units) /\ Len(t) = b - a + 1 /\ \A i \in 1 .. b - a + 1 : t[i] = x[a + i - 1]
    BY <1>1, <2>7, SubSeqProperties
  <2> HIDE DEF t
  <2>9. b - a + 1 \in Nat /\ 1 \in 1 .. b - a + 1 /\ b - a + 1 \in 1 .. b - a + 1
        /\ a + 1 - 1 = a /\ a + (b - a + 1) - 1 = b
    BY <1>1, <2>7
  <2>10. t[1] # "blank" /\ t[Len(t)] # "blank"
    BY <2>7, <2>8, <2>9
  <2> QED
    BY <2>6, <2>8, <2>10 DEF Tidy, t
<1> QED
  BY <1>2, <1>3

\* And finds none to take from a tidy text.
LEMMA TidySame ==
    ASSUME NEW x, Tidy(x)
    PROVE  Trimmed(x) = x
<1>0. x \in Seq(Units) /\ (x # <<>> => x[1] # "blank" /\ x[Len(x)] # "blank")
  BY DEF Tidy
<1>1. Len(x) \in Nat /\ DOMAIN x = 1 .. Len(x) /\ (x = <<>> <=> Len(x) = 0)
  BY <1>0, LenProperties, EmptySeq
<1>2. CASE x = <<>>
  <2>1. Letters(x) = {}
    BY <1>1, <1>2 DEF Letters
  <2> QED
    BY <1>2, <2>1 DEF Trimmed
<1>3. CASE x # <<>>
  <2>1. 1 \in Letters(x) /\ Len(x) \in Letters(x) /\ \A i \in Letters(x) : i \in Nat /\ 1 <= i /\ i <= Len(x)
    BY <1>0, <1>1, <1>3 DEF Letters
  <2>2. (CHOOSE i \in Letters(x) : \A j \in Letters(x) : i <= j) = 1
    <3> DEFINE a == CHOOSE i \in Letters(x) : \A j \in Letters(x) : i <= j
    <3>1. a \in Letters(x) /\ \A j \in Letters(x) : a <= j
      BY <2>1
    <3> HIDE DEF a
    <3>2. a = 1
      BY <2>1, <3>1
    <3> QED
      BY <3>2 DEF a
  <2>3. (CHOOSE i \in Letters(x) : \A j \in Letters(x) : i >= j) = Len(x)
    <3> DEFINE a == CHOOSE i \in Letters(x) : \A j \in Letters(x) : i >= j
    <3>1. a \in Letters(x) /\ \A j \in Letters(x) : a >= j
      BY <2>1
    <3> HIDE DEF a
    <3>2. a = Len(x)
      BY <1>1, <2>1, <3>1
    <3> QED
      BY <3>2 DEF a
  <2>4. Trimmed(x) = SubSeq(x, 1, Len(x))
    BY <2>1, <2>2, <2>3 DEF Trimmed
  <2>5. SubSeq(x, 1, Len(x)) = x
    BY <1>0, SubSeqFull
  <2> QED
    BY <2>4, <2>5
<1> QED
  BY <1>2, <1>3

\* Collapsing keeps what is worth it, then trims.
LEMMA CollapsedIs ==
    ASSUME NEW x
    PROVE  Collapsed(x) = Trimmed(Retained(x, Worth(x)))
BY Zenon DEF Collapsed, Retained, Worth

\* Behind a place that is not blank, the first blank is worth keeping.
LEMMA BlankBetween ==
    ASSUME NEW x \in Seq(Units), NEW a \in 1 .. Len(x), NEW b \in 1 .. Len(x), a <= b,
           x[a] # "blank", x[b] = "blank"
    PROVE  \E j \in Worth(x) : a < j /\ j <= b /\ x[j] = "blank"
<1>1. Len(x) \in Nat /\ DOMAIN x = 1 .. Len(x)
  BY LenProperties
<1> DEFINE B == {i \in Nat : a < i /\ i <= b /\ x[i] = "blank"}
<1>2. b \in B /\ B \in SUBSET Nat
  BY <1>1
<1> HIDE DEF B
<1>3. PICK j \in B : \A i \in B : j <= i
  BY <1>2, LeastNumber
<1>4. j \in Nat /\ a < j /\ j <= b /\ x[j] = "blank"
  BY <1>3 DEF B
<1>5. j - 1 \in Nat /\ a <= j - 1 /\ j - 1 <= b /\ j > 1 /\ ~(j <= j - 1) /\ j \in 1 .. Len(x)
  BY <1>1, <1>4
<1>6. j - 1 \notin B
  BY <1>3, <1>5
<1>7. x[j - 1] # "blank"
  <2>1. CASE j - 1 = a
    BY <2>1
  <2>2. CASE j - 1 # a
    BY <1>5, <1>6, <2>2 DEF B
  <2> QED
    BY <2>1, <2>2
<1>8. j \in Worth(x)
  BY <1>1, <1>4, <1>5, <1>7 DEF Worth
<1> QED
  BY <1>4, <1>8

\* Of a tidy text, collapsing keeps both ends.
LEMMA WorthIs ==
    ASSUME NEW x \in Seq(Units)
    PROVE  /\ Worth(x) \in SUBSET (1 .. Len(x))
           /\ \A i \in 1 .. Len(x) : x[i] # "blank" => i \in Worth(x)
           /\ \A i \in 1 .. Len(x) : i + 1 \in 1 .. Len(x) /\ x[i] # "blank" => i + 1 \in Worth(x)
           /\ \A i \in Worth(x) : x[i] = "blank" =>
                  i - 1 \in 1 .. Len(x) /\ x[i - 1] # "blank" /\ i - 1 \in Worth(x)
<1>1. Len(x) \in Nat /\ DOMAIN x = 1 .. Len(x)
  BY LenProperties
<1>2. Worth(x) \in SUBSET (1 .. Len(x))
  BY <1>1 DEF Worth
<1>3. \A i \in 1 .. Len(x) : x[i] # "blank" => i \in Worth(x)
  BY <1>1 DEF Worth
<1>4. ASSUME NEW i \in 1 .. Len(x), i + 1 \in 1 .. Len(x), x[i] # "blank" PROVE i + 1 \in Worth(x)
  <2>1. i + 1 > 1 /\ (i + 1) - 1 = i
    BY <1>1
  <2> QED
    BY <1>1, <1>4, <2>1 DEF Worth
<1>5. ASSUME NEW i \in Worth(x), x[i] = "blank"
      PROVE  i - 1 \in 1 .. Len(x) /\ x[i - 1] # "blank" /\ i - 1 \in Worth(x)
  <2>1. i \in 1 .. Len(x) /\ i > 1 /\ x[i - 1] # "blank"
    BY <1>1, <1>5 DEF Worth
  <2>2. i - 1 \in 1 .. Len(x)
    BY <1>1, <2>1
  <2> QED
    BY <1>3, <2>1, <2>2
<1> QED
  BY <1>2, <1>3, <1>4, <1>5

\* What is kept of a tidy text is tidy, and has no two blanks in a row.
LEMMA PickedTidies ==
    ASSUME NEW x, Tidy(x), NEW c \in Seq(Units), NEW p, Upwards(p, Len(c), Worth(x)),
           Picks(c, x, p)
    PROVE  /\ Tidy(c) /\ Single(c)
           /\ x # <<>> => /\ c # <<>> /\ p[1] = 1 /\ p[Len(c)] = Len(x)
<1> DEFINE m == Len(c)
           n == Len(x)
<1>1. x \in Seq(Units) /\ (x # <<>> => x[1] # "blank" /\ x[n] # "blank")
  BY DEF Tidy
<1>2. n \in Nat /\ m \in Nat /\ DOMAIN x = 1 .. n /\ (x = <<>> <=> n = 0) /\ (c = <<>> <=> m = 0)
  BY <1>1, LenProperties, EmptySeq
<1>3. /\ p \in [1 .. m -> Worth(x)] /\ \A j \in 1 .. m, k \in 1 .. m : j < k => p[j] < p[k]
      /\ \A i \in Worth(x) : \E k \in 1 .. m : p[k] = i
      /\ \A k \in 1 .. m : c[k] = x[p[k]]
  BY DEF Upwards, Picks
<1> HIDE DEF m, n
<1>4. /\ Worth(x) \in SUBSET (1 .. n)
      /\ \A i \in 1 .. n : x[i] # "blank" => i \in Worth(x)
      /\ \A i \in Worth(x) : x[i] = "blank" =>
             i - 1 \in 1 .. n /\ x[i - 1] # "blank" /\ i - 1 \in Worth(x)
  BY <1>1, WorthIs DEF n
<1>5. \A k \in 1 .. m : p[k] \in 1 .. n /\ p[k] \in Nat
  BY <1>3, <1>4
<1>6. ASSUME x # <<>> PROVE m # 0 /\ p[1] = 1 /\ p[m] = n
  <2>1. 1 \in 1 .. n /\ n \in 1 .. n /\ 1 \in Worth(x) /\ n \in Worth(x)
    BY <1>1, <1>2, <1>4, <1>6
  <2>2. PICK k \in 1 .. m : p[k] = 1
    BY <1>3, <2>1
  <2>3. PICK l \in 1 .. m : p[l] = n
    BY <1>3, <2>1
  <2>4. 1 \in 1 .. m /\ m \in 1 .. m
    BY <1>2, <2>2
  <2>5. k = 1
    <3>1. 1 < k => p[1] < p[k]
      BY <1>3, <2>4
    <3> QED
      BY <1>2, <1>5, <2>2, <2>4, <3>1
  <2>6. l = m
    <3>1. l < m => p[l] < p[m]
      BY <1>3, <2>4
    <3> QED
      BY <1>2, <1>5, <2>3, <2>4, <3>1
  <2> QED
    BY <1>2, <2>2, <2>3, <2>4, <2>5, <2>6
<1>7. Tidy(c)
  <2>1. CASE x = <<>>
    <3>1. Worth(x) = {}
      BY <1>2, <1>4, <2>1
    <3>2. m = 0
      BY <1>2, <1>3, <3>1
    <3> QED
      BY <1>2, <3>2 DEF Tidy
  <2>2. CASE x # <<>>
    <3>1. 1 \in 1 .. m /\ m \in 1 .. m
      BY <1>2, <1>6, <2>2
    <3>2. c[1] = x[1] /\ c[m] = x[n]
      BY <1>3, <1>6, <2>2, <3>1
    <3> QED
      BY <1>1, <2>2, <3>2 DEF Tidy, m
  <2> QED
    BY <2>1, <2>2
<1>8. ASSUME NEW k \in 1 .. m, k + 1 \in 1 .. m, c[k] = "blank", c[k + 1] = "blank" PROVE FALSE
  <2> DEFINE i == p[k + 1]
  <2>1. i \in Worth(x) /\ x[i] = "blank" /\ p[k] < i /\ x[p[k]] = "blank"
    <3>1. k < k + 1
      BY <1>2
    <3> QED
      BY <1>3, <1>8, <3>1
  <2>2. i - 1 \in 1 .. n /\ x[i - 1] # "blank" /\ i - 1 \in Worth(x)
    BY <1>4, <2>1
  <2>3. PICK j \in 1 .. m : p[j] = i - 1
    BY <1>3, <2>2
  <2>4. i \in Nat /\ p[k] \in Nat /\ p[j] \in Nat
    BY <1>5, <1>8
  <2>5. p[j] # p[k] /\ p[k] < p[j] /\ p[j] < p[k + 1]
    BY <2>1, <2>2, <2>3, <2>4
  <2>6. j # k /\ ~(j < k) /\ j # k + 1 /\ ~(k + 1 < j)
    <3>1. j < k => p[j] < p[k]
      BY <1>3
    <3>2. k + 1 < j => p[k + 1] < p[j]
      BY <1>3, <1>8
    <3> QED
      BY <2>4, <2>5, <3>1, <3>2
  <2> QED
    BY <1>2, <2>6
<1>9. Single(c)
  BY <1>8 DEF Single, m
<1> QED
  BY <1>2, <1>6, <1>7, <1>9 DEF m, n

\* The collapsed text of a tidy one is what it holds at the places kept.
LEMMA CollapsePicks ==
    ASSUME NEW x, Tidy(x)
    PROVE  /\ Tidy(Collapsed(x)) /\ Single(Collapsed(x))
           /\ \E p : Upwards(p, Len(Collapsed(x)), Worth(x)) /\ Picks(Collapsed(x), x, p)
<1>1. x \in Seq(Units)
  BY DEF Tidy
<1> DEFINE c == Retained(x, Worth(x))
<1>2. Worth(x) \in SUBSET (1 .. Len(x))
  BY <1>1, WorthIs
<1>3. PICK p : c \in Seq(Units) /\ Upwards(p, Len(c), Worth(x)) /\ Picks(c, x, p)
  BY <1>1, <1>2, RetainedPicks
<1>4. Collapsed(x) = Trimmed(c)
  BY CollapsedIs
<1> HIDE DEF c
<1>5. Tidy(c) /\ Single(c)
  BY <1>3, PickedTidies
<1>6. Collapsed(x) = c
  BY <1>4, <1>5, TidySame
<1> QED
  BY <1>3, <1>5, <1>6

\* Collapsing a text that has no two blanks in a row changes nothing.
LEMMA CollapsedOnce ==
    ASSUME NEW x, Tidy(x), Single(x)
    PROVE  Collapsed(x) = x
<1> DEFINE n == Len(x)
           c == Collapsed(x)
           id == [i \in 1 .. n |-> i]
<1>1. x \in Seq(Units) /\ (x # <<>> => x[1] # "blank")
  BY DEF Tidy
<1>2. n \in Nat /\ DOMAIN x = 1 .. n /\ (x = <<>> <=> n = 0)
  BY <1>1, LenProperties, EmptySeq
<1>3. Worth(x) = 1 .. n
  <2>1. /\ Worth(x) \in SUBSET (1 .. n)
        /\ \A i \in 1 .. n : x[i] # "blank" => i \in Worth(x)
        /\ \A i \in 1 .. n : i + 1 \in 1 .. n /\ x[i] # "blank" => i + 1 \in Worth(x)
    BY <1>1, WorthIs
  <2>2. ASSUME NEW i \in 1 .. n, x[i] = "blank" PROVE i \in Worth(x)
    <3>1. i # 1
      BY <1>1, <1>2, <2>2
    <3>2. i - 1 \in 1 .. n /\ (i - 1) + 1 = i
      BY <1>2, <3>1
    <3>3. x[i - 1] # "blank"
      BY <2>2, <3>2 DEF Single
    <3> QED
      BY <2>1, <3>2, <3>3
  <2> QED
    BY <2>1, <2>2
<1>4. PICK p : Tidy(c) /\ Upwards(p, Len(c), 1 .. n) /\ Picks(c, x, p)
  BY <1>3, CollapsePicks
<1> HIDE DEF n, c
<1>5. Upwards(id, n, 1 .. n)
  BY <1>2 DEF Upwards
<1> HIDE DEF id
<1>6. Len(c) = n /\ p = id
  BY <1>4, <1>5, UpwardsOnce
<1>7. \A i \in 1 .. n : c[i] = x[i]
  BY <1>4, <1>6 DEF Picks, id
<1>8. c \in Seq(Units)
  BY <1>4 DEF Tidy
<1> QED
  BY <1>1, <1>6, <1>7, <1>8, SeqEqual DEF n, c

\* Two texts with their blanks at the same places.
Alike(x, y) ==
    /\ x \in Seq(Units) /\ y \in Seq(Units) /\ Len(x) = Len(y)
    /\ \A i \in 1 .. Len(x) : x[i] = "blank" <=> y[i] = "blank"

\* Such texts are tidy, or single, together, and the same places of them are kept.
LEMMA AlikeIs ==
    ASSUME NEW x, NEW y, Alike(x, y)
    PROVE  /\ Worth(x) = Worth(y) /\ (Tidy(x) => Tidy(y)) /\ (Single(x) => Single(y))
<1>1. x \in Seq(Units) /\ y \in Seq(Units) /\ Len(x) = Len(y)
      /\ \A i \in 1 .. Len(x) : x[i] = "blank" <=> y[i] = "blank"
  BY DEF Alike
<1> DEFINE n == Len(x)
<1>2. n \in Nat /\ DOMAIN x = 1 .. n /\ DOMAIN y = 1 .. n
      /\ (x = <<>> <=> n = 0) /\ (y = <<>> <=> n = 0)
  BY <1>1, LenProperties, EmptySeq
<1>3. Worth(x) = Worth(y)
  <2>1. \A i \in 1 .. n : i > 1 => i - 1 \in 1 .. n
    BY <1>2
  <2> QED
    BY <1>1, <1>2, <2>1, Zenon DEF Worth
<1>4. Tidy(x) => Tidy(y)
  <2> SUFFICES ASSUME Tidy(x), y # <<>> PROVE y[1] # "blank" /\ y[n] # "blank"
    BY <1>1 DEF Tidy
  <2>1. x[1] # "blank" /\ x[n] # "blank"
    BY <1>2 DEF Tidy
  <2>2. 1 \in 1 .. n /\ n \in 1 .. n
    BY <1>2
  <2> QED
    BY <1>1, <2>1, <2>2
<1>5. Single(x) => Single(y)
  BY <1>1 DEF Single
<1> QED
  BY <1>3, <1>4, <1>5

\* Their collapsed forms hold what they hold at the same places.
LEMMA CollapsedAlike ==
    ASSUME NEW x, NEW y, Tidy(x), Alike(x, y)
    PROVE  \E p : /\ Upwards(p, Len(Collapsed(x)), Worth(x))
                  /\ Len(Collapsed(y)) = Len(Collapsed(x))
                  /\ Picks(Collapsed(x), x, p) /\ Picks(Collapsed(y), y, p)
<1>1. Tidy(y) /\ Worth(x) = Worth(y)
  BY AlikeIs
<1>2. PICK p : Upwards(p, Len(Collapsed(x)), Worth(x)) /\ Picks(Collapsed(x), x, p)
  BY CollapsePicks
<1>3. PICK q : Upwards(q, Len(Collapsed(y)), Worth(x)) /\ Picks(Collapsed(y), y, q)
  BY <1>1, CollapsePicks
<1>4. Len(Collapsed(x)) = Len(Collapsed(y)) /\ p = q
  BY <1>2, <1>3, UpwardsOnce
<1> QED
  BY <1>2, <1>3, <1>4

\* What NFC and lower case make of a unit.
Composing(u) == IF u = "decomposed" THEN "composed" ELSE u
Lowering(u) == IF u = "X" THEN "x" ELSE IF u = "WHAT" THEN "what" ELSE u

\* The letters that are composed or made small are no blanks, and take no more bytes.
LEMMA UnitsAre ==
    ASSUME NEW u \in Units
    PROVE  /\ Composing(u) \in Units /\ Lowering(u) \in Units
           /\ (Composing(u) = "blank" <=> u = "blank") /\ (Lowering(u) = "blank" <=> u = "blank")
           /\ Lowering(Composing(Lowering(u))) = Lowering(Composing(u))
           /\ Composing(Lowering(Composing(u))) = Lowering(Composing(u))
           /\ Lowering(Lowering(u)) = Lowering(u)
           /\ (Lowering(Composing(u)) = "apostrophe" <=> Lowering(u) = "apostrophe")
           /\ (Lowering(Composing(u)) = "mark" <=> Lowering(u) = "mark")
           /\ (Lowering(Composing(u)) = "what" <=> Lowering(u) = "what")
           /\ Bytes(u) \in 1 .. 4 /\ Bytes(Lowering(Composing(u))) \in 1 .. 4
           /\ Bytes(Lowering(Composing(u))) <= Bytes(u)
           /\ (Bytes(u) >= 2 => Bytes(Lowering(Composing(u))) >= 2)
BY DEF Units, Composing, Lowering, Bytes

\* Composing changes units one by one, and no blank.
LEMMA ComposedIs ==
    ASSUME NEW x \in Seq(Units)
    PROVE  /\ Alike(x, Composed(x)) /\ \A i \in 1 .. Len(x) : Composed(x)[i] = Composing(x[i])
<1> DEFINE n == Len(x)
<1>1. n \in Nat /\ DOMAIN x = 1 .. n /\ \A i \in 1 .. n : x[i] \in Units
  BY LenProperties
<1>2. Composed(x) = [i \in 1 .. n |-> Composing(x[i])]
  BY <1>1 DEF Composed, Each, Composing
<1> HIDE DEF n
<1>3. \A i \in 1 .. n : Composing(x[i]) \in Units
                        /\ (Composing(x[i]) = "blank" <=> x[i] = "blank")
  BY <1>1, UnitsAre
<1>4. Composed(x) \in [1 .. n -> Units]
  BY <1>2, <1>3
<1>5. Composed(x) \in Seq(Units) /\ Len(Composed(x)) = n
  BY <1>1, <1>2, <1>4
<1>6. \A i \in 1 .. n : Composed(x)[i] = Composing(x[i])
  BY <1>2
<1> QED
  BY <1>3, <1>5, <1>6 DEF Alike, n

\* So does lower case.
LEMMA LowerCaseIs ==
    ASSUME NEW x \in Seq(Units)
    PROVE  /\ Alike(x, LowerCase(x)) /\ \A i \in 1 .. Len(x) : LowerCase(x)[i] = Lowering(x[i])
<1> DEFINE n == Len(x)
<1>1. n \in Nat /\ DOMAIN x = 1 .. n /\ \A i \in 1 .. n : x[i] \in Units
  BY LenProperties
<1>2. LowerCase(x) = [i \in 1 .. n |-> Lowering(x[i])]
  BY <1>1 DEF LowerCase, Each, Lowering
<1> HIDE DEF n
<1>3. \A i \in 1 .. n : Lowering(x[i]) \in Units
                        /\ (Lowering(x[i]) = "blank" <=> x[i] = "blank")
  BY <1>1, UnitsAre
<1>4. LowerCase(x) \in [1 .. n -> Units]
  BY <1>2, <1>3
<1>5. LowerCase(x) \in Seq(Units) /\ Len(LowerCase(x)) = n
  BY <1>1, <1>2, <1>4
<1>6. \A i \in 1 .. n : LowerCase(x)[i] = Lowering(x[i])
  BY <1>2
<1> QED
  BY <1>3, <1>5, <1>6 DEF Alike, n

\* Blanks are collapsed before or after the letters are composed.
LEMMA CollapsedComposed ==
    ASSUME NEW x, Tidy(x)
    PROVE  Collapsed(Composed(x)) = Composed(Collapsed(x))
<1> DEFINE y == Composed(x)
           c == Collapsed(x)
           d == Collapsed(y)
           e == Composed(c)
<1>1. x \in Seq(Units)
  BY DEF Tidy
<1>2. Alike(x, y) /\ \A i \in 1 .. Len(x) : y[i] = Composing(x[i])
  BY <1>1, ComposedIs
<1> HIDE DEF y
<1>3. Tidy(y) /\ Tidy(c)
  BY <1>2, AlikeIs, CollapsePicks
<1>4. c \in Seq(Units) /\ Tidy(d) /\ d \in Seq(Units)
  BY <1>3, CollapsePicks DEF Tidy
<1>5. PICK p : Upwards(p, Len(c), Worth(x)) /\ Len(d) = Len(c) /\ Picks(c, x, p) /\ Picks(d, y, p)
  BY <1>2, CollapsedAlike
<1> HIDE DEF c, d
<1>6. e \in Seq(Units) /\ Len(e) = Len(c) /\ \A i \in 1 .. Len(c) : e[i] = Composing(c[i])
  BY <1>4, ComposedIs DEF Alike
<1> HIDE DEF e
<1>7. \A i \in 1 .. Len(c) : p[i] \in 1 .. Len(x)
  BY <1>1, <1>5, WorthIs DEF Upwards
<1>8. \A i \in 1 .. Len(d) : d[i] = e[i]
  BY <1>2, <1>5, <1>6, <1>7 DEF Picks
<1>9. d = e
  BY <1>4, <1>5, <1>6, <1>8, SeqEqual
<1> QED
  BY <1>9 DEF c, d, e, y

\* A preprocessed text is the collapsed one with its letters composed and small.
LEMMA PreprocessedIs ==
    ASSUME NEW query \in Seq(Units), NEW x, x = Trimmed(query)
    PROVE  Preprocessed(ByDefault, query) = LowerCase(Composed(Collapsed(x)))
<1>1. Tidy(x)
  BY TrimTidies
<1>2. Preprocessed(ByDefault, query) = LowerCase(Collapsed(Composed(x)))
  BY DEF Preprocessed, ByDefault
<1> QED
  BY <1>1, <1>2, CollapsedComposed

\* Composed and small letters, of which there is nothing more to make.
LEMMA LetterwiseIs ==
    ASSUME NEW c, Tidy(c), Single(c)
    PROVE  LET z == LowerCase(Composed(c))
           IN  /\ Alike(c, z) /\ Tidy(z) /\ Single(z)
               /\ \A i \in 1 .. Len(c) : z[i] = Lowering(Composing(c[i]))
<1>1. c \in Seq(Units)
  BY DEF Tidy
<1> DEFINE y == Composed(c)
           z == LowerCase(y)
<1>2. Alike(c, y) /\ y \in Seq(Units) /\ Len(y) = Len(c)
      /\ \A i \in 1 .. Len(c) : y[i] = Composing(c[i])
  BY <1>1, ComposedIs DEF Alike
<1> HIDE DEF y
<1>3. Alike(y, z) /\ \A i \in 1 .. Len(c) : z[i] = Lowering(y[i])
  BY <1>2, LowerCaseIs
<1> HIDE DEF z
<1>4. Alike(c, z)
  BY <1>2, <1>3 DEF Alike
<1>5. Tidy(z) /\ Single(z)
  BY <1>4, AlikeIs
<1> QED
  BY <1>2, <1>3, <1>4, <1>5 DEF y, z

\* Preprocessing again changes nothing.
LEMMA PreprocessedSame ==
    ASSUME NEW query \in Seq(Units)
    PROVE  LET once == Preprocessed(ByDefault, query)
           IN  Tidy(once) /\ Preprocessed(ByDefault, once) = once
<1> DEFINE x == Trimmed(query)
           c == Collapsed(x)
           z == LowerCase(Composed(c))
<1>1. Preprocessed(ByDefault, query) = z
  BY PreprocessedIs
<1>2. Tidy(c) /\ Single(c)
  BY TrimTidies, CollapsePicks
<1> HIDE DEF x, c
<1>3. /\ Alike(c, z) /\ Tidy(z) /\ Single(z)
      /\ \A i \in 1 .. Len(c) : z[i] = Lowering(Composing(c[i]))
  BY <1>2, LetterwiseIs
<1> HIDE DEF z
<1>4. ASSUME NEW y, Tidy(y), Single(y)
      PROVE  Preprocessed(ByDefault, y) = LowerCase(Composed(y))
  <2>1. y \in Seq(Units) /\ Trimmed(y) = y /\ Collapsed(y) = y
    BY <1>4, TidySame, CollapsedOnce DEF Tidy
  <2> QED
    BY <2>1, PreprocessedIs
<1>5. ASSUME NEW y, Tidy(y), Single(y), Len(y) = Len(c),
             \A i \in 1 .. Len(c) : Lowering(Composing(y[i])) = z[i]
      PROVE  LowerCase(Composed(y)) = z
  <2> DEFINE w == LowerCase(Composed(y))
  <2>1. Alike(y, w) /\ \A i \in 1 .. Len(y) : w[i] = Lowering(Composing(y[i]))
    BY <1>5, LetterwiseIs
  <2> HIDE DEF w
  <2>2. w \in Seq(Units) /\ z \in Seq(Units) /\ Len(w) = Len(z) /\ \A i \in 1 .. Len(w) : w[i] = z[i]
    BY <1>3, <1>5, <2>1 DEF Alike
  <2>3. w = z
    BY <2>2, SeqEqual
  <2> QED
    BY <2>3 DEF w
<1>6. \A i \in 1 .. Len(c) : c[i] \in Units
  BY <1>2, LenProperties DEF Tidy
<1>7. LowerCase(Composed(z)) = z
  <2>1. \A i \in 1 .. Len(c) : Lowering(Composing(z[i])) = z[i]
    <3> SUFFICES ASSUME NEW i \in 1 .. Len(c) PROVE Lowering(Composing(z[i])) = z[i]
      OBVIOUS
    <3> DEFINE u == c[i]
               v == Composing(u)
    <3>1. u \in Units /\ z[i] = Lowering(v)
      BY <1>3, <1>6
    <3> HIDE DEF u
    <3>2. v \in Units /\ Composing(Lowering(v)) = Lowering(v)
      BY <3>1, UnitsAre
    <3> HIDE DEF v
    <3>3. Lowering(Lowering(v)) = Lowering(v)
      BY <3>2, UnitsAre
    <3> QED
      BY <3>1, <3>2, <3>3
  <2>2. Len(z) = Len(c)
    BY <1>3 DEF Alike
  <2> QED
    BY <1>3, <1>5, <2>1, <2>2
<1>8. Preprocessed(ByDefault, z) = z
  BY <1>3, <1>4, <1>7
<1> QED
  BY <1>1, <1>3, <1>8

\* The normal form of a key has the words of the trimmed query, in their order.
LEMMA NormalSaysSame ==
    ASSUME NEW query \in Seq(Units)
    PROVE  SaysSame(NormalizedQuery(query), LowerCase(Trimmed(query)))
<1> DEFINE y == Trimmed(query)
           x == LowerCase(y)
           c == Collapsed(x)
<1>1. NormalizedQuery(query) = c
  BY DEF NormalizedQuery
<1>2. Tidy(x)
  <2>1. Tidy(y)
    BY TrimTidies
  <2>2. Alike(y, x)
    <3>1. y \in Seq(Units)
      BY <2>1 DEF Tidy
    <3> HIDE DEF y
    <3> QED
      BY <3>1, LowerCaseIs
  <2> HIDE DEF x, y
  <2> QED
    BY <2>1, <2>2, AlikeIs
<1> HIDE DEF x
<1>3. Tidy(c)
  BY <1>2, CollapsePicks
<1>4. PICK p : Upwards(p, Len(c), Worth(x)) /\ Picks(c, x, p)
  BY <1>2, CollapsePicks
<1> HIDE DEF c
<1> DEFINE m == Len(c)
           n == Len(x)
<1>5. /\ x \in Seq(Units) /\ c \in Seq(Units) /\ n \in Nat /\ m \in Nat
      /\ DOMAIN x = 1 .. n /\ DOMAIN c = 1 .. m
  BY <1>2, <1>3, LenProperties DEF Tidy
<1>6. /\ p \in [1 .. m -> Worth(x)] /\ \A j \in 1 .. m, k \in 1 .. m : j < k => p[j] < p[k]
      /\ \A i \in Worth(x) : \E k \in 1 .. m : p[k] = i
      /\ \A k \in 1 .. m : c[k] = x[p[k]]
  BY <1>4 DEF Upwards, Picks
<1>7. /\ Worth(x) \in SUBSET (1 .. n)
      /\ \A i \in 1 .. n : x[i] # "blank" => i \in Worth(x)
  BY <1>5, WorthIs
<1>8. \A a \in 1 .. n, b \in 1 .. n : a <= b /\ x[a] # "blank" /\ x[b] = "blank" =>
          \E j \in Worth(x) : a < j /\ j <= b /\ x[j] = "blank"
  BY <1>5, BlankBetween
<1>9. /\ Letters(c) = {k \in 1 .. m : c[k] # "blank"}
      /\ Letters(x) = {i \in 1 .. n : x[i] # "blank"}
  BY <1>5, Zenon DEF Letters
<1> HIDE DEF m, n
<1>10. \A k \in 1 .. m : p[k] \in 1 .. n /\ p[k] \in Nat /\ k \in Nat
  BY <1>5, <1>6, <1>7
<1> DEFINE place == [k \in Letters(c) |-> p[k]]
<1>11. place \in [Letters(c) -> Letters(x)] /\ \A k \in Letters(c) : place[k] = p[k]
  <2>1. \A k \in Letters(c) : p[k] \in Letters(x)
    BY <1>6, <1>9, <1>10
  <2> QED
    BY <2>1
<1> HIDE DEF place
<1>12. \A i \in Letters(x) : \E k \in Letters(c) : place[k] = i
  <2> SUFFICES ASSUME NEW i \in Letters(x) PROVE \E k \in Letters(c) : place[k] = i
    OBVIOUS
  <2>1. PICK k \in 1 .. m : p[k] = i
    BY <1>6, <1>7, <1>9
  <2>2. k \in Letters(c)
    BY <1>6, <1>9, <2>1
  <2> QED
    BY <1>11, <2>1, <2>2
<1>13. \A k \in Letters(c) : x[place[k]] = c[k]
  BY <1>6, <1>9, <1>11
<1>14. ASSUME NEW j \in Letters(c), NEW k \in Letters(c), j < k
       PROVE  place[j] < place[k] /\ (Parted(c, j, k) <=> Parted(x, place[j], place[k]))
  <2>1. /\ j \in 1 .. m /\ k \in 1 .. m /\ place[j] = p[j] /\ place[k] = p[k]
        /\ x[p[j]] # "blank" /\ x[p[k]] # "blank" /\ p[j] < p[k]
    BY <1>6, <1>9, <1>11, <1>14
  <2>2. ASSUME NEW i \in j .. k, c[i] = "blank" PROVE Parted(x, p[j], p[k])
    <3>1. i \in 1 .. m /\ i # j /\ i # k /\ j < i /\ i < k
      BY <1>5, <1>9, <1>10, <2>1, <2>2
    <3>2. p[i] \in p[j] .. p[k]
      <4>1. p[j] < p[i] /\ p[i] < p[k]
        BY <1>6, <2>1, <3>1
      <4>2. p[i] \in Nat /\ p[j] \in Nat /\ p[k] \in Nat
        BY <1>10, <2>1, <3>1
      <4> QED
        BY <4>1, <4>2
    <3>3. x[p[i]] = "blank"
      BY <1>6, <2>2, <3>1
    <3> QED
      BY <3>2, <3>3 DEF Parted
  <2>3. ASSUME NEW i \in p[j] .. p[k], x[i] = "blank" PROVE Parted(c, j, k)
    <3>1. i \in 1 .. n /\ p[j] <= i /\ i <= p[k] /\ i \in Nat
      BY <1>5, <1>10, <2>1, <2>3
    <3>2. PICK h \in Worth(x) : p[j] < h /\ h <= i /\ x[h] = "blank"
      BY <1>8, <1>10, <2>1, <2>3, <3>1
    <3>3. PICK l \in 1 .. m : p[l] = h
      BY <1>6
    <3>4. c[l] = "blank"
      BY <1>6, <3>2, <3>3
    <3>5. p[j] < p[l] /\ p[l] <= p[k]
      BY <1>10, <2>1, <3>1, <3>2, <3>3
    <3>6. ~(l < j) /\ ~(k < l)
      <4>1. (l < j => p[l] < p[j]) /\ (k < l => p[k] < p[l])
        BY <1>6, <2>1
      <4>2. p[l] \in Nat /\ p[j] \in Nat /\ p[k] \in Nat
        BY <1>10, <2>1
      <4> QED
        BY <3>5, <4>1, <4>2
    <3>7. l \in j .. k
      BY <1>10, <2>1, <3>6
    <3> QED
      BY <3>4, <3>7 DEF Parted
  <2> QED
    BY <2>1, <2>2, <2>3 DEF Parted
<1>15. SaysSame(c, x)
  BY <1>11, <1>12, <1>13, <1>14, Zenon DEF SaysSame
<1> QED
  BY <1>1, <1>15 DEF x

\* Fewer and smaller addends have no larger sum.
LEMMA SumShrinks ==
    ASSUME NEW n \in Nat, NEW f \in [1 .. n -> Nat], NEW m \in Nat, NEW e \in [1 .. m -> Nat],
           NEW p \in [1 .. m -> 1 .. n], \A j, k \in 1 .. m : j < k => p[j] < p[k],
           \A k \in 1 .. m : e[k] <= f[p[k]]
    PROVE  Summed(e) <= Summed(f)
<1>0. f \in [1 .. n -> Int] /\ e \in [1 .. m -> Int]
  OBVIOUS
<1>1. PICK g \in [0 .. n -> Int] : /\ g[0] = 0 /\ \A i \in 1 .. n : g[i] = g[i - 1] + f[i]
                                   /\ Summed(f) = g[n]
  BY <1>0, SumSteps
<1>2. PICK h \in [0 .. m -> Int] : /\ h[0] = 0 /\ \A i \in 1 .. m : h[i] = h[i - 1] + e[i]
                                   /\ Summed(e) = h[m]
  BY <1>0, SumSteps
<1> DEFINE Rising(k) == \A i \in 0 .. k : g[i] <= g[k]
           R == {k \in 0 .. n : Rising(k)}
<1>3. \A k \in 0 .. n : k \in R
  <2>1. 0 \in R
    <3>1. \A i \in 0 .. 0 : g[i] <= g[0]
      BY <1>1
    <3> QED
      BY <3>1
  <2>2. ASSUME NEW k \in 0 .. n - 1, k \in R PROVE k + 1 \in R
    <3> DEFINE j == k + 1
    <3>1. j \in 1 .. n /\ j \in 0 .. n /\ k \in 0 .. n /\ j - 1 = k
      BY <2>2
    <3>2. g[j] = g[k] + f[j] /\ f[j] \in Nat /\ g[k] \in Int /\ g[j] \in Int
      BY <1>1, <3>1
    <3>3. ASSUME NEW i \in 0 .. j PROVE g[i] <= g[j]
      <4>1. CASE i = j
        BY <3>2, <4>1
      <4>2. CASE i # j
        <5>1. i \in 0 .. k /\ i \in 0 .. n
          BY <3>1, <4>2
        <5>2. g[i] <= g[k] /\ g[i] \in Int
          BY <1>1, <2>2, <5>1
        <5>3. ASSUME NEW a \in Int, NEW b \in Int, NEW c \in Nat, a <= b PROVE a <= b + c
          BY <5>3
        <5> HIDE DEF j
        <5> QED
          BY <3>2, <5>2, <5>3, Zenon
      <4> QED
        BY <4>1, <4>2
    <3> HIDE DEF j
    <3>4. j \in R
      BY <3>1, <3>3
    <3> QED
      BY <3>4 DEF j
  <2> HIDE DEF R
  <2> QED
    BY <2>1, <2>2, UpTo
<1>4. \A k \in 0 .. n, i \in 0 .. n : i <= k => g[i] <= g[k]
  <2> SUFFICES ASSUME NEW k \in 0 .. n, NEW i \in 0 .. n, i <= k PROVE g[i] <= g[k]
    OBVIOUS
  <2>1. i \in 0 .. k /\ k \in R
    BY <1>3
  <2> QED
    BY <2>1
<1> HIDE DEF R
<1> DEFINE q == [k \in 0 .. m |-> IF k = 0 THEN 0 ELSE p[k]]
<1>5. /\ q[0] = 0 /\ \A k \in 1 .. m : q[k] = p[k] /\ q[k] \in 1 .. n
      /\ \A k \in 0 .. m : q[k] \in 0 .. n
  <2>1. 0 \in 0 .. m /\ \A k \in 1 .. m : k \in 0 .. m /\ k # 0
    OBVIOUS
  <2>2. q[0] = 0 /\ \A k \in 1 .. m : q[k] = p[k] /\ q[k] \in 1 .. n
    BY <2>1
  <2>3. \A k \in 0 .. m : k = 0 \/ k \in 1 .. m
    OBVIOUS
  <2>4. 0 \in 0 .. n /\ \A i \in 1 .. n : i \in 0 .. n
    OBVIOUS
  <2> HIDE DEF q
  <2> QED
    BY <2>2, <2>3, <2>4
<1> HIDE DEF q
<1> DEFINE G == {k \in 0 .. m : h[k] <= g[q[k]]}
<1>6. \A k \in 0 .. m : k \in G
  <2>1. 0 \in G
    BY <1>1, <1>2, <1>5
  <2>2. ASSUME NEW k \in 0 .. m - 1, k \in G PROVE k + 1 \in G
    <3> DEFINE j == k + 1
               a == q[k]
               b == q[j]
    <3>1. j \in 1 .. m /\ j \in 0 .. m /\ k \in 0 .. m /\ j - 1 = k /\ k < j
          /\ (k # 0 => k \in 1 .. m)
      BY <2>2
    <3>2. h[k] <= g[a]
      BY <2>2
    <3> HIDE DEF j
    <3>3. b \in 1 .. n /\ b = p[j] /\ a \in 0 .. n
      BY <1>5, <3>1
    <3>3b. k = 0 => a = 0
      BY <1>5
    <3>3a. b \in Nat /\ 1 <= b /\ b <= n /\ a \in Nat
      <4> HIDE DEF a, b
      <4> QED
        BY <3>3
    <3>4. h[j] = h[k] + e[j] /\ h[k] \in Int /\ h[j] \in Int
      BY <1>2, <3>1
    <3>5. e[j] <= f[p[j]] /\ e[j] \in Nat
      BY <3>1
    <3>6. a < b
      <4>1. CASE k = 0
        <5> HIDE DEF a, b
        <5> QED
          BY <3>3a, <3>3b, <4>1
      <4>2. CASE k # 0
        <5>1. p[k] < p[j]
          BY <3>1, <4>2
        <5> QED
          BY <1>5, <3>1, <3>3, <4>2, <5>1
      <4> QED
        BY <4>1, <4>2
    <3> HIDE DEF a, b
    <3>7. b - 1 \in 0 .. n /\ b \in 0 .. n /\ a <= b - 1
      BY <3>3a, <3>6
    <3>8. g[b] = g[b - 1] + f[b] /\ f[b] \in Nat /\ g[b - 1] \in Int /\ g[b] \in Int
          /\ g[a] \in Int
      BY <1>1, <3>3, <3>7
    <3>9. g[a] <= g[b - 1]
      BY <1>4, <3>3, <3>7
    <3>10. h[j] <= g[b]
      <4>1. e[j] <= f[b]
        BY <3>3, <3>5
      <4> QED
        <5> DEFINE hk == h[k]
                   hj == h[j]
                   ga == g[a]
                   gc == g[b - 1]
                   gb == g[b]
                   ej == e[j]
                   fb == f[b]
        <5>1. hk <= ga
          BY <3>2
        <5>2. hj = hk + ej /\ hk \in Int /\ hj \in Int
          BY <3>4
        <5>3. ej <= fb /\ ej \in Int
          BY <3>5, <4>1
        <5>4. gb = gc + fb /\ fb \in Int /\ gc \in Int /\ gb \in Int /\ ga \in Int
          BY <3>8
        <5>5. ga <= gc
          BY <3>9
        <5> HIDE DEF hk, hj, ga, gc, gb, ej, fb
        <5>6. hj <= gb
          BY <5>1, <5>2, <5>3, <5>4, <5>5
        <5> QED
          BY <5>6 DEF hj, gb
    <3>11. j \in G
      BY <3>1, <3>10 DEF b
    <3> QED
      BY <3>11 DEF j
  <2> HIDE DEF G
  <2> QED
    BY <2>1, <2>2, UpTo
<1>7. m \in 0 .. m /\ n \in 0 .. n
  OBVIOUS
<1>8. h[m] <= g[q[m]] /\ q[m] \in 0 .. n
  BY <1>5, <1>6, <1>7
<1>9. q[m] <= n
  BY <1>8
<1>10. g[q[m]] <= g[n] /\ g[q[m]] \in Int /\ g[n] \in Int /\ h[m] \in Int
  BY <1>1, <1>2, <1>4, <1>7, <1>8, <1>9
<1> QED
  BY <1>1, <1>2, <1>8, <1>10

\* The size of a text is the sum of the sizes of its units.
LEMMA SizeIs ==
    ASSUME NEW x \in Seq(Units)
    PROVE  /\ [i \in 1 .. Len(x) |-> Bytes(x[i])] \in [1 .. Len(x) -> Nat]
           /\ Size(x) = Summed([i \in 1 .. Len(x) |-> Bytes(x[i])])
           /\ Size(x) \in Nat /\ Len(x) <= Size(x)
           /\ Len(x) = 1 => Size(x) = Bytes(x[1])
<1> DEFINE n == Len(x)
           b == [i \in 1 .. n |-> Bytes(x[i])]
<1>1. n \in Nat /\ DOMAIN x = 1 .. n /\ \A i \in 1 .. n : x[i] \in Units
  BY LenProperties
<1>2. Size(x) = Summed(b)
  <2>1. Size(x) = Summed([i \in DOMAIN x |-> Bytes(x[i])])
    BY Zenon DEF Size, Summed
  <2> QED
    BY <1>1, <2>1
<1>3. \A i \in 1 .. n : Bytes(x[i]) \in 1 .. 4
  BY <1>1, UnitsAre
<1>4. b \in [1 .. n -> Nat] /\ b \in [1 .. n -> Int] /\ \A i \in 1 .. n : 1 <= b[i] /\ b[i] <= 4
  BY <1>3
<1> DEFINE F == 1 .. n
<1>5. F \in SUBSET (1 .. n) /\ \A i \in (1 .. n) \ F : b[i] = 0
  OBVIOUS
<1>6. Cardinality(F) = n
  <2>1. 1 \in Int /\ n \in Int
    BY <1>1
  <2>2. Cardinality(1 .. n) = IF 1 > n THEN 0 ELSE n - 1 + 1
    BY <2>1, FS_Interval
  <2> QED
    BY <1>1, <2>2
<1> HIDE DEF b, n, F
<1>7. \A i \in F : 1 <= b[i] /\ b[i] <= 4
  BY <1>4 DEF F
<1> DEFINE lo == 1
           hi == 4
<1>8. lo \in Nat /\ hi \in Nat /\ \A i \in F : lo <= b[i] /\ b[i] <= hi
  BY <1>7
<1>9. Summed(b) \in Nat /\ Cardinality(F) <= Summed(b)
  <2> HIDE DEF lo, hi
  <2>1. Summed(b) \in Nat /\ lo * Cardinality(F) <= Summed(b)
    BY <1>1, <1>4, <1>5, <1>8, SumBetween
  <2> QED
    BY <1>1, <1>6, <2>1 DEF lo
<1>10. n = 1 => Summed(b) = b[1]
  <2> SUFFICES ASSUME n = 1 PROVE Summed(b) = b[1]
    OBVIOUS
  <2>1. PICK g \in [0 .. n -> Int] : /\ g[0] = 0 /\ \A i \in 1 .. n : g[i] = g[i - 1] + b[i]
                                     /\ Summed(b) = g[n]
    BY <1>1, <1>4, SumSteps
  <2>2. 1 \in 1 .. n /\ 1 - 1 = 0
    OBVIOUS
  <2>3. b[1] \in Int
    BY <1>4, <2>2
  <2>4. g[1] = g[0] + b[1]
    BY <2>1, <2>2
  <2> QED
    BY <2>1, <2>3, <2>4
<1>11. n = 1 => b[1] = Bytes(x[1])
  BY <1>1 DEF b
<1> QED
  BY <1>1, <1>2, <1>4, <1>6, <1>9, <1>10, <1>11 DEF n, b

\* Preprocessing keeps a text within the limits.
LEMMA PreprocessedSize ==
    ASSUME NEW query \in Seq(Units), InLimits(query)
    PROVE  InLimits(Preprocessed(ByDefault, query))
<1> DEFINE x == Trimmed(query)
           c == Collapsed(x)
           z == LowerCase(Composed(c))
<1>1. Preprocessed(ByDefault, query) = z
  BY PreprocessedIs
<1>2. Tidy(x) /\ Tidy(c) /\ Single(c)
  BY TrimTidies, CollapsePicks
<1>3. Size(x) >= MinQuery /\ Size(x) <= MaxQuery /\ MinQuery \in 0 .. 2 /\ MaxQuery \in Nat
  BY RequestTextAssumption DEF InLimits, LengthConfigured
<1>4. PICK p : Upwards(p, Len(c), Worth(x)) /\ Picks(c, x, p)
  BY <1>2, CollapsePicks
<1> HIDE DEF x, c
<1>5. Alike(c, z) /\ Tidy(z) /\ \A i \in 1 .. Len(c) : z[i] = Lowering(Composing(c[i]))
  BY <1>2, LetterwiseIs
<1> HIDE DEF z
<1>6. Trimmed(z) = z
  BY <1>5, TidySame
<1> DEFINE n == Len(x)
           m == Len(z)
           f == [i \in 1 .. n |-> Bytes(x[i])]
           e == [i \in 1 .. m |-> Bytes(z[i])]
<1>7. x \in Seq(Units) /\ z \in Seq(Units) /\ c \in Seq(Units) /\ Len(c) = m
  BY <1>2, <1>5 DEF Tidy, Alike
<1>8. /\ n \in Nat /\ m \in Nat /\ (x = <<>> <=> n = 0) /\ (c = <<>> <=> m = 0)
      /\ \A i \in 1 .. n : x[i] \in Units
  BY <1>7, LenProperties, EmptySeq
<1>9. f \in [1 .. n -> Nat] /\ Size(x) = Summed(f) /\ Size(x) \in Nat /\ (n = 1 => Size(x) = Bytes(x[1]))
  BY <1>7, SizeIs
<1>10. e \in [1 .. m -> Nat] /\ Size(z) = Summed(e) /\ Size(z) \in Nat /\ m <= Size(z)
       /\ (m = 1 => Size(z) = Bytes(z[1]))
  BY <1>7, SizeIs
<1>11. x # <<>> => c # <<>> /\ p[1] = 1 /\ p[m] = n
  BY <1>2, <1>4, <1>7, PickedTidies
<1>12. /\ p \in [1 .. m -> 1 .. n] /\ \A j \in 1 .. m, k \in 1 .. m : j < k => p[j] < p[k]
       /\ \A k \in 1 .. m : c[k] = x[p[k]]
  <2>1. Worth(x) \in SUBSET (1 .. n)
    BY <1>7, WorthIs
  <2>2. p \in [1 .. m -> Worth(x)] /\ \A j \in 1 .. m, k \in 1 .. m : j < k => p[j] < p[k]
    BY <1>4, <1>7 DEF Upwards
  <2>3. \A k \in 1 .. m : c[k] = x[p[k]]
    BY <1>4, <1>7 DEF Picks
  <2> QED
    BY <2>1, <2>2, <2>3
<1>13. ASSUME NEW k \in 1 .. m
       PROVE  /\ Bytes(z[k]) <= Bytes(x[p[k]])
              /\ (Bytes(x[p[k]]) >= 2 => Bytes(z[k]) >= 2)
  <2> DEFINE u == x[p[k]]
  <2>1. u \in Units
    BY <1>8, <1>12
  <2>2. z[k] = Lowering(Composing(u))
    BY <1>5, <1>7, <1>12
  <2> HIDE DEF u
  <2>3. Bytes(z[k]) <= Bytes(u) /\ (Bytes(u) >= 2 => Bytes(z[k]) >= 2)
    BY <2>1, <2>2, UnitsAre
  <2> QED
    BY <2>3 DEF u
<1>14. Size(z) <= Size(x)
  <2>1. \A k \in 1 .. m : e[k] <= f[p[k]]
    BY <1>12, <1>13
  <2> HIDE DEF e, f, m, n
  <2>2. Summed(e) <= Summed(f)
    BY <1>8, <1>9, <1>10, <1>12, <2>1, SumShrinks
  <2> QED
    BY <1>9, <1>10, <2>2
<1>15. Size(z) >= MinQuery
  <2> HIDE DEF m, n, e, f
  <2>1. CASE n = 0
    <3>1. Size(x) = 0
      <4>1. PICK g \in [0 .. n -> Int] : g[0] = 0 /\ Summed(f) = g[n]
        <5>1. f \in [1 .. n -> Int]
          BY <1>9
        <5> QED
          BY <1>8, <5>1, SumSteps
      <4> QED
        BY <1>9, <2>1, <4>1
    <3> QED
      BY <1>3, <1>10, <3>1
  <2>2. CASE n = 1
    <3>1. m = 1
      <4>1. m # 0
        BY <1>8, <1>11, <2>2
      <4>2. 1 \in 1 .. m /\ m \in 1 .. m /\ p[1] = 1 /\ p[m] = 1
        BY <1>8, <1>11, <2>2, <4>1
      <4>3. 1 < m => p[1] < p[m]
        BY <1>12, <4>2
      <4> QED
        BY <1>8, <4>1, <4>2, <4>3
    <3>2. Size(x) = Bytes(x[1]) /\ Size(z) = Bytes(z[1]) /\ p[1] = 1 /\ 1 \in 1 .. m
      BY <1>8, <1>9, <1>10, <1>11, <2>2, <3>1
    <3>3. Size(x) >= 2 => Size(z) >= 2
      BY <1>13, <3>2
    <3> QED
      BY <1>3, <1>9, <1>10, <3>1, <3>3
  <2>3. CASE n > 1
    <3>1. m # 0 /\ p[1] = 1 /\ p[m] = n
      BY <1>8, <1>11, <2>3
    <3>2. m # 1
      BY <2>3, <3>1
    <3>3. m >= 2
      BY <1>8, <3>1, <3>2
    <3> QED
      BY <1>3, <1>8, <1>10, <3>3
  <2> QED
    BY <1>8, <2>1, <2>2, <2>3
<1>16. Size(z) <= MaxQuery
  BY <1>3, <1>9, <1>10, <1>14
<1> QED
  BY <1>1, <1>6, <1>15, <1>16 DEF InLimits

\* Texts with their blanks at the same places have their words at the same places.
LEMMA WordsAlike ==
    ASSUME NEW x, NEW y, Alike(x, y)
    PROVE  Words(x) = Words(y)
<1> DEFINE n == Len(x)
<1>1. x \in Seq(Units) /\ Len(y) = n /\ \A i \in 1 .. n : x[i] = "blank" <=> y[i] = "blank"
  BY DEF Alike
<1>2. n \in Nat
  BY <1>1, LenProperties
<1> HIDE DEF n
<1>3. ASSUME NEW w \in (1 .. n) \X (1 .. n)
      PROVE  /\ \A i \in w[1] .. w[2] : i \in 1 .. n
             /\ w[1] = 1 \/ w[1] - 1 \in 1 .. n
             /\ w[2] = n \/ w[2] + 1 \in 1 .. n
  <2> DEFINE a == w[1]
             b == w[2]
  <2>1. a \in 1 .. n /\ b \in 1 .. n
    OBVIOUS
  <2> HIDE DEF a, b
  <2>2. (\A i \in a .. b : i \in 1 .. n) /\ (a = 1 \/ a - 1 \in 1 .. n)
        /\ (b = n \/ b + 1 \in 1 .. n)
    BY <1>2, <2>1
  <2> QED
    BY <2>2 DEF a, b
<1>4. \A w \in (1 .. n) \X (1 .. n) : w \in Words(x) <=> w \in Words(y)
  <2> SUFFICES ASSUME NEW w \in (1 .. n) \X (1 .. n) PROVE w \in Words(x) <=> w \in Words(y)
    OBVIOUS
  <2>1. /\ \A i \in w[1] .. w[2] : x[i] # "blank" <=> y[i] # "blank"
        /\ w[1] = 1 \/ (x[w[1] - 1] = "blank" <=> y[w[1] - 1] = "blank")
        /\ w[2] = n \/ (x[w[2] + 1] = "blank" <=> y[w[2] + 1] = "blank")
    BY <1>1, <1>3
  <2> QED
    BY <1>1, <2>1, Zenon DEF Words, n
<1>5. Words(x) \in SUBSET ((1 .. n) \X (1 .. n)) /\ Words(y) \in SUBSET ((1 .. n) \X (1 .. n))
  BY <1>1 DEF Words, n
<1> QED
  BY <1>4, <1>5

\* Collapsing blanks keeps the words: each begins and ends where it did, at the places kept.
LEMMA WordsPicked ==
    ASSUME NEW x, Tidy(x), NEW c \in Seq(Units), NEW p, Upwards(p, Len(c), Worth(x)),
           Picks(c, x, p)
    PROVE  Cardinality(Words(c)) = Cardinality(Words(x))
<1> DEFINE m == Len(c)
           n == Len(x)
<1>1. x \in Seq(Units) /\ (x # <<>> => x[1] # "blank" /\ x[n] # "blank")
  BY DEF Tidy
<1>2. n \in Nat /\ m \in Nat /\ (x = <<>> <=> n = 0)
  BY <1>1, LenProperties, EmptySeq
<1>3. x # <<>> => p[1] = 1 /\ p[m] = n
  BY PickedTidies
<1>4. /\ p \in [1 .. m -> Worth(x)] /\ \A j \in 1 .. m, k \in 1 .. m : j < k => p[j] < p[k]
      /\ \A i \in Worth(x) : \E k \in 1 .. m : p[k] = i
      /\ \A k \in 1 .. m : c[k] = x[p[k]]
  BY DEF Upwards, Picks
<1>5. /\ Worth(x) \in SUBSET (1 .. n)
      /\ \A i \in 1 .. n : x[i] # "blank" => i \in Worth(x)
      /\ \A i \in 1 .. n : i + 1 \in 1 .. n /\ x[i] # "blank" => i + 1 \in Worth(x)
  BY <1>1, WorthIs
<1>6. \A a \in 1 .. n, b \in 1 .. n : a <= b /\ x[a] # "blank" /\ x[b] = "blank" =>
          \E j \in Worth(x) : a < j /\ j <= b /\ x[j] = "blank"
  BY <1>1, BlankBetween
<1> DEFINE WordAt(t, l, a, b) ==
               /\ a \in 1 .. l /\ b \in 1 .. l /\ a <= b
               /\ \A i \in a .. b : t[i] # "blank"
               /\ a = 1 \/ t[a - 1] = "blank"
               /\ b = l \/ t[b + 1] = "blank"
<1>7. /\ Words(c) \in SUBSET ((1 .. m) \X (1 .. m)) /\ Words(x) \in SUBSET ((1 .. n) \X (1 .. n))
      /\ \A a \in 1 .. m, b \in 1 .. m : <<a, b>> \in Words(c) <=> WordAt(c, m, a, b)
      /\ \A a \in 1 .. n, b \in 1 .. n : <<a, b>> \in Words(x) <=> WordAt(x, n, a, b)
  BY DEF Words
<1> HIDE DEF m, n
<1>8. \A k \in 1 .. m : p[k] \in 1 .. n /\ p[k] \in Nat
  BY <1>4, <1>5
<1>9. \A j \in 1 .. m, k \in 1 .. m : p[j] = p[k] => j = k
  <2> SUFFICES ASSUME NEW j \in 1 .. m, NEW k \in 1 .. m, p[j] = p[k], j # k PROVE FALSE
    OBVIOUS
  <2>1. j < k \/ k < j
    BY <1>2
  <2>2. p[j] < p[k] \/ p[k] < p[j]
    BY <1>4, <2>1
  <2> QED
    BY <1>8, <2>2
<1>10. \A j \in 1 .. m, k \in 1 .. m : p[j] < p[k] => j < k
  <2> SUFFICES ASSUME NEW j \in 1 .. m, NEW k \in 1 .. m, p[j] < p[k], ~(j < k) PROVE FALSE
    OBVIOUS
  <2>1. j = k \/ k < j
    BY <1>2
  <2>2. p[j] = p[k] \/ p[k] < p[j]
    BY <1>4, <2>1
  <2>3. p[j] \in Nat /\ p[k] \in Nat
    BY <1>8
  <2> QED
    BY <2>2, <2>3
\* No word of the text holds a blank between two places of a word that is kept.
<1>11. ASSUME NEW a \in 1 .. m, NEW b \in 1 .. m, WordAt(c, m, a, b)
       PROVE  WordAt(x, n, p[a], p[b])
  <2>1. p[a] \in 1 .. n /\ p[b] \in 1 .. n /\ p[a] <= p[b]
    <3>1. a = b \/ a < b
      BY <1>2, <1>11
    <3>2. a < b => p[a] < p[b]
      BY <1>4
    <3>3. p[a] \in Nat /\ p[b] \in Nat
      BY <1>8
    <3>4. p[a] <= p[b]
      BY <3>1, <3>2, <3>3
    <3> QED
      BY <1>8, <3>4
  <2>2. c[a] # "blank" /\ c[b] # "blank" /\ x[p[a]] # "blank" /\ x[p[b]] # "blank"
    <3>1. a \in a .. b /\ b \in a .. b
      BY <1>2, <1>11
    <3> QED
      BY <1>4, <1>11, <3>1
  <2>3. ASSUME NEW i \in p[a] .. p[b], x[i] = "blank" PROVE FALSE
    <3>1. i \in 1 .. n /\ p[a] <= i /\ i <= p[b] /\ i \in Nat
      BY <1>2, <1>8, <2>3
    <3>2. PICK j \in Worth(x) : p[a] < j /\ j <= i /\ x[j] = "blank"
      BY <1>6, <2>1, <2>2, <2>3, <3>1
    <3>3. PICK k \in 1 .. m : p[k] = j
      BY <1>4
    <3>4. p[a] < p[k] /\ p[k] <= p[b] /\ p[k] # p[b]
      <4>1. j \in Nat /\ p[b] \in Nat
        BY <1>8, <3>3
      <4>2. j <= p[b]
        BY <3>1, <3>2, <4>1
      <4> QED
        BY <2>2, <3>2, <3>3, <4>2
    <3>5. p[k] < p[b]
      BY <1>8, <3>4
    <3>6. a < k /\ k < b
      BY <1>10, <3>4, <3>5
    <3>7. k \in a .. b
      BY <1>2, <3>6
    <3> QED
      BY <1>4, <1>11, <3>2, <3>3, <3>7
  <2>4. p[a] = 1 \/ x[p[a] - 1] = "blank"
    <3>1. CASE a = 1
      <4>1. x # <<>>
        BY <1>2, <2>1
      <4> QED
        BY <1>3, <3>1, <4>1
    <3>2. CASE a # 1
      <4>1. a - 1 \in 1 .. m /\ a - 1 < a /\ c[a - 1] = "blank"
        BY <1>2, <1>11, <3>2
      <4> DEFINE h == p[a - 1]
                 i == p[a] - 1
      <4>2. h < p[a] /\ x[h] = "blank" /\ h \in 1 .. n /\ h \in Nat
        BY <1>4, <1>8, <4>1
      <4>3. i \in 1 .. n /\ i < p[a] /\ h <= i /\ p[a] = i + 1
        BY <1>2, <1>8, <4>2
      <4>4. ASSUME x[i] # "blank" PROVE FALSE
        <5>1. PICK k \in 1 .. m : p[k] = i
          BY <1>4, <1>5, <4>3, <4>4
        <5>2. h # i
          BY <4>2, <4>4
        <5>3. h < p[k] /\ p[k] < p[a]
          BY <1>8, <4>2, <4>3, <5>1, <5>2
        <5>4. a - 1 < k /\ k < a
          BY <1>10, <4>1, <5>3
        <5> QED
          BY <1>2, <5>4
      <4> QED
        BY <4>4
    <3> QED
      BY <3>1, <3>2
  <2>5. p[b] = n \/ x[p[b] + 1] = "blank"
    <3>1. CASE b = m
      <4>1. x # <<>>
        BY <1>2, <2>1
      <4> QED
        BY <1>3, <3>1, <4>1
    <3>2. CASE b # m
      <4>1. b + 1 \in 1 .. m /\ b < b + 1 /\ c[b + 1] = "blank"
        BY <1>2, <1>11, <3>2
      <4> DEFINE h == p[b + 1]
                 i == p[b] + 1
      <4>2. p[b] < h /\ x[h] = "blank" /\ h \in 1 .. n /\ h \in Nat
        BY <1>4, <1>8, <4>1
      <4>3. i \in 1 .. n /\ p[b] < i /\ i <= h /\ i \in Nat
        BY <1>2, <1>8, <4>2
      <4>4. ASSUME x[i] # "blank" PROVE FALSE
        <5>1. PICK k \in 1 .. m : p[k] = i
          BY <1>4, <1>5, <4>3, <4>4
        <5>2. h # i
          BY <4>2, <4>4
        <5>3. p[k] < h /\ p[b] < p[k]
          BY <1>8, <4>2, <4>3, <5>1, <5>2
        <5>4. b < k /\ k < b + 1
          BY <1>10, <4>1, <5>3
        <5> QED
          BY <1>2, <5>4
      <4> QED
        BY <4>4
    <3> QED
      BY <3>1, <3>2
  <2> QED
    BY <2>1, <2>3, <2>4, <2>5
\* And where a word of the text begins and ends, a word of what is kept does.
<1>12. ASSUME NEW u \in 1 .. n, NEW v \in 1 .. n, WordAt(x, n, u, v)
       PROVE  \E a \in 1 .. m, b \in 1 .. m : p[a] = u /\ p[b] = v /\ WordAt(c, m, a, b)
  <2>1. x[u] # "blank" /\ x[v] # "blank" /\ u <= v
    <3>1. u \in u .. v /\ v \in u .. v
      BY <1>2, <1>12
    <3> QED
      BY <1>12, <3>1
  <2>2. PICK a \in 1 .. m : p[a] = u
    BY <1>4, <1>5, <2>1
  <2>3. PICK b \in 1 .. m : p[b] = v
    BY <1>4, <1>5, <2>1
  <2>4. a <= b
    <3>1. b < a => p[b] < p[a]
      BY <1>4
    <3> QED
      BY <1>2, <2>1, <2>2, <2>3, <3>1
  <2>5. ASSUME NEW k \in a .. b PROVE c[k] # "blank"
    <3>1. k \in 1 .. m /\ (a = k \/ a < k) /\ (k = b \/ k < b)
      BY <1>2, <2>5
    <3>2. (a < k => p[a] < p[k]) /\ (k < b => p[k] < p[b])
      BY <1>4, <3>1
    <3>3. p[k] \in u .. v
      <4>1. p[k] \in Nat /\ p[a] \in Nat /\ p[b] \in Nat
        BY <1>8, <3>1
      <4>2. u <= p[k] /\ p[k] <= v
        BY <2>2, <2>3, <3>1, <3>2, <4>1
      <4> QED
        BY <4>1, <4>2
    <3> QED
      BY <1>4, <1>12, <3>1, <3>3
  <2>6. a = 1 \/ c[a - 1] = "blank"
    <3> SUFFICES ASSUME a # 1, c[a - 1] # "blank" PROVE FALSE
      OBVIOUS
    <3>1. a - 1 \in 1 .. m /\ 1 \in 1 .. m /\ a - 1 < a /\ 1 < a /\ ~(a <= 1)
      BY <1>2
    <3> DEFINE h == p[a - 1]
               i == u - 1
    <3>2. h < u /\ x[h] # "blank" /\ h \in 1 .. n /\ h \in Nat
      BY <1>4, <1>8, <2>2, <3>1
    <3>3. i \in 1 .. n /\ h <= i /\ u # 1 /\ i < u
      BY <1>2, <3>2
    <3>4. x[i] = "blank"
      BY <1>12, <3>3
    <3>5. PICK j \in Worth(x) : h < j /\ j <= i /\ x[j] = "blank"
      BY <1>6, <3>2, <3>3, <3>4
    <3>6. PICK k \in 1 .. m : p[k] = j
      BY <1>4
    <3>7. h < p[k] /\ p[k] < p[a]
      <4>1. j \in Nat
        BY <1>8, <3>6
      <4> QED
        BY <2>2, <3>3, <3>5, <3>6, <4>1
    <3>8. a - 1 < k /\ k < a
      BY <1>10, <3>1, <3>7
    <3> QED
      BY <1>2, <3>8
  <2>7. b = m \/ c[b + 1] = "blank"
    <3> SUFFICES ASSUME b # m PROVE c[b + 1] = "blank"
      OBVIOUS
    <3>1. b + 1 \in 1 .. m /\ b < b + 1
      BY <1>2
    <3> DEFINE h == p[b + 1]
               i == v + 1
    <3>2. v < h /\ h \in 1 .. n /\ h \in Nat
      BY <1>4, <1>8, <2>3, <3>1
    <3>3. i \in 1 .. n /\ v < i /\ i <= h /\ v # n /\ i \in Nat
      BY <1>2, <3>2
    <3>4. x[i] = "blank" /\ i \in Worth(x)
      BY <1>5, <1>12, <2>1, <3>3
    <3>5. PICK k \in 1 .. m : p[k] = i
      BY <1>4, <3>4
    <3>6. p[b] < p[k] /\ b < k
      BY <1>10, <2>3, <3>3, <3>5
    <3>7. ~(h < p[k]) => ~(b + 1 < k)
      BY <1>4, <3>1
    <3>8. ~(h < p[k])
      BY <3>2, <3>3, <3>5
    <3>9. k = b + 1
      BY <1>2, <3>6, <3>7, <3>8
    <3> QED
      BY <1>4, <3>1, <3>4, <3>5, <3>9
  <2> QED
    BY <2>2, <2>3, <2>4, <2>5, <2>6, <2>7
<1> DEFINE W == Words(c)
           V == Words(x)
           place == [w \in W |-> <<p[w[1]], p[w[2]]>>]
<1>13. \A w \in W : /\ w[1] \in 1 .. m /\ w[2] \in 1 .. m /\ w = <<w[1], w[2]>>
                    /\ <<p[w[1]], p[w[2]]>> \in V
  <2> SUFFICES ASSUME NEW w \in W
               PROVE  /\ w[1] \in 1 .. m /\ w[2] \in 1 .. m /\ w = <<w[1], w[2]>>
                      /\ <<p[w[1]], p[w[2]]>> \in V
    OBVIOUS
  <2>1. w \in (1 .. m) \X (1 .. m)
    BY <1>7
  <2> DEFINE a == w[1]
             b == w[2]
  <2>2. a \in 1 .. m /\ b \in 1 .. m /\ w = <<a, b>>
    BY <2>1
  <2> HIDE DEF a, b
  <2>3. WordAt(c, m, a, b)
    BY <1>7, <2>2
  <2>4. WordAt(x, n, p[a], p[b]) /\ p[a] \in 1 .. n /\ p[b] \in 1 .. n
    BY <1>8, <1>11, <2>2, <2>3
  <2> HIDE DEF WordAt
  <2>5. <<p[a], p[b]>> \in V
    BY <1>7, <2>4
  <2> QED
    BY <2>2, <2>5 DEF a, b
<1>14. \A v \in V : \E w \in W : <<p[w[1]], p[w[2]]>> = v
  <2> SUFFICES ASSUME NEW v \in V PROVE \E w \in W : <<p[w[1]], p[w[2]]>> = v
    OBVIOUS
  <2>1. v \in (1 .. n) \X (1 .. n)
    BY <1>7
  <2> DEFINE a == v[1]
             b == v[2]
  <2>2. a \in 1 .. n /\ b \in 1 .. n /\ v = <<a, b>>
    BY <2>1
  <2> HIDE DEF a, b
  <2>3. WordAt(x, n, a, b)
    BY <1>7, <2>2
  <2>4. PICK k \in 1 .. m, l \in 1 .. m : p[k] = a /\ p[l] = b /\ WordAt(c, m, k, l)
    BY <1>12, <2>2, <2>3
  <2> HIDE DEF WordAt
  <2>5. <<k, l>> \in W
    BY <1>7, <2>4
  <2> DEFINE w == <<k, l>>
  <2>6. w \in W /\ w[1] = k /\ w[2] = l
    BY <2>5
  <2> HIDE DEF w
  <2> QED
    BY <2>2, <2>4, <2>6
<1> HIDE DEF W, V, WordAt
<1>15. place \in [W -> V] /\ \A w \in W : place[w] = <<p[w[1]], p[w[2]]>>
  BY <1>13
<1>16. \A w \in W, y \in W : place[w] = place[y] => w = y
  <2> SUFFICES ASSUME NEW w \in W, NEW y \in W, place[w] = place[y] PROVE w = y
    OBVIOUS
  <2>1. p[w[1]] = p[y[1]] /\ p[w[2]] = p[y[2]]
    BY <1>15
  <2>2. w[1] = y[1] /\ w[2] = y[2]
    BY <1>9, <1>13, <2>1
  <2> QED
    BY <1>13, <2>2
<1>17. \A v \in V : \E w \in W : place[w] = v
  BY <1>14, <1>15
<1> HIDE DEF place
<1>18. ExistsBijection(W, V)
  <2>1. place \in Injection(W, V)
    BY <1>15, <1>16, Fun_IsInj
  <2>2. place \in Surjection(W, V)
    BY <1>15, <1>17, Fun_IsSurj
  <2> QED
    BY <2>1, <2>2 DEF ExistsBijection, Bijection
<1>19. IsFiniteSet(W)
  <2>1. IsFiniteSet(1 .. m)
    BY <1>2, FS_Interval
  <2>2. IsFiniteSet((1 .. m) \X (1 .. m))
    BY <2>1, FS_Product
  <2> QED
    BY <1>7, <2>2, FS_Subset DEF W
<1>20. Cardinality(W) = Cardinality(V)
  BY <1>18, <1>19, FS_Bijection
<1> QED
  BY <1>20 DEF W, V

\* What the class of a text looks at.
HasUnit(t, u) == \E i \in DOMAIN t : LowerCase(t)[i] = u
Asks(t) == /\ t # <<>> /\ LowerCase(t)[1] = "what"
           /\ Len(t) = 1 \/ t[2] = "blank"

\* The class of a text, from these.
LEMMA ClassifyIs ==
    ASSUME NEW t
    PROVE  Classify(t) =
               IF HasUnit(t, "apostrophe") THEN "semantic"
               ELSE IF HasUnit(t, "mark") \/ Asks(t) THEN "question"
               ELSE IF Cardinality(Words(t)) <= 2 /\ ~HasUnit(t, "what") THEN "simple"
               ELSE "hybrid"
BY DEF Classify, ClassOf, HasUnit, Asks

\* Preprocessing keeps all of it.
LEMMA ClassKept ==
    ASSUME NEW query \in Seq(Units)
    PROVE  Classify(Preprocessed(ByDefault, query)) = Classify(Trimmed(query))
<1> DEFINE x == Trimmed(query)
           c == Collapsed(x)
           z == LowerCase(Composed(c))
<1>1. Preprocessed(ByDefault, query) = z
  BY PreprocessedIs
<1>2. Tidy(x) /\ Tidy(c) /\ Single(c)
  BY TrimTidies, CollapsePicks
<1>3. PICK p : Upwards(p, Len(c), Worth(x)) /\ Picks(c, x, p)
  BY <1>2, CollapsePicks
<1> HIDE DEF x, c
<1>4. Alike(c, z) /\ \A i \in 1 .. Len(c) : z[i] = Lowering(Composing(c[i]))
  BY <1>2, LetterwiseIs
<1> HIDE DEF z
<1> DEFINE n == Len(x)
           m == Len(c)
<1>5. x \in Seq(Units) /\ z \in Seq(Units) /\ c \in Seq(Units) /\ Len(z) = m
      /\ \A i \in 1 .. m : c[i] = "blank" <=> z[i] = "blank"
  BY <1>2, <1>4 DEF Tidy, Alike
<1>6. /\ n \in Nat /\ m \in Nat /\ (x = <<>> <=> n = 0) /\ (z = <<>> <=> m = 0) /\ (c = <<>> <=> m = 0)
      /\ \A i \in 1 .. n : x[i] \in Units
      /\ DOMAIN x = 1 .. n /\ DOMAIN z = 1 .. m
  BY <1>5, LenProperties, EmptySeq
<1>7. Cardinality(Words(z)) = Cardinality(Words(x))
  <2>1. Words(z) = Words(c)
    BY <1>4, WordsAlike
  <2>2. Cardinality(Words(c)) = Cardinality(Words(x))
    BY <1>2, <1>3, <1>5, WordsPicked
  <2> QED
    BY <2>1, <2>2
<1>8. x # <<>> => c # <<>> /\ p[1] = 1 /\ p[m] = n
  BY <1>2, <1>3, <1>5, PickedTidies
<1>9. /\ p \in [1 .. m -> Worth(x)] /\ \A j \in 1 .. m, k \in 1 .. m : j < k => p[j] < p[k]
      /\ \A i \in Worth(x) : \E k \in 1 .. m : p[k] = i
      /\ \A k \in 1 .. m : c[k] = x[p[k]]
  BY <1>3 DEF Upwards, Picks
<1>10. /\ Worth(x) \in SUBSET (1 .. n)
       /\ \A i \in 1 .. n : x[i] # "blank" => i \in Worth(x)
       /\ \A i \in 1 .. n : i + 1 \in 1 .. n /\ x[i] # "blank" => i + 1 \in Worth(x)
  BY <1>5, WorthIs
<1>11. /\ \A i \in 1 .. n : LowerCase(x)[i] = Lowering(x[i])
       /\ \A i \in 1 .. m : LowerCase(z)[i] = Lowering(z[i])
  BY <1>5, LowerCaseIs
<1> HIDE DEF n, m
<1>12. \A k \in 1 .. m : p[k] \in 1 .. n /\ x[p[k]] \in Units
  BY <1>6, <1>9, <1>10
<1> DEFINE Signs == {"apostrophe", "mark", "what"}
<1>13. \A k \in 1 .. m, u \in Signs : LowerCase(z)[k] = u <=> LowerCase(x)[p[k]] = u
  <2> SUFFICES ASSUME NEW k \in 1 .. m, NEW u \in Signs
               PROVE  LowerCase(z)[k] = u <=> LowerCase(x)[p[k]] = u
    OBVIOUS
  <2> DEFINE v == x[p[k]]
             w == Composing(v)
  <2>1. v \in Units /\ z[k] = Lowering(w) /\ LowerCase(x)[p[k]] = Lowering(v)
        /\ LowerCase(z)[k] = Lowering(z[k])
    BY <1>4, <1>9, <1>11, <1>12 DEF m
  <2> HIDE DEF v
  <2>2. w \in Units /\ (Lowering(w) = "apostrophe" <=> Lowering(v) = "apostrophe")
        /\ (Lowering(w) = "mark" <=> Lowering(v) = "mark")
        /\ (Lowering(w) = "what" <=> Lowering(v) = "what")
    BY <2>1, UnitsAre
  <2> HIDE DEF w
  <2>3. Lowering(Lowering(w)) = Lowering(w)
    BY <2>2, UnitsAre
  <2>4. LowerCase(z)[k] = Lowering(w)
    BY <2>1, <2>3
  <2> QED
    BY <2>1, <2>2, <2>4
<1>14. \A u \in Signs : HasUnit(z, u) <=> HasUnit(x, u)
  <2> SUFFICES ASSUME NEW u \in Signs PROVE HasUnit(z, u) <=> HasUnit(x, u)
    OBVIOUS
  <2>1. ASSUME NEW k \in 1 .. m, LowerCase(z)[k] = u PROVE HasUnit(x, u)
    BY <1>6, <1>12, <1>13, <2>1 DEF HasUnit
  <2>2. ASSUME NEW i \in 1 .. n, LowerCase(x)[i] = u PROVE HasUnit(z, u)
    <3>1. x[i] # "blank"
      <4>1. Lowering(x[i]) = u /\ Lowering("blank") = "blank"
        BY <1>11, <2>2 DEF Lowering
      <4> QED
        BY <4>1
    <3>2. PICK k \in 1 .. m : p[k] = i
      BY <1>9, <1>10, <3>1
    <3>3. LowerCase(z)[k] = u
      BY <1>13, <2>2, <3>2
    <3> QED
      BY <1>6, <3>3 DEF HasUnit
  <2> QED
    BY <1>6, <2>1, <2>2 DEF HasUnit
<1>15. Asks(z) <=> Asks(x)
  <2>1. CASE x = <<>>
    <3>1. m = 0
      <4>1. Worth(x) = {}
        BY <1>6, <1>10, <2>1
      <4> QED
        BY <1>6, <1>9, <4>1
    <3> QED
      BY <1>6, <2>1, <3>1 DEF Asks
  <2>2. CASE x # <<>>
    <3>1. n # 0 /\ m # 0 /\ p[1] = 1 /\ p[m] = n /\ 1 \in 1 .. m /\ 1 \in 1 .. n /\ z # <<>>
      BY <1>6, <1>8, <2>2
    <3>2. LowerCase(z)[1] = "what" <=> LowerCase(x)[1] = "what"
      BY <1>13, <3>1
    <3>3. x[1] # "blank"
      BY <1>2, <2>2 DEF Tidy
    <3>4. CASE n = 1
      <4>1. ~(1 < m)
        <5>1. m \in 1 .. m /\ (1 < m => p[1] < p[m])
          BY <1>6, <1>9, <3>1
        <5> QED
          BY <3>1, <3>4, <5>1
      <4>2. m = 1
        BY <1>6, <3>1, <4>1
      <4>3. Len(z) = 1 /\ Len(x) = 1
        BY <1>5, <3>4, <4>2 DEF n, m
      <4> QED
        BY <2>2, <3>1, <3>2, <4>3 DEF Asks
    <3>5. CASE n # 1
      <4>1. 1 + 1 \in 1 .. n /\ 1 + 1 = 2
        BY <1>6, <3>1, <3>5
      <4>2. 2 \in Worth(x)
        BY <1>10, <3>1, <3>3, <4>1
      <4>3. PICK k \in 1 .. m : p[k] = 2
        BY <1>9, <4>2
      <4>4. k # 1 /\ 2 \in 1 .. m /\ (2 = k \/ 2 < k)
        BY <1>6, <3>1, <4>3
      <4>5. p[1] < p[2] /\ (2 < k => p[2] < p[k])
        BY <1>9, <3>1, <4>4
      <4>6. p[2] \in Nat
        BY <1>12, <4>4
      <4>7. p[2] = 2
        BY <3>1, <4>3, <4>4, <4>5, <4>6
      <4>8. z[2] = "blank" <=> x[2] = "blank"
        BY <1>5, <1>9, <4>4, <4>7 DEF m
      <4>9. m # 1
        BY <1>6, <4>4
      <4>10. Len(z) # 1 /\ Len(x) # 1
        BY <1>5, <3>5, <4>9 DEF n, m
      <4> QED
        BY <2>2, <3>1, <3>2, <4>8, <4>10 DEF Asks
    <3> QED
      BY <3>4, <3>5
  <2> QED
    BY <2>1, <2>2
<1>16. /\ HasUnit(z, "apostrophe") <=> HasUnit(x, "apostrophe")
       /\ HasUnit(z, "mark") <=> HasUnit(x, "mark")
       /\ HasUnit(z, "what") <=> HasUnit(x, "what")
  BY <1>14
<1>17. Classify(z) = Classify(x)
  BY <1>7, <1>15, <1>16, ClassifyIs, Zenon
<1> QED
  BY <1>1, <1>17 DEF x

\* A sequence behind another.
LEMMA BehindIs ==
    ASSUME NEW S, NEW s \in Seq(S), NEW t \in Seq(S)
    PROVE  /\ s \o t \in Seq(S) /\ Len(s \o t) = Len(s) + Len(t)
           /\ \A i \in 1 .. Len(s) : (s \o t)[i] = s[i]
           /\ \A i \in 1 .. Len(t) : (s \o t)[Len(s) + i] = t[i]
<1> DEFINE k == s \o t
           l == Len(s)
           m == Len(t)
<1>1. l \in Nat /\ m \in Nat
  BY LenProperties
<1>2. /\ k \in Seq(S) /\ Len(k) = l + m
      /\ \A i \in 1 .. l + m : k[i] = IF i <= l THEN s[i] ELSE t[i - l]
  BY ConcatProperties, Zenon
<1> HIDE DEF k, l, m
<1>3. ASSUME NEW i \in 1 .. l PROVE k[i] = s[i]
  <2>1. i \in 1 .. l + m /\ i <= l
    BY <1>1
  <2> QED
    BY <1>2, <2>1
<1>4. ASSUME NEW i \in 1 .. m PROVE k[l + i] = t[i]
  <2>1. l + i \in 1 .. l + m /\ ~(l + i <= l) /\ l + i - l = i
    BY <1>1
  <2>2. PICK j \in 1 .. l + m : j = l + i
    BY <2>1
  <2>3. ~(j <= l) /\ j - l = i
    BY <1>1, <2>2
  <2>4. k[j] = t[j - l]
    BY <1>2, <2>3, Zenon
  <2> QED
    BY <2>2, <2>3, <2>4, Zenon
<1> QED
  BY <1>2, <1>3, <1>4, Zenon DEF k, l, m

\* Three sequences, one behind the other.
LEMMA JoinedIs ==
    ASSUME NEW S, NEW s \in Seq(S), NEW t \in Seq(S), NEW r \in Seq(S)
    PROVE  LET k == s \o t \o r
           IN  /\ k \in Seq(S) /\ Len(k) = Len(s) + Len(t) + Len(r)
               /\ \A i \in 1 .. Len(s) : k[i] = s[i]
               /\ \A i \in 1 .. Len(t) : k[Len(s) + i] = t[i]
               /\ \A i \in 1 .. Len(r) : k[Len(s) + Len(t) + i] = r[i]
<1> DEFINE u == s \o t
           k == u \o r
           l == Len(s)
           m == Len(t)
           n == Len(r)
           h == Len(u)
<1>1. l \in Nat /\ m \in Nat /\ n \in Nat
  BY LenProperties
<1>2. /\ u \in Seq(S) /\ h = l + m
      /\ \A i \in 1 .. l : u[i] = s[i]
      /\ \A i \in 1 .. m : u[l + i] = t[i]
  BY BehindIs
<1> HIDE DEF u
<1>3. /\ k \in Seq(S) /\ Len(k) = h + n
      /\ \A i \in 1 .. h : k[i] = u[i]
      /\ \A i \in 1 .. n : k[h + i] = r[i]
  <2>1. u \in Seq(S)
    BY <1>2, Zenon
  <2> QED
    BY <2>1, BehindIs
<1> HIDE DEF k, l, m, n, h
<1>4. ASSUME NEW i \in 1 .. l PROVE k[i] = s[i]
  <2>1. i \in 1 .. h
    BY <1>1, <1>2
  <2> QED
    BY <1>2, <1>3, <2>1, Zenon
<1>5. ASSUME NEW i \in 1 .. m PROVE k[l + i] = t[i]
  <2>1. l + i \in 1 .. h
    BY <1>1, <1>2
  <2> QED
    BY <1>2, <1>3, <2>1, Zenon
<1>6. ASSUME NEW i \in 1 .. n PROVE k[l + m + i] = r[i]
  BY <1>2, <1>3, Zenon
<1>7. Len(k) = l + m + n
  BY <1>2, <1>3, Zenon
<1> QED
  BY <1>3, <1>4, <1>5, <1>6, <1>7, Zenon DEF k, l, m, n, u

\* The optional parts of a key.
LEMMA OptionalIs ==
    ASSUME NEW b, NEW S, b.user \in S, b.filter \in S
    PROVE  /\ Optional(b) \in Seq(S)
           /\ b.user = NoKeyUser /\ b.filter = "none" => Len(Optional(b)) = 0
           /\ b.user # NoKeyUser /\ b.filter = "none" =>
                  Len(Optional(b)) = 1 /\ Optional(b)[1] = b.user
           /\ b.user = NoKeyUser /\ b.filter # "none" =>
                  Len(Optional(b)) = 1 /\ Optional(b)[1] = b.filter
           /\ b.user # NoKeyUser /\ b.filter # "none" =>
                  Len(Optional(b)) = 2 /\ Optional(b)[1] = b.user /\ Optional(b)[2] = b.filter
<1> DEFINE u == b.user
           f == b.filter
           s == IF u # NoKeyUser THEN <<u>> ELSE <<>>
           t == IF f # "none" THEN <<f>> ELSE <<>>
           r == s \o t
<1>1. Optional(b) = r
  BY Zenon DEF Optional
<1>2. u \in S /\ f \in S
  OBVIOUS
<1> HIDE DEF u, f
<1>3. <<u>> \in Seq(S) /\ Len(<<u>>) = 1 /\ <<u>>[1] = u /\ <<f>> \in Seq(S) /\ Len(<<f>>) = 1
      /\ <<f>>[1] = f /\ <<>> \in Seq(S) /\ Len(<<>>) = 0
  BY <1>2
<1>4. /\ s \in Seq(S) /\ (u # NoKeyUser => Len(s) = 1 /\ s[1] = u) /\ (u = NoKeyUser => Len(s) = 0)
      /\ t \in Seq(S) /\ (f # "none" => Len(t) = 1 /\ t[1] = f) /\ (f = "none" => Len(t) = 0)
  BY <1>3, Zenon
<1> HIDE DEF s, t
<1> DEFINE l == Len(s)
           m == Len(t)
<1>5. /\ r \in Seq(S) /\ Len(r) = l + m
      /\ \A i \in 1 .. l : r[i] = s[i]
      /\ \A i \in 1 .. m : r[l + i] = t[i]
  BY <1>4, BehindIs
<1> HIDE DEF r, l, m
<1>6. /\ u # NoKeyUser => l = 1 /\ s[1] = u
      /\ u = NoKeyUser => l = 0
      /\ f # "none" => m = 1 /\ t[1] = f
      /\ f = "none" => m = 0
  BY <1>4, Zenon DEF l, m
<1>7. (l = 1 => r[1] = s[1]) /\ (m = 1 => r[l + 1] = t[1])
  BY <1>5
<1>8. u = NoKeyUser /\ f = "none" => Len(r) = 0
  BY <1>5, <1>6
<1>9. u # NoKeyUser /\ f = "none" => Len(r) = 1 /\ r[1] = u
  BY <1>5, <1>6, <1>7
<1>10. u = NoKeyUser /\ f # "none" => Len(r) = 1 /\ r[1] = f
  BY <1>5, <1>6, <1>7
<1>11. u # NoKeyUser /\ f # "none" => Len(r) = 2 /\ r[1] = u /\ r[2] = f
  BY <1>5, <1>6, <1>7
<1> QED
  BY <1>1, <1>5, <1>8, <1>9, <1>10, <1>11, Zenon DEF u, f

\* What stands where in a key that is built.
LEMMA BuiltIs ==
    ASSUME NEW b \in Builders
    PROVE  LET m == Len(b.prefix)
               k == Built(b)
               o == Optional(b)
           IN  /\ m \in {1, 2} /\ (m = 1 => b.prefix = <<"ret">>)
               /\ m = 2 => b.prefix = <<"ret", "query">> /\ k[2] = "query"
               /\ Len(o) \in Nat /\ Len(k) = m + 4 + Len(o)
               /\ k[m + 1] = b.tenant /\ k[m + 2] = NormalizedQuery(b.query)
               /\ k[m + 3] = b.mode /\ k[m + 4] = b.top
               /\ \A i \in 1 .. Len(o) : k[m + 4 + i] = o[i]
<1> DEFINE q == NormalizedQuery(b.query)
           t == <<b.tenant, q, b.mode, b.top>>
           o == Optional(b)
           S == {"ret", "query", b.tenant, q, b.mode, b.top, b.user, b.filter}
           k == b.prefix \o t \o o
           m == Len(b.prefix)
<1>1. b.prefix = <<"ret">> \/ b.prefix = <<"ret", "query">>
  BY DEF Builders
<1>2. Built(b) = k
  BY Zenon DEF Built
<1>3. /\ "ret" \in S /\ "query" \in S /\ b.tenant \in S /\ q \in S /\ b.mode \in S /\ b.top \in S
      /\ b.user \in S /\ b.filter \in S
  OBVIOUS
<1> HIDE DEF S
<1>4. o \in Seq(S) /\ Len(o) \in Nat
  BY <1>3, OptionalIs, LenProperties
<1> HIDE DEF o, q
<1>5. t \in Seq(S) /\ Len(t) = 4 /\ t[1] = b.tenant /\ t[2] = q /\ t[3] = b.mode /\ t[4] = b.top
  BY <1>3
<1>6. /\ b.prefix \in Seq(S) /\ m \in {1, 2} /\ (m = 1 => b.prefix = <<"ret">>)
      /\ (m = 2 => b.prefix = <<"ret", "query">> /\ b.prefix[2] = "query")
  <2>1. CASE b.prefix = <<"ret">>
    BY <1>3, <2>1
  <2>2. CASE b.prefix = <<"ret", "query">>
    BY <1>3, <2>2
  <2> QED
    BY <1>1, <2>1, <2>2
<1> HIDE DEF t
<1>7. /\ Len(k) = m + 4 + Len(o)
      /\ \A i \in 1 .. m : k[i] = b.prefix[i]
      /\ \A i \in 1 .. 4 : k[m + i] = t[i]
      /\ \A i \in 1 .. Len(o) : k[m + 4 + i] = o[i]
  <2>1. b.prefix \in Seq(S) /\ t \in Seq(S) /\ o \in Seq(S)
    BY <1>4, <1>5, <1>6, Zenon
  <2>2. Len(t) = 4
    BY <1>5, Zenon
  <2> DEFINE p == b.prefix
  <2> HIDE DEF p
  <2>3. p \in Seq(S) /\ t \in Seq(S) /\ o \in Seq(S)
    BY <2>1, Zenon DEF p
  <2>4. LET j == p \o t \o o
        IN  /\ j \in Seq(S) /\ Len(j) = Len(p) + Len(t) + Len(o)
            /\ \A i \in 1 .. Len(p) : j[i] = p[i]
            /\ \A i \in 1 .. Len(t) : j[Len(p) + i] = t[i]
            /\ \A i \in 1 .. Len(o) : j[Len(p) + Len(t) + i] = o[i]
    BY <2>3, JoinedIs
  <2> QED
    BY <2>2, <2>4, Zenon DEF p
<1> HIDE DEF k, m
<1>8. k[m + 1] = t[1] /\ k[m + 2] = t[2] /\ k[m + 3] = t[3] /\ k[m + 4] = t[4]
  BY <1>7
<1>9. m = 2 => k[2] = "query"
  BY <1>6, <1>7
<1> QED
  BY <1>2, <1>4, <1>5, <1>6, <1>7, <1>8, <1>9 DEF m, o, q

\* Equal keys are those of equal requests.
LEMMA BuiltSeparates ==
    ASSUME NEW b \in Builders, NEW c \in Builders, Built(b) = Built(c)
    PROVE  Asked(b) = Asked(c)
<1>1. /\ b.tenant \in KeyTenants /\ b.user \in KeyUsers \cup {NoKeyUser}
      /\ b.filter \in {"none"} \cup FilterHashes
      /\ c.tenant \in KeyTenants /\ c.user \in KeyUsers \cup {NoKeyUser}
      /\ c.filter \in {"none"} \cup FilterHashes
  BY DEF Builders
<1>2. "query" \notin KeyTenants /\ KeyUsers \cap FilterHashes = {} /\ NoKeyUser \notin KeyUsers
      /\ "none" \notin FilterHashes
  BY RequestTextAssumption DEF KeysConfigured, FilterHashes
<1> DEFINE k == Built(b)
           m == Len(b.prefix)
           n == Len(c.prefix)
           o == Optional(b)
           r == Optional(c)
<1>3. /\ m \in {1, 2} /\ (m = 1 => b.prefix = <<"ret">>)
      /\ (m = 2 => b.prefix = <<"ret", "query">> /\ k[2] = "query")
      /\ Len(o) \in Nat /\ Len(k) = m + 4 + Len(o)
      /\ k[m + 1] = b.tenant /\ k[m + 2] = NormalizedQuery(b.query)
      /\ k[m + 3] = b.mode /\ k[m + 4] = b.top
      /\ \A i \in 1 .. Len(o) : k[m + 4 + i] = o[i]
  BY BuiltIs
<1>4. /\ n \in {1, 2} /\ (n = 1 => c.prefix = <<"ret">>)
      /\ (n = 2 => c.prefix = <<"ret", "query">> /\ k[2] = "query")
      /\ Len(r) \in Nat /\ Len(k) = n + 4 + Len(r)
      /\ k[n + 1] = c.tenant /\ k[n + 2] = NormalizedQuery(c.query)
      /\ k[n + 3] = c.mode /\ k[n + 4] = c.top
      /\ \A i \in 1 .. Len(r) : k[n + 4 + i] = r[i]
  BY BuiltIs
<1> DEFINE S == {b.user, b.filter, c.user, c.filter}
<1>5. b.user \in S /\ b.filter \in S /\ c.user \in S /\ c.filter \in S
  OBVIOUS
<1> HIDE DEF S
<1>6. /\ b.user = NoKeyUser /\ b.filter = "none" => Len(o) = 0
      /\ b.user # NoKeyUser /\ b.filter = "none" => Len(o) = 1 /\ o[1] = b.user
      /\ b.user = NoKeyUser /\ b.filter # "none" => Len(o) = 1 /\ o[1] = b.filter
      /\ b.user # NoKeyUser /\ b.filter # "none" =>
             Len(o) = 2 /\ o[1] = b.user /\ o[2] = b.filter
  BY <1>5, OptionalIs
<1>7. /\ c.user = NoKeyUser /\ c.filter = "none" => Len(r) = 0
      /\ c.user # NoKeyUser /\ c.filter = "none" => Len(r) = 1 /\ r[1] = c.user
      /\ c.user = NoKeyUser /\ c.filter # "none" => Len(r) = 1 /\ r[1] = c.filter
      /\ c.user # NoKeyUser /\ c.filter # "none" =>
             Len(r) = 2 /\ r[1] = c.user /\ r[2] = c.filter
  BY <1>5, OptionalIs
<1> HIDE DEF k, m, n, o, r
<1>8. m = n
  <2>1. m = 2 /\ n = 1 => FALSE
    <3> SUFFICES ASSUME m = 2, n = 1 PROVE FALSE
      OBVIOUS
    <3>1. k[2] = "query" /\ k[2] = c.tenant
      BY <1>3, <1>4
    <3> QED
      BY <1>1, <1>2, <3>1
  <2>2. m = 1 /\ n = 2 => FALSE
    <3> SUFFICES ASSUME m = 1, n = 2 PROVE FALSE
      OBVIOUS
    <3>1. k[2] = "query" /\ k[2] = b.tenant
      BY <1>3, <1>4
    <3> QED
      BY <1>1, <1>2, <3>1
  <2> QED
    BY <1>3, <1>4, <2>1, <2>2
<1>9. /\ b.prefix = c.prefix /\ b.tenant = c.tenant /\ b.mode = c.mode /\ b.top = c.top
      /\ NormalizedQuery(b.query) = NormalizedQuery(c.query)
  BY <1>3, <1>4, <1>8
<1>10. Len(o) = Len(r)
  BY <1>3, <1>4, <1>8
<1>11. \A i \in 1 .. Len(o) : o[i] = r[i]
  BY <1>3, <1>4, <1>8, <1>10
<1>12. (Len(o) = 1 \/ Len(o) = 2 => o[1] = r[1]) /\ (Len(o) = 2 => o[2] = r[2])
  BY <1>11
<1>13. b.user = c.user /\ b.filter = c.filter
  BY <1>1, <1>2, <1>6, <1>7, <1>10, <1>12
<1> DEFINE q == NormalizedQuery(b.query)
<1>14. Asked(b) = [prefix |-> b.prefix, tenant |-> b.tenant, query |-> q, mode |-> b.mode,
                   top |-> b.top, user |-> b.user, filter |-> b.filter]
  BY DEF Asked, Builders
<1>15. Asked(c) = [prefix |-> c.prefix, tenant |-> c.tenant, query |-> NormalizedQuery(c.query),
                   mode |-> c.mode, top |-> c.top, user |-> c.user, filter |-> c.filter]
  BY DEF Asked, Builders
<1> QED
  BY <1>9, <1>13, <1>14, <1>15

\* A shared key is read back as it was written, and with a prefix as none.
LEMMA KeyReadBack ==
    ASSUME NEW key \in CacheKeys, NEW prefix \in {"none", "ing", "app"}
    PROVE  Parsed(Prefixed(prefix, key)) = IF prefix = "none" THEN {key} ELSE {}
<1>1. /\ key.service \in Services /\ key.kind \in KeyKinds /\ key.tenant \in KeyTenants
      /\ key.id \in Identifiers
      /\ key = [service |-> key.service, kind |-> key.kind, tenant |-> key.tenant, id |-> key.id]
  BY DEF CacheKeys
<1>2. key.id \in Seq({"a", "ing", "empty"}) /\ key.id # <<>>
  <2> DEFINE A == {"a", "ing", "empty"}
  <2>1. PICK n \in 0 .. 3 : key.id \in [1 .. n -> A]
    BY <1>1, Zenon DEF Identifiers, SeqOf
  <2> HIDE DEF A
  <2>2. key.id \in Seq(A)
    BY <2>1, SeqDef
  <2>3. key.id # <<>>
    BY <1>1, Zenon DEF Identifiers
  <2> QED
    BY <2>2, <2>3 DEF A
<1> DEFINE h == <<key.service, key.kind, key.tenant>>
           d == h \o key.id
           S == {"a", "ing", "empty", "app", key.service, key.kind, key.tenant}
           A == {"a", "ing", "empty"}
<1>3. /\ "ing" \in S /\ "app" \in S /\ key.service \in S /\ key.kind \in S /\ key.tenant \in S
      /\ A \in SUBSET S
  OBVIOUS
<1>4. Displayed(key) = d
  BY Zenon DEF Displayed
<1>5. key.id \in Seq(A)
  BY <1>2
<1> HIDE DEF S, A
<1>6. key.id \in Seq(S) /\ Len(key.id) \in Nat \ {0}
  BY <1>2, <1>3, <1>5, EmptySeq
<1>7. h \in Seq(S) /\ Len(h) = 3 /\ h[1] = key.service /\ h[2] = key.kind /\ h[3] = key.tenant
  BY <1>3
<1> HIDE DEF h
<1> DEFINE l == Len(key.id)
<1>8. /\ d \in Seq(S) /\ Len(d) = 3 + l
      /\ \A i \in 1 .. 3 : d[i] = h[i]
      /\ \A i \in 1 .. l : d[3 + i] = key.id[i]
  <2> DEFINE g == key.id
  <2> HIDE DEF g
  <2>1. h \in Seq(S) /\ g \in Seq(S)
    BY <1>6, <1>7, Zenon DEF g
  <2>2. /\ h \o g \in Seq(S) /\ Len(h \o g) = Len(h) + Len(g)
        /\ \A i \in 1 .. Len(h) : (h \o g)[i] = h[i]
        /\ \A i \in 1 .. Len(g) : (h \o g)[Len(h) + i] = g[i]
    BY <2>1, BehindIs
  <2> QED
    BY <1>7, <2>2, Zenon DEF g
<1> HIDE DEF d, l
<1>9. /\ Len(d) >= 4 /\ Len(d) \in Nat /\ l \in Nat
      /\ d[1] = key.service /\ d[2] = key.kind /\ d[3] = key.tenant
  BY <1>6, <1>7, <1>8 DEF l
<1>10. Identifier(d) = key.id
  <2> DEFINE s == SubSeq(d, 4, Len(d))
  <2>1. \A i \in 4 .. Len(d) : d[i] \in S
    BY <1>8, <1>9, LenProperties
  <2>2. s \in Seq(S) /\ Len(s) = l /\ \A i \in 1 .. l : s[i] = d[4 + i - 1]
    <3>1. 4 \in Int /\ Len(d) \in Int /\ 4 <= Len(d) /\ Len(d) - 4 + 1 = l
      BY <1>8, <1>9
    <3> QED
      BY <2>1, <3>1, SubSeqProperties
  <2>3. \A i \in 1 .. l : s[i] = key.id[i]
    <3> SUFFICES ASSUME NEW i \in 1 .. l PROVE s[i] = key.id[i]
      OBVIOUS
    <3>1. 4 + i - 1 = 3 + i
      BY <1>9
    <3>2. s[i] = d[3 + i]
      BY <2>2, <3>1, Zenon
    <3> QED
      BY <1>8, <3>2, Zenon
  <2> HIDE DEF s
  <2>4. s = key.id
    BY <1>6, <2>2, <2>3, SeqEqual DEF l
  <2> QED
    BY <2>4 DEF Identifier, s
<1>11. CASE prefix = "none"
  <2>1. Prefixed(prefix, key) = d
    BY <1>4, <1>11, Zenon DEF Prefixed
  <2>2. Parsed(d) = {[service |-> d[1], kind |-> d[2], tenant |-> d[3], id |-> Identifier(d)]}
    BY <1>1, <1>9, Zenon DEF Parsed
  <2>3. Parsed(d) = {key}
    BY <1>1, <1>9, <1>10, <2>2, Zenon
  <2> QED
    BY <1>11, <2>1, <2>3, Zenon
<1>12. CASE prefix \in {"ing", "app"}
  <2>1. prefix # "none" /\ prefix \in S
    BY <1>3, <1>12, Zenon
  <2> DEFINE e == <<prefix>> \o d
  <2>2. Prefixed(prefix, key) = e
    BY <1>4, <2>1, Zenon DEF Prefixed
  <2>3. <<prefix>> \in Seq(S) /\ Len(<<prefix>>) = 1 /\ <<prefix>>[1] = prefix
    BY <2>1
  <2> DEFINE p == <<prefix>>
  <2> HIDE DEF p
  <2>4. /\ Len(p \o d) = 1 + Len(d)
        /\ \A i \in 1 .. 1 + Len(d) : (p \o d)[i] = IF i <= 1 THEN p[i] ELSE d[i - 1]
    BY <1>8, <2>3, ConcatProperties DEF p
  <2>5. 2 \in 1 .. 1 + Len(d) /\ ~(2 <= 1) /\ 2 - 1 = 1
    BY <1>9
  <2>6. (p \o d)[2] = key.service
    BY <1>9, <2>4, <2>5
  <2>7. e[2] = key.service
    BY <2>6 DEF p
  <2>8. key.service \notin KeyKinds
    BY <1>1 DEF Services, KeyKinds
  <2>9. Parsed(e) = {}
    BY <2>7, <2>8, Zenon DEF Parsed
  <2> QED
    BY <2>1, <2>2, <2>9, Zenon
<1> QED
  BY <1>11, <1>12

\* What an input is made of.
TextInv ==
    /\ vetted.kind = "query" =>
           /\ vetted.text \in Writings
           /\ vetted.config \in {ByDefault, [ByDefault EXCEPT !.unmark = TRUE]}
    /\ vetted.kind = "built" => vetted.builder \in Builders
    /\ vetted.kind = "key" => vetted.key \in CacheKeys /\ vetted.prefix \in {"none", "ing", "app"}

\* No input is there at first.
LEMMA TextStart == TextInit => TextInv
  BY DEF TextInit, Unvetted, TextInv

\* Every step makes one of these inputs.
LEMMA TextStep ==
    ASSUME TextInv, [TextNext]_vetted
    PROVE  TextInv'
<1>1. ASSUME NEW query \in Writings,
             NEW config \in {ByDefault, [ByDefault EXCEPT !.unmark = TRUE]},
             vetted' = [kind |-> "query", text |-> query, config |-> config]
      PROVE  TextInv'
  BY <1>1 DEF TextInv
<1>2. ASSUME NEW b \in Builders, vetted' = [kind |-> "built", builder |-> b]
      PROVE  TextInv'
  BY <1>2 DEF TextInv
<1>3. ASSUME NEW key \in CacheKeys, NEW prefix \in {"none", "ing", "app"},
             vetted' = [kind |-> "key", key |-> key, prefix |-> prefix]
      PROVE  TextInv'
  BY <1>3 DEF TextInv
<1>4. ASSUME VetFilters PROVE TextInv'
  <2>1. vetted'.kind \in {"filters", "multi"}
    BY <1>4 DEF VetFilters
  <2> QED
    BY <2>1 DEF TextInv
<1>5. CASE UNCHANGED vetted
  BY <1>5 DEF TextInv
<1> QED
  BY <1>1, <1>2, <1>3, <1>4, <1>5 DEF TextNext, VetQuery, BuildCacheKey

\* The texts are sequences of units.
LEMMA WritingsAre == ASSUME NEW query \in Writings PROVE query \in Seq(Units)
<1>1. PICK n \in 0 .. MaxUnits : query \in [1 .. n -> Units]
  BY Zenon DEF Writings, SeqOf
<1> QED
  BY <1>1, SeqDef, RequestTextAssumption

\* The one configuration without unmark is the default one.
LEMMA OnlyByDefault ==
    ASSUME NEW config \in {ByDefault, [ByDefault EXCEPT !.unmark = TRUE]}, ~config.unmark
    PROVE  config = ByDefault
  BY DEF ByDefault

\* A simple filter that is valid is taken whole.
LEMMA FiltersTaken ==
    ASSUME NEW object, ~Structured(object), ValidateFilters(object)
    PROVE  ParseFilters(object) = {[conditions |-> DOMAIN object \ {"tenant_id"}]}
<1> DEFINE asked == DOMAIN object \ {"tenant_id"}
<1>1. \A k \in DOMAIN object : object[k] \in {"text", "texts", "none"}
  BY Zenon DEF ValidateFilters
<1>2. \A k \in asked : Takes(object[k])
  BY <1>1, Zenon DEF Takes
<1>3. ParseFilters(object) =
          IF \A k \in asked : Takes(object[k]) THEN {[conditions |-> asked]} ELSE {}
  BY Zenon DEF ParseFilters
<1> QED
  BY <1>2, <1>3, Zenon

\* No filters are valid filters.
LEMMA NoFiltersTaken == ValidateFilters(<<>>)
<1>1. DOMAIN <<>> = {}
  OBVIOUS
<1> QED
  BY <1>1, Zenon DEF ValidateFilters, Structured

\* In every state that the steps reach, a text and a key are read alike.
LEMMA TextKept ==
    ASSUME TextInv
    PROVE  RequestsReadAlike
<1>1. PreprocessedOnce /\ ClassOfMeaning /\ KeyKeepsMeaning
  <2> SUFFICES ASSUME vetted.kind = "query"
               PROVE  PreprocessedOnce /\ ClassOfMeaning /\ KeyKeepsMeaning
    BY Zenon DEF PreprocessedOnce, ClassOfMeaning, KeyKeepsMeaning
  <2> DEFINE query == vetted.text
             config == vetted.config
  <2>1. query \in Seq(Units) /\ (~config.unmark => config = ByDefault)
    BY WritingsAre, OnlyByDefault DEF TextInv
  <2>2. PreprocessedOnce
    BY <2>1, PreprocessedSame, PreprocessedSize, Zenon DEF PreprocessedOnce
  <2>3. ClassOfMeaning
    BY <2>1, ClassKept, Zenon DEF ClassOfMeaning
  <2>4. KeyKeepsMeaning
    BY <2>1, NormalSaysSame, Zenon DEF KeyKeepsMeaning
  <2> QED
    BY <2>2, <2>3, <2>4
<1>2. BuiltKeysSeparate
  BY BuiltSeparates, Zenon DEF TextInv, BuiltKeysSeparate
<1>3. KeysReadBack
  BY KeyReadBack, Zenon DEF TextInv, KeysReadBack
<1>4. SimpleFiltersTaken
  <2>1. ASSUME NEW query, NEW top, NEW object, ValidateSingle(query, top, object)
        PROVE  ValidateFilters(object)
    BY <2>1 DEF ValidateSingle
  <2> QED
    BY <2>1, FiltersTaken, Zenon DEF SimpleFiltersTaken
<1>5. MultiWithinSingle
  <2>1. ASSUME NEW r, ValidateMulti(r), NEW i \in DOMAIN r.queries
        PROVE  ValidateSingle(r.queries[i], r.top, <<>>)
    <3> DEFINE Lengths == 1 .. 2000
               Tops == 1 .. 100
    <3>1. r.queries[i] \in Lengths /\ r.top \in Tops
      BY <2>1 DEF ValidateMulti
    <3>2. ASSUME NEW query \in Lengths, NEW top \in Tops, NEW object, ValidateFilters(object)
          PROVE  ValidateSingle(query, top, object)
      BY <3>2 DEF ValidateSingle
    <3> HIDE DEF Lengths, Tops
    <3> QED
      BY ONLY <3>1, <3>2, NoFiltersTaken, SMTT(30)
  <2> QED
    BY <2>1 DEF MultiWithinSingle
<1> QED
  BY <1>1, <1>2, <1>3, <1>4, <1>5, Zenon DEF RequestsReadAlike, KeysFaithful

\* What one check of a request accepts the next one accepts and reads alike, a cache
\* key tells apart what differs in more than the case of its query, and the
\* preprocessor changes a query once and never its class, for every length of a text,
\* limit, tenant and user (requests.rs, search.rs, multi.rs, keys.rs, preprocessor.rs).
THEOREM TextsReadAlike == TextSpec => []RequestsReadAlike
<1>1. TextSpec => []TextInv
  BY TextStart, TextStep, PTL DEF TextSpec
<1> QED
  BY <1>1, TextKept, PTL
=============================================================================
