--------------------------- MODULE AccessControl ---------------------------
(***************************************************************************)
(* Who may read which document, as the retrieval service computes it many  *)
(* times over: ACLFilter.can_access (acl/filter.rs, again in               *)
(* acl/evaluation.rs), ACLFilter.build_filter with its Qdrant and          *)
(* OpenSearch builders, the filters SemanticSearcher and KeywordSearcher   *)
(* really send, and UserContext.can_access_full, which the routes apply to *)
(* the results.  The module also follows the filters of a request from     *)
(* parse_filters to the two stores.                                        *)
(*                                                                         *)
(* One check is one value of access: a user, a document and the conditions *)
(* of a request.                                                           *)
(***************************************************************************)
EXTENDS Sequences, SequencesExt

CONSTANTS
    Users, Groups, Tenants,
    SuperTenant,        \* super_tenant_id, or NoTenant
    NoOwner, NoTenant,
    Requesters,         \* the user contexts whose checks are considered
    AclConfigs,         \* the configurations whose checks are considered
    Docs,               \* values of document_id
    Sources,            \* values of source_type
    Custom,             \* values of the other keys that a request may name
    Analysed(_),        \* the values that are terms of an analysed text
    Requested,          \* the conditions considered in requests
    MaxConditions       \* bound: conditions of one request

VARIABLE access

----------------------------------------------------------------------------
(* Data.                                                                   *)

Visibility == {"public", "private", "group", "tenant"}

\* acl/config.rs: the switches of ACLFilterConfig.
Configs == [enabled : BOOLEAN, adminBypass : BOOLEAN,
            superTenant : {SuperTenant, NoTenant}]

DefaultConfig == [enabled |-> TRUE, adminBypass |-> TRUE, superTenant |-> NoTenant]

IsSuperTenant(config, tenant) ==
    config.superTenant # NoTenant /\ config.superTenant = tenant

UserContexts == [id : Users, tenant : Tenants, groups : SUBSET Groups, admin : BOOLEAN]

FullAcls == [visibility : Visibility, owner : Users \cup {NoOwner},
             allowedGroups : SUBSET Groups, allowedUsers : SUBSET Users,
             deniedGroups : SUBSET Groups, deniedUsers : SUBSET Users]

ASSUME AccessAssumption ==
    /\ NoTenant \notin Tenants /\ NoOwner \notin Users
    /\ Requesters \subseteq UserContexts
    /\ AclConfigs \subseteq Configs
    /\ MaxConditions \in Nat

\* The keys that SearchFilters has a field for.
NamedKeys == {"source_type", "document_id", "allowed_groups"}

\* What the stores hold of a document: its identity and its ACL.
Documents == [tenant : Tenants, status : {"active", "deleted"}, acl : FullAcls,
              id : Docs, source : Sources]

----------------------------------------------------------------------------
(* The direct checks.                                                      *)

Shares(groups, list) == groups \cap list # {}

\* The visibility rules the three direct checks end in.
Granted(user, acl) ==
    \/ acl.visibility \in {"public", "tenant"}
    \/ acl.visibility = "group" /\ Shares(user.groups, acl.allowedGroups)
    \/ acl.visibility \in {"private", "group"} /\ user.id \in acl.allowedUsers
    \/ acl.visibility \in {"private", "group"} /\ acl.owner = user.id

Denied(user, acl) ==
    user.id \in acl.deniedUsers \/ Shares(user.groups, acl.deniedGroups)

\* acl/filter.rs ACLFilter.can_access.
CanAccess(config, user, doc) ==
    \/ ~config.enabled
    \/ config.adminBypass /\ user.admin
    \/ /\ IsSuperTenant(config, user.tenant) \/ user.tenant = doc.tenant
       /\ ~Denied(user, doc.acl)
       /\ Granted(user, doc.acl)

\* acl/evaluation.rs can_access: the same check, written a second time with
\* an early return per condition.
EvaluateAccess(config, user, doc) ==
    CASE ~config.enabled -> TRUE
      [] config.enabled /\ config.adminBypass /\ user.admin -> TRUE
      [] OTHER ->
            /\ ~(~IsSuperTenant(config, user.tenant) /\ user.tenant # doc.tenant)
            /\ user.id \notin doc.acl.deniedUsers
            /\ ~(doc.acl.deniedGroups # {} /\ Shares(user.groups, doc.acl.deniedGroups))
            /\ Granted(user, doc.acl)

\* UserContext.can_access: what the explain route asks; no owner, no deny lists.
CanAccessBasic(user, acl) ==
    \/ user.admin
    \/ acl.visibility \in {"public", "tenant"}
    \/ acl.visibility = "group" /\ Shares(user.groups, acl.allowedGroups)

\* UserContext.can_access_full: what the search routes ask of every result;
\* the tenant is the stores' business.
CanAccessFull(user, acl) ==
    user.admin \/ (~Denied(user, acl) /\ Granted(user, acl))

\* ACLFilter.filter_results: the results of a list that may be read.
FilterResults(config, user, docs) ==
    IF ~config.enabled \/ (config.adminBypass /\ user.admin) THEN docs
    ELSE {d \in docs : CanAccess(config, user, d)}
----------------------------------------------------------------------------
(* The unified filter and its two translations.                            *)

\* MatchType::Value(v) and MatchType::Any(vs); vs is ordered.
ValueOf(key, v) == [key |-> key, kind |-> "value", values |-> <<v>>]
AnyOf(key, vs)  == [key |-> key, kind |-> "any", values |-> vs]

\* UnifiedFilter::merge appends the lists of the other filter.
EmptyFilter == [must |-> {}, should |-> {}, mustNot |-> {}]
Merge(f, g) == [must |-> f.must \cup g.must, should |-> f.should \cup g.should,
                mustNot |-> f.mustNot \cup g.mustNot]
IsEmptyFilter(f) == f = EmptyFilter

\* The values a document has under a key: HasACLFields, the payload in Qdrant.
Field(doc, key) ==
    CASE key = "tenant_id"      -> {doc.tenant}
      [] key = "status"         -> {doc.status}
      [] key = "visibility"     -> {doc.acl.visibility}
      [] key = "allowed_groups" -> doc.acl.allowedGroups
      [] key = "allowed_users"  -> doc.acl.allowedUsers
      [] key = "denied_groups"  -> doc.acl.deniedGroups
      [] key = "denied_users"   -> doc.acl.deniedUsers
      [] key = "owner_id"       -> {doc.acl.owner}
      [] key = "document_id"    -> {doc.id}
      [] key = "source_type"    -> {doc.source}
      [] OTHER                  -> {}

\* A list field matches when one of its values does.
Matches(condition, doc) ==
    \E v \in Field(doc, condition.key) :
        \E i \in DOMAIN condition.values : condition.values[i] = v

\* A condition whose values are a set; the order matters only where
\* convert_to_*_filters takes the first.
AnyOfSet(key, S) == [key |-> key, kind |-> "any", values |-> [x \in S |-> x]]

\* Mutant of AclClauses: no clause for the owner.
AclClausesNoOwner(config, user) ==
    [must |-> {ValueOf("status", "active"), ValueOf("tenant_id", user.tenant)},
     should |-> {ValueOf("visibility", "public"), ValueOf("visibility", "tenant"),
                 AnyOf("allowed_users", <<user.id>>), AnyOfSet("allowed_groups", user.groups)},
     mustNot |-> {AnyOf("denied_users", <<user.id>>), AnyOfSet("denied_groups", user.groups)}]

\* ACLFilter.build_acl_clauses.
AclClauses(config, user) ==
    [must |-> {ValueOf("status", "active")}
                \cup (IF IsSuperTenant(config, user.tenant) THEN {}
                      ELSE {ValueOf("tenant_id", user.tenant)}),
     should |-> {ValueOf("visibility", "public"), ValueOf("visibility", "tenant"),
                 AnyOf("allowed_users", <<user.id>>), ValueOf("owner_id", user.id)}
                \cup (IF user.groups = {} THEN {}
                      ELSE {AnyOfSet("allowed_groups", user.groups)}),
     mustNot |-> {AnyOf("denied_users", <<user.id>>)}
                \cup (IF user.groups = {} THEN {}
                      ELSE {AnyOfSet("denied_groups", user.groups)})]

\* ACLFilter.build_filter; extra is the caller's filter, empty if none.
BuildFilter(config, user, extra) ==
    IF ~config.enabled \/ (config.adminBypass /\ user.admin) THEN Merge(EmptyFilter, extra)
    ELSE Merge(AclClauses(config, user), extra)

\* QdrantFilterBuilder::build and Qdrant's reading of a filter: no filter
\* matches everything, an empty should list does not constrain.
QdrantMatches(f, doc) ==
    \/ IsEmptyFilter(f)
    \/ /\ \A c \in f.must : Matches(c, doc)
       /\ \A c \in f.mustNot : ~Matches(c, doc)
       /\ f.should = {} \/ \E c \in f.should : Matches(c, doc)

\* OpenSearchFilterBuilder::build: the clauses of a bool query's filter array.
OpenSearchClauses(f) ==
    {[op |-> "term", of |-> {c}] : c \in f.must}
      \cup (IF f.should = {} THEN {} ELSE {[op |-> "should", of |-> f.should]})
      \cup (IF f.mustNot = {} THEN {} ELSE {[op |-> "must_not", of |-> f.mustNot]})

OpenSearchMatches(clauses, doc) ==
    \A clause \in clauses :
        CASE clause.op = "term"     -> \A c \in clause.of : Matches(c, doc)
          [] clause.op = "should"   -> \E c \in clause.of : Matches(c, doc)
          [] clause.op = "must_not" -> \A c \in clause.of : ~Matches(c, doc)
----------------------------------------------------------------------------
(* The filters of a request, and what the two searchers send.              *)

\* The text fields of a chunk in OpenSearch whose `.keyword` subfields hold the
\* values unanalysed.
ExactSubfields ==
    [k \in {"tenant_id.keyword", "document_id.keyword", "visibility.keyword",
            "allowed_groups.keyword", "allowed_users.keyword", "owner_id.keyword"} |->
        CASE k = "tenant_id.keyword"      -> "tenant_id"
          [] k = "document_id.keyword"    -> "document_id"
          [] k = "visibility.keyword"     -> "visibility"
          [] k = "allowed_groups.keyword" -> "allowed_groups"
          [] k = "allowed_users.keyword"  -> "allowed_users"
          [] k = "owner_id.keyword"       -> "owner_id"]

\* The values that a term query finds under a key in the keyword store.  Nothing
\* creates its index with a mapping, so a text is found by its terms and its
\* value is under a subfield; write_to_opensearch has no source_type field.
Terms(doc, key) ==
    IF key \in DOMAIN ExactSubfields THEN Field(doc, ExactSubfields[key])
    ELSE IF key \in {"source_type", "status"} THEN {}
    ELSE UNION {Analysed(v) : v \in Field(doc, key)}

\* Conditions a request may carry once parse_filters accepted it: every entry
\* is a must condition, under any key; a string gives a Value and an array an Any.
RequestValues(key) ==
    CASE key = "source_type"    -> Sources
      [] key = "document_id"    -> Docs
      [] key = "allowed_groups" -> Groups
      [] key \in DOMAIN Custom  -> Custom[key]

RequestConditions ==
    UNION {{ValueOf(key, v) : v \in RequestValues(key)}
             \cup {AnyOf(key, vs) : vs \in SeqOf(RequestValues(key), 2)}
           : key \in NamedKeys \cup DOMAIN Custom}

ASSUME ConditionsAssumption ==
    Requested \subseteq RequestConditions /\ DOMAIN Custom \cap NamedKeys = {}

\* convert_to_semantic_filters: for source_type and document_id only a Value
\* counts, and of several the last; allowed_groups keeps the last condition's
\* values.
LastValues(conditions, key, kinds) ==
    LET at == {i \in DOMAIN conditions : conditions[i].key = key /\ conditions[i].kind \in kinds}
    IN IF at = {} THEN <<>> ELSE conditions[Max(at)].values

\* Of the conditions on another key the last with a value, and its first value,
\* since a custom filter holds one.
CustomConditions(conditions) ==
    LET said == {i \in DOMAIN conditions :
                    conditions[i].key \notin NamedKeys /\ conditions[i].values # <<>>}
        last == {i \in said : \A j \in said : conditions[j].key = conditions[i].key => j <= i}
    IN {ValueOf(conditions[i].key, conditions[i].values[1]) : i \in last}

ConvertFilters(conditions) ==
    [custom |-> CustomConditions(conditions),
     source |-> LastValues(conditions, "source_type", {"value"}),
     document |-> LastValues(conditions, "document_id", {"value"}),
     groups |-> LastValues(conditions, "allowed_groups", {"value", "any"})]

\* Mutant of ConvertKeywordFilters: the first condition of a key counts.
ConvertKeywordFiltersFirst(conditions) == ConvertFilters(Reverse(conditions))

\* convert_to_keyword_filters is written out a second time and does the same.
ConvertKeywordFilters(conditions) == ConvertFilters(conditions)

Unless(absent, condition) == IF absent THEN {} ELSE {condition}

\* SemanticSearcher.build_filter.
SemanticFilter(user, filters) ==
    [must |-> {ValueOf("tenant_id", user.tenant)}
                \cup Unless(filters.source = <<>>, AnyOf("source_type", filters.source))
                \cup Unless(filters.document = <<>>, AnyOf("document_id", filters.document))
                \cup Unless(filters.groups = <<>>, AnyOf("allowed_groups", filters.groups))
                \cup filters.custom,
     should |-> IF user.admin THEN {}
                ELSE {ValueOf("visibility", "public"), ValueOf("visibility", "tenant")}
                       \cup Unless(user.groups = {}, AnyOfSet("allowed_groups", user.groups)),
     mustNot |-> {}]

\* Mutant of KeywordFilter: tenant isolation is left to the caller.
KeywordFilterAnyTenant(user, filters) ==
    filters.custom \cup Unless(filters.source = <<>>, AnyOf("source_type", filters.source))

\* KeywordSearcher.search: BM25Request keeps one value per field, so of the
\* groups of a request the last one is sent and a custom condition takes the
\* place of what stood under its key; nothing is sent of the user's ACL.
KeywordFilter(user, filters) ==
    LET fixed == {ValueOf("tenant_id.keyword", user.tenant)}
                   \cup Unless(filters.source = <<>>, AnyOf("source_type", filters.source))
                   \cup Unless(filters.document = <<>>, AnyOf("document_id", filters.document))
                   \cup Unless(filters.groups = <<>>,
                               ValueOf("allowed_groups", filters.groups[Len(filters.groups)]))
    IN filters.custom \cup {c \in fixed : \A d \in filters.custom : d.key # c.key}

\* BM25QueryBuilder.with_filters: a term query for every field.
KeywordMatches(sent, doc) ==
    \A c \in sent : \E i \in DOMAIN c.values : c.values[i] \in Terms(doc, c.key)

\* The stores that return the document to the search.
Found(user, conditions, doc) ==
    {store \in {"semantic", "keyword"} :
        IF store = "semantic"
        THEN QdrantMatches(SemanticFilter(user, ConvertFilters(conditions)), doc)
        ELSE KeywordMatches(KeywordFilter(user, ConvertKeywordFilters(conditions)), doc)}

\* A document is part of an answer when a store returns it and the routes'
\* check keeps it.
Answered(user, conditions, doc) ==
    Found(user, conditions, doc) # {} /\ CanAccessFull(user, doc.acl)
----------------------------------------------------------------------------
(* Checks.                                                                 *)

NoAccess == [kind |-> "none"]

PlainAcl == [visibility |-> "tenant", owner |-> NoOwner, allowedGroups |-> {},
             allowedUsers |-> {}, deniedGroups |-> {}, deniedUsers |-> {}]

SomeDoc == CHOOSE x \in Docs : TRUE
SomeSource == CHOOSE s \in Sources : TRUE

\* A user and a document with an arbitrary ACL.
AclChecks == [kind : {"acl"}, config : AclConfigs, user : Requesters, conditions : {<<>>},
              doc : [tenant : Tenants, status : {"active", "deleted"}, acl : FullAcls,
                     id : {SomeDoc}, source : {SomeSource}]]

\* A live document of either tenant that has groups and may be closed.
FilterDocs == [tenant : Tenants, status : {"active"}, id : {SomeDoc}, source : {SomeSource},
               acl : {[PlainAcl EXCEPT !.visibility = v, !.allowedGroups = G] :
                         v \in Visibility \ {"public"}, G \in SUBSET Groups}]

\* A request with filters and such a document.
FilterChecks == [kind : {"filter"}, conditions : SeqOf(Requested, MaxConditions),
                 user : {u \in Requesters : ~u.admin}, doc : FilterDocs]

AccessInit == access = NoAccess
CheckAcl == access = NoAccess /\ access' \in AclChecks
CheckFilter == access = NoAccess /\ access' \in FilterChecks
AccessNext == CheckAcl \/ CheckFilter
AccessSpec == AccessInit /\ [][AccessNext]_access
----------------------------------------------------------------------------
(* Properties.                                                             *)

\* The two copies of the check and the list filter give one verdict.
ChecksAgree ==
    access.kind = "acl" =>
        LET verdict == CanAccess(access.config, access.user, access.doc)
        IN /\ EvaluateAccess(access.config, access.user, access.doc) <=> verdict
           /\ (access.doc \in FilterResults(access.config, access.user, {access.doc})) <=> verdict

\* The check of the routes leaves out the tenant and the configuration, and the
\* explain route's the owner and the lists too: where these decide nothing, all
\* three give one verdict.
RoutesAgree ==
    /\ access.kind = "acl"
    /\ access.config.enabled
    /\ IsSuperTenant(access.config, access.user.tenant) \/ access.user.tenant = access.doc.tenant
    /\ access.user.admin => access.config.adminBypass
    => LET acl == access.doc.acl
           full == CanAccessFull(access.user, acl)
       IN /\ full <=> CanAccess(access.config, access.user, access.doc)
          /\ /\ acl.owner # access.user.id /\ access.user.id \notin acl.allowedUsers
             /\ ~Denied(access.user, acl)
             => (full <=> CanAccessBasic(access.user, acl))

\* The filter meant for the stores loses no document its reader may see: what
\* can_access grants of the live documents passes build_filter.
PrefilterComplete ==
    /\ access.kind = "acl"
    /\ access.doc.status = "active"
    /\ CanAccess(access.config, access.user, access.doc)
    => QdrantMatches(BuildFilter(access.config, access.user, EmptyFilter), access.doc)

\* And it passes no more than can_access grants of the live documents, but for
\* one case in which the two differ: a private document shared with a group of
\* the reader passes build_filter and is refused by can_access.
PrefilterTight ==
    LET f == BuildFilter(access.config, access.user, EmptyFilter)
    IN access.kind = "acl" /\ QdrantMatches(f, access.doc)
       => \/ IsEmptyFilter(f) /\ CanAccess(access.config, access.user, access.doc)
          \/ /\ access.doc.status = "active"
             /\ \/ CanAccess(access.config, access.user, access.doc)
                \/ /\ access.doc.acl.visibility = "private"
                   /\ Shares(access.user.groups, access.doc.acl.allowedGroups)

\* Both stores read a unified filter alike: the Qdrant filter and the
\* OpenSearch clauses built from it select the same documents.
BuildersAgree ==
    access.kind = "acl" =>
        LET f == BuildFilter(access.config, access.user, EmptyFilter)
        IN QdrantMatches(f, access.doc) <=> OpenSearchMatches(OpenSearchClauses(f), access.doc)

\* Whatever the stores let through and whatever its filters, the answer of a
\* search holds only documents that the reference check grants to the user but
\* for their tenant; and only those of the user's tenant, unless a filter names
\* tenant_id.keyword, which takes the place of the keyword search's tenant.
AnswersAuthorised ==
    /\ access.kind \in {"acl", "filter"}
    /\ Answered(access.user, access.conditions, access.doc)
    => /\ CanAccess(DefaultConfig, access.user, [access.doc EXCEPT !.tenant = access.user.tenant])
       /\ \/ access.doc.tenant = access.user.tenant
          \/ \E i \in DOMAIN access.conditions : access.conditions[i].key = "tenant_id.keyword"

\* The keyword store finds the document under no value of the conditions that
\* the document does not have: no value is a mere term of the document's, no
\* key is a subfield that only the keyword store has.
ReadAlike(conditions, doc) ==
    \A i \in DOMAIN conditions : \A j \in DOMAIN conditions[i].values :
        conditions[i].values[j] \in Terms(doc, conditions[i].key)
        => conditions[i].values[j] \in Field(doc, conditions[i].key)

\* The two searches of a hybrid request do not contradict each other: of the
\* documents the semantic search returns without filters, the filters of the
\* request keep none from it that the keyword search returns, unless the
\* keyword store reads one of them otherwise.
KeywordWithinSemantic ==
    /\ access.kind = "filter"
    /\ "semantic" \in Found(access.user, <<>>, access.doc)
    /\ ReadAlike(access.conditions, access.doc)
    => LET found == Found(access.user, access.conditions, access.doc)
       IN "keyword" \in found => "semantic" \in found

\* acl/types.rs says of must that all its conditions must match: an answer to
\* a request with filters holds only documents that match every filter, as
\* one of the stores reads it.
RequestFilterHonoured ==
    access.kind = "filter" =>
        (Answered(access.user, access.conditions, access.doc) =>
            \A i \in DOMAIN access.conditions :
                LET c == access.conditions[i]
                IN c.values # <<>> =>
                     \E j \in DOMAIN c.values :
                        c.values[j] \in Field(access.doc, c.key) \cup Terms(access.doc, c.key))

\* The rule who may see a document is written several times, as checks and as a
\* filter for each store.  The two copies of the reference check
\* and the list filter agree everywhere, the routes' checks where the tenant and
\* the configuration decide nothing, the two stores' filters with each other, and
\* the filter with the check but for private documents shared with a group.
OneRule == ChecksAgree /\ RoutesAgree /\ PrefilterComplete /\ PrefilterTight /\ BuildersAgree
============================================================================
