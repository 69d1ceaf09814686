----------------------------- MODULE RequestText -----------------------------
(***************************************************************************)
(* What the retrieval service makes of the text of a request: the query    *)
(* preprocessor, the normal form the cache keys use, the keys themselves   *)
(* (rag-retrieval's builder and rag-cache's CacheKey), and the two checks  *)
(* of a request's filters.  The search routes run no preprocessor: they    *)
(* search for the text as it came, and only its key is normalized.         *)
(*                                                                         *)
(* A text is a sequence of units: blanks, words, marks and an accented     *)
(* letter in its composed and decomposed forms.  One input is one value of *)
(* vetted.                                                                 *)
(***************************************************************************)
EXTENDS Integers, FiniteSets, SequencesExt

CONSTANTS MaxUnits,             \* units of a text
          MinQuery, MaxQuery,   \* length limits, in bytes
          KeyTenants, KeyUsers, \* identifiers that appear in keys
          NoKeyUser

\* The length is measured before blanks are collapsed: a minimum above the default 2
\* would refuse "x  x" once it is preprocessed.
LengthConfigured == MinQuery \in 0 .. 2 /\ MaxQuery \in Nat
FilterHashes == {"f1", "f2"}
\* Tenants and users are UUIDs: none is a word of a key's prefix or a filter's hash.
KeysConfigured ==
    "query" \notin KeyTenants /\ KeyUsers \cap FilterHashes = {} /\ NoKeyUser \notin KeyUsers

ASSUME RequestTextAssumption == MaxUnits \in Nat /\ LengthConfigured /\ KeysConfigured

VARIABLE vetted

-----------------------------------------------------------------------------
(* Query preprocessing *)

Units == {"blank", "x", "X", "what", "WHAT", "mark", "apostrophe", "composed", "decomposed"}
Writings == SeqOf(Units, MaxUnits)
Bytes(unit) == IF unit \in {"what", "WHAT"} THEN 4
               ELSE IF unit = "composed" THEN 2 ELSE IF unit = "decomposed" THEN 3 ELSE 1

Size(text) ==
    LET bytes == [i \in DOMAIN text |-> Bytes(text[i])]
        upto[n \in 0 .. Len(bytes)] == IF n = 0 THEN 0 ELSE upto[n - 1] + bytes[n]
    IN  upto[Len(bytes)]

ByDefault == [nfc |-> TRUE, collapse |-> TRUE, unmark |-> FALSE, lower |-> TRUE]

Each(text, image(_)) == [i \in DOMAIN text |-> image(text[i])]

Composed(text) ==
    Each(text, LAMBDA u : IF u = "decomposed" THEN "composed" ELSE u)
LowerCase(text) ==
    Each(text, LAMBDA u : IF u = "X" THEN "x" ELSE IF u = "WHAT" THEN "what" ELSE u)
Unmarked(text) == SelectSeq(text, LAMBDA u : u \notin {"mark", "apostrophe"})

Letters(text) == {i \in DOMAIN text : text[i] # "blank"}
Parted(text, i, j) == \E k \in i .. j : text[k] = "blank"
Trimmed(text) ==
    IF Letters(text) = {} THEN <<>>
    ELSE SubSeq(text, CHOOSE i \in Letters(text) : \A j \in Letters(text) : i <= j,
                      CHOOSE i \in Letters(text) : \A j \in Letters(text) : i >= j)

\* Every run of blanks becomes one, and the result is trimmed.
Collapsed(text) ==
    LET kept == {i \in DOMAIN text : text[i] # "blank" \/ (i > 1 /\ text[i - 1] # "blank")}
        upto[n \in 0 .. Len(text)] ==
            IF n = 0 THEN <<>>
            ELSE IF n \in kept THEN Append(upto[n - 1], text[n]) ELSE upto[n - 1]
    IN  Trimmed(upto[Len(text)])

Preprocessed(config, text) ==
    LET a == Trimmed(text)
        b == IF config.nfc THEN Composed(a) ELSE a
        c == IF config.collapse THEN Collapsed(b) ELSE b
        d == IF config.unmark THEN Unmarked(c) ELSE c
    IN  IF config.lower THEN LowerCase(d) ELSE d

\* The length is that of the trimmed text, in bytes.
\* Mutant: of the text as it came.
InLimitsUntrimmed(text) == Size(text) >= MinQuery /\ Size(text) <= MaxQuery
InLimits(text) == Size(Trimmed(text)) >= MinQuery /\ Size(Trimmed(text)) <= MaxQuery

Words(text) ==
    {w \in (1 .. Len(text)) \X (1 .. Len(text)) :
        /\ w[1] <= w[2]
        /\ \A i \in w[1] .. w[2] : text[i] # "blank"
        /\ w[1] = 1 \/ text[w[1] - 1] = "blank"
        /\ w[2] = Len(text) \/ text[w[2] + 1] = "blank"}

\* The letters are compared in lower case.
ClassOf(letters, text) ==
    LET has(u) == \E i \in DOMAIN text : letters[i] = u
        asks == /\ text # <<>> /\ letters[1] = "what"
                /\ Len(text) = 1 \/ text[2] = "blank"
    IN  IF has("apostrophe") THEN "semantic"
        ELSE IF has("mark") \/ asks THEN "question"
        ELSE IF Cardinality(Words(text)) <= 2 /\ ~has("what") THEN "simple"
        ELSE "hybrid"
Classify(text) == ClassOf(LowerCase(text), text)

RecommendedMode == [simple |-> "keyword", question |-> "hybrid", hybrid |-> "hybrid",
                    semantic |-> "semantic"]

\* utils::normalize_query, the text that the cache keys hash.
NormalizedQuery(text) == Collapsed(LowerCase(Trimmed(text)))

-----------------------------------------------------------------------------
(* Cache keys, as the sequence of their parts between colons *)

SearchModes == {"sem", "kw", "hyb"}
Builders ==
    [prefix : {<<"ret">>, <<"ret", "query">>}, tenant : KeyTenants,
     query : {<<"x">>, <<"X", "blank">>, <<"what">>}, mode : SearchModes, top : {5, 10},
     user : KeyUsers \cup {NoKeyUser}, filter : {"none"} \cup FilterHashes]

\* The optional parts follow: the user, then the filter's hash.
Optional(b) == (IF b.user # NoKeyUser THEN <<b.user>> ELSE <<>>)
               \o (IF b.filter # "none" THEN <<b.filter>> ELSE <<>>)
Built(b) == b.prefix \o <<b.tenant, NormalizedQuery(b.query), b.mode, b.top>> \o Optional(b)

\* What two requests share if an answer of one serves the other.
Asked(b) == [b EXCEPT !.query = NormalizedQuery(b.query)]

Services == {"ing", "ret", "orc", "cel"}
KeyKinds == {"emb", "query", "sess", "job", "lock"}
Identifiers == SeqOf({"a", "ing", "empty"}, 3) \ {<<>>}
CacheKeys == [service : Services, kind : KeyKinds, tenant : KeyTenants, id : Identifiers]

Displayed(k) == <<k.service, k.kind, k.tenant>> \o k.id
Prefixed(prefix, k) == IF prefix = "none" THEN Displayed(k) ELSE <<prefix>> \o Displayed(k)

\* The parts from the fourth on are the identifier, colons included.
Identifier(parts) == SubSeq(parts, 4, Len(parts))

Parsed(parts) ==
    IF /\ Len(parts) >= 4 /\ parts[1] \in Services /\ parts[2] \in KeyKinds
       /\ parts[3] \in KeyTenants
    THEN {[service |-> parts[1], kind |-> parts[2], tenant |-> parts[3],
           id |-> Identifier(parts)]}
    ELSE {}

-----------------------------------------------------------------------------
(* Filters: a JSON object, from its keys to the kinds of their values *)

Clauses == {"must", "should", "must_not"}
FilterKeys == Clauses \cup {"tenant_id", "topic"}
Arrays == {"texts", "mixed", "none", "conditions", "unkeyed"}
Values == Arrays \cup {"text", "other"}
FilterObjects ==
    UNION {[keys -> Values] : keys \in {ks \in SUBSET FilterKeys : Cardinality(ks) <= 2}}

Structured(object) == DOMAIN object \cap Clauses # {}

\* RetrieveRequest::validate_filters: the types only.
ValidateFilters(object) ==
    IF Structured(object)
    THEN \A k \in DOMAIN object \cap Clauses : object[k] \in Arrays
    ELSE \A k \in DOMAIN object : object[k] \in {"text", "texts", "none"}

\* parse_filters of a simple value: a text, or an array of texts.
Takes(value) == value \in {"text", "texts", "none"}

\* The keys of the conditions parse_filters makes, if it accepts the object.
ParseFilters(object) ==
    IF Structured(object)
    THEN LET present == DOMAIN object \cap Clauses
         IN  IF /\ \A k \in present : object[k] \in {"none", "conditions"}
                /\ \A k \in present \ {"must"} : object[k] = "none"
             THEN {[conditions |-> present \cap {"must"}]}
             ELSE {}
    ELSE LET asked == DOMAIN object \ {"tenant_id"}
         IN  IF \A k \in asked : Takes(object[k]) THEN {[conditions |-> asked]} ELSE {}

\* The bounds of a request: MultiQueryRequest::validate.
Requests == [queries : {<<>>, <<1>>, <<0, 1>>, <<1, 2001>>, <<1, 1, 1, 1, 1, 1>>},
             aggregation : {"max", "avg", "rrf", "sum"}, top : {0, 1, 100, 101}]
ValidateMulti(r) ==
    /\ Len(r.queries) \in 1 .. 5
    /\ \A i \in DOMAIN r.queries : r.queries[i] \in 1 .. 2000
    /\ r.aggregation \in {"max", "avg", "rrf"}
    /\ r.top \in 1 .. 100

\* RetrieveRequest::validate, for one query; weights and scores are in tenths.
ValidateSingle(query, top, filters) ==
    /\ query \in 1 .. 2000
    /\ top \in 1 .. 100
    /\ ValidateFilters(filters)

-----------------------------------------------------------------------------
Unvetted == [kind |-> "none"]

TextInit == vetted = Unvetted

VetQuery ==
    /\ vetted = Unvetted
    /\ \E text \in Writings, config \in {ByDefault, [ByDefault EXCEPT !.unmark = TRUE]} :
          vetted' = [kind |-> "query", text |-> text, config |-> config]

BuildCacheKey ==
    /\ vetted = Unvetted
    /\ \/ \E b \in Builders : vetted' = [kind |-> "built", builder |-> b]
       \/ \E k \in CacheKeys, prefix \in {"none", "ing", "app"} :
             vetted' = [kind |-> "key", key |-> k, prefix |-> prefix]

VetFilters ==
    /\ vetted = Unvetted
    /\ \/ \E object \in FilterObjects : vetted' = [kind |-> "filters", object |-> object]
       \/ \E r \in Requests : vetted' = [kind |-> "multi", request |-> r]

TextNext == VetQuery \/ BuildCacheKey \/ VetFilters

TextSpec == TextInit /\ [][TextNext]_vetted

-----------------------------------------------------------------------------
(* Properties *)

\* query/preprocessor.rs: preprocessing again changes nothing, and what was
\* accepted stays acceptable, unless punctuation is removed.
PreprocessedOnce ==
    vetted.kind = "query" /\ ~vetted.config.unmark /\ InLimits(vetted.text) =>
        LET once == Preprocessed(vetted.config, vetted.text)
        IN  InLimits(once) /\ Preprocessed(vetted.config, once) = once

\* query/preprocessor.rs: the class of a query does not depend on its case or
\* spacing, so the search mode recommended for it does not either.
ClassOfMeaning ==
    vetted.kind = "query" /\ ~vetted.config.unmark =>
        RecommendedMode[Classify(Preprocessed(vetted.config, vetted.text))]
            = RecommendedMode[Classify(Trimmed(vetted.text))]

\* The same words in the same order.
SaysSame(s, t) ==
    \E place \in [Letters(s) -> Letters(t)] :
        /\ \A i \in Letters(t) : \E k \in Letters(s) : place[k] = i
        /\ \A k \in Letters(s) : t[place[k]] = s[k]
        /\ \A j \in Letters(s), k \in Letters(s) : j < k =>
               place[j] < place[k] /\ (Parted(s, j, k) <=> Parted(t, place[j], place[k]))

\* utils.rs: what a cache key hashes says what the query says: queries share a key
\* only if they have the same words in the same order, but for case.  (What is
\* searched for is the query as it came, so an answer may be that to another case.)
KeyKeepsMeaning ==
    vetted.kind = "query" =>
        SaysSame(NormalizedQuery(vetted.text), LowerCase(Trimmed(vetted.text)))

\* cache/keys.rs: keys are equal only for requests that may share an answer.
BuiltKeysSeparate ==
    vetted.kind = "built" =>
        \A other \in Builders :
            Built(vetted.builder) = Built(other) => Asked(vetted.builder) = Asked(other)

\* rag-cache keys.rs: a key is read back as it was written, whatever its
\* identifier holds, and one with a prefix is never taken for another key.
KeysReadBack ==
    vetted.kind = "key" =>
        Parsed(Prefixed(vetted.prefix, vetted.key))
            = IF vetted.prefix = "none" THEN {vetted.key} ELSE {}

\* api/requests.rs, routes/search.rs: simple filters that pass the first check
\* pass the second, and every key but tenant_id becomes a condition.
SimpleFiltersTaken ==
    vetted.kind = "filters" /\ ~Structured(vetted.object)
      /\ ValidateSingle(1, 10, vetted.object)
      => ParseFilters(vetted.object) = {[conditions |-> DOMAIN vetted.object \ {"tenant_id"}]}

\* api/requests.rs: each query of an accepted multi-query request would have
\* been accepted alone.
MultiWithinSingle ==
    vetted.kind = "multi" /\ ValidateMulti(vetted.request) =>
        \A i \in DOMAIN vetted.request.queries :
            ValidateSingle(vetted.request.queries[i], vetted.request.top, <<>>)

\* Cache keys, of the search cache and of the shared one, conflate no two
\* requests but those whose queries differ in case and blanks alone.
KeysFaithful == KeyKeepsMeaning /\ BuiltKeysSeparate /\ KeysReadBack

\* What one check of a request accepts the next one accepts, and means the same by
\* it; a cache key tells apart what differs in more than the case of its query; and
\* the preprocessor, if it is asked, changes a query once and never its class
\* (requests.rs, search.rs, multi.rs, keys.rs, preprocessor.rs).
RequestsReadAlike ==
    /\ PreprocessedOnce /\ ClassOfMeaning /\ SimpleFiltersTaken /\ MultiWithinSingle
    /\ KeysFaithful
=============================================================================
