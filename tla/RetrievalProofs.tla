-------------------------- MODULE RetrievalProofs --------------------------
(***************************************************************************)
(* Proofs about the search routes of Retrieval.                            *)
(*                                                                         *)
(* StaleAnswerBounded: a hit is as old as the request that holds it at     *)
(* most, and an entry of the cache is older than the request that set it   *)
(* by its own age only (Fresh).                                            *)
(*                                                                         *)
(* FailuresDegrade: a failure is never forgotten on the way from the query *)
(* that met it to the outcome, through the fallback and the merge of the   *)
(* queries (Seen, with Path for one query).                                *)
(***************************************************************************)
EXTENDS Retrieval, FiniteSetTheorems, TLAPS

\* What the variables range over.
Components == {"embedding", "semantic", "keyword", "reranker"}
Flags == {"semantic_attempted", "semantic_ok", "keyword_attempted", "keyword_ok",
          "rerank_requested", "rerank_ok", "embedding_ok"}
Modes == {"None", "minimal", "keyword_only", "semantic_only", "rerank_skipped",
          "partial_queries_failed", "partial_queries_degraded"}
Stages == Ended \cup {"idle", "lookup", "search", "rerank", "store"}
Hits == [chunk : Chunks, readers : SUBSET Readers, age : Nat]
PartStates ==
    [at : {"off", "embed", "search", "fallback", "ok", "failed"},
     leg : [Legs -> {"off", "wait", "ok", "failed"}],
     got : [Legs -> SUBSET Hits], hits : SUBSET Hits, outcome : SUBSET Flags]
Entries == [hits : SUBSET Hits, age : 0..CacheTtl, failed : SUBSET Components]

\* The types.
RequestsOK ==
    /\ handler \in [Handlers -> SearchRequests \cup {NoSearch}]
    /\ stage \in [Handlers -> Stages]
    /\ \A r \in Handlers : stage[r] # "idle" => handler[r] \in SearchRequests
PartsOK == part \in [Handlers -> [SubQueries -> PartStates]]
AnswersOK ==
    /\ waited \in [Handlers -> 0..ServerTimeout]
    /\ found \in [Handlers -> SUBSET Hits]
    /\ outcome \in [Handlers -> SUBSET Flags]
    /\ mode \in [Handlers -> Modes]
    /\ cacheHit \in [Handlers -> BOOLEAN]
    /\ failed \in [Handlers -> SUBSET Components]
WorldOK ==
    /\ readers \in [Chunks -> SUBSET Readers]
    /\ cached \in [CacheKeys -> Entries]
RetrTypeOK == RequestsOK /\ PartsOK /\ AnswersOK /\ WorldOK

\* The hits a query holds, of both stores.
PartHits(p) == p.hits \cup UNION {p.got[l] : l \in Legs}

\* No hit is older than the request that holds it, none in the cache than a
\* request and its own age.
PartsFresh ==
    \A r \in Handlers, q \in SubQueries :
        \A h \in part[r][q].hits \cup UNION {part[r][q].got[l] : l \in Legs} :
            InFlight(r) /\ h.age <= waited[r]
FoundFresh ==
    \A r \in Handlers :
        /\ stage[r] = "idle" => found[r] = {}
        /\ InFlight(r) => \A h \in found[r] : h.age <= waited[r]
        /\ stage[r] = "done" => \A h \in found[r] : h.age <= MaxAge
        /\ stage[r] \in {"store", "done"} => \A h \in found[r] : CanAccessFull(handler[r], h)
CacheFresh ==
    \A k \in CacheKeys : \A h \in cached[k].hits : h.age <= ServerTimeout + cached[k].age
Fresh == PartsFresh /\ FoundFresh /\ CacheFresh

----------------------------------------------------------------------------
(* What the operators of a query return.                                   *)

\* What a query of a request is made of.
LEMMA PartFields ==
    ASSUME NEW p \in PartStates
    PROVE  /\ p.leg \in [Legs -> {"off", "wait", "ok", "failed"}]
           /\ p.got \in [Legs -> SUBSET Hits]
           /\ p.hits \subseteq Hits /\ p.outcome \subseteq Flags
           /\ p.at \in {"off", "embed", "search", "fallback", "ok", "failed"}
BY DEF PartStates

\* The two stores.
LEMMA LegsAre == "semantic" \in Legs /\ "keyword" \in Legs
BY DEF Legs

\* WithLeg sets flags of ComponentOutcome.
LEMMA LegFlags == \A l, ok : WithLeg(l, ok) \subseteq Flags
BY DEF WithLeg, Flags

\* A query that has not begun holds no hits.
LEMMA IdlePartOK == IdlePart \in PartStates /\ PartHits(IdlePart) = {}
<1>1. [l \in Legs |-> "off"] \in [Legs -> {"off", "wait", "ok", "failed"}]
  OBVIOUS
<1>2. [l \in Legs |-> {}] \in [Legs -> SUBSET Hits]
  OBVIOUS
<1>3. NoOutcome \subseteq Flags
  BY DEF NoOutcome
<1> QED
  BY <1>1, <1>2, <1>3 DEF IdlePart, PartStates, PartHits

\* A query that ends well holds the hits it is served with.
LEMMA ServeOK ==
    ASSUME NEW p \in PartStates, NEW hits \in SUBSET Hits, NEW o \in SUBSET Flags
    PROVE  Serve(p, hits, o) \in PartStates /\ PartHits(Serve(p, hits, o)) = hits
<1> DEFINE x == Serve(p, hits, o)
<1>1. x \in PartStates
  BY IdlePartOK DEF Serve, PartStates
<1>2. x.hits = hits /\ \A l \in Legs : x.got[l] = {}
  BY DEF Serve, IdlePart
<1> QED
  BY <1>1, <1>2 DEF PartHits

\* A query that fails holds none.
LEMMA RefuseOK == Refuse \in PartStates /\ PartHits(Refuse) = {}
BY IdlePartOK DEF Refuse, PartHits, IdlePart, PartStates

\* A query that turns to the stores keeps the hits it had.
LEMMA SearchOK ==
    ASSUME NEW p \in PartStates, NEW at \in {"search", "fallback"}, NEW legs
    PROVE  /\ Search(p, at, legs) \in PartStates
           /\ PartHits(Search(p, at, legs)) = p.hits
<1>1. [l \in Legs |-> IF l \in legs THEN "wait" ELSE "off"] \in [Legs -> {"off", "wait", "ok", "failed"}]
  OBVIOUS
<1>2. [l \in Legs |-> {}] \in [Legs -> SUBSET Hits]
  OBVIOUS
<1> QED
  BY <1>1, <1>2 DEF Search, PartStates, PartHits

\* The fallback serves only what a store has returned.
LEMMA FallBackOK ==
    ASSUME NEW p \in PartStates
    PROVE  FallBack(p) \in PartStates /\ PartHits(FallBack(p)) \subseteq PartHits(p)
<1>1. CASE Answered(p) = {}
  BY <1>1, RefuseOK DEF FallBack
<1>2. CASE Answered(p) # {}
  <2> DEFINE leg == IF Cardinality(Answered(p)) = 1
                    THEN CHOOSE l \in Legs : l \in Answered(p)
                    ELSE IF Cardinality(p.got["semantic"]) >= Cardinality(p.got["keyword"])
                         THEN "semantic" ELSE "keyword"
             o == p.outcome \cup UNION {WithLeg(l, l = leg) : l \in Legs}
  <2>1. leg \in Legs
    BY <1>2, LegsAre DEF Answered
  <2>2. FallBack(p) = Serve(p, p.got[leg], o)
    BY <1>2 DEF FallBack
  <2> HIDE DEF leg
  <2>3. p.got[leg] \in SUBSET Hits /\ o \in SUBSET Flags
    BY <2>1, LegFlags, PartFields
  <2> HIDE DEF o
  <2>4. p.got[leg] \subseteq PartHits(p)
    BY <2>1 DEF PartHits
  <2> QED
    BY <2>2, <2>3, <2>4, ServeOK
<1> QED
  BY <1>1, <1>2

\* HybridSearcher.search serves only what a store has returned, whatever branch
\* it takes.
LEMMA JoinedOK ==
    ASSUME NEW s, NEW p \in PartStates
    PROVE  Joined(s, p) \in PartStates /\ PartHits(Joined(s, p)) \subseteq PartHits(p)
<1>1. p.hits \subseteq PartHits(p)
  BY DEF PartHits
<1>2. Fuse(p.got) \in SUBSET Hits /\ Fuse(p.got) \subseteq PartHits(p)
  BY PartFields, LegsAre DEF Fuse, PartHits
<1>3. p.outcome \cup UNION {WithLeg(l, TRUE) : l \in Answered(p)} \in SUBSET Flags
  <2>1. \A l \in Answered(p) : WithLeg(l, TRUE) \subseteq Flags
    BY LegFlags
  <2>2. UNION {WithLeg(l, TRUE) : l \in Answered(p)} \subseteq Flags
    BY <2>1
  <2> QED
    BY <2>2, PartFields
<1>4. /\ FallBack(p) \in PartStates /\ PartHits(FallBack(p)) \subseteq PartHits(p)
      /\ Refuse \in PartStates /\ PartHits(Refuse) = {}
      /\ Search(p, "fallback", Legs) \in PartStates
      /\ PartHits(Search(p, "fallback", Legs)) = p.hits
  BY FallBackOK, RefuseOK, SearchOK
<1>5. LET o == p.outcome \cup UNION {WithLeg(l, TRUE) : l \in Answered(p)}
      IN /\ Serve(p, Fuse(p.got), o) \in PartStates
         /\ PartHits(Serve(p, Fuse(p.got), o)) = Fuse(p.got)
  BY <1>2, <1>3, ServeOK
<1> QED
  BY <1>1, <1>2, <1>4, <1>5 DEF Joined

----------------------------------------------------------------------------
(* The steps keep the hits fresh.                                          *)

\* The stages at which the timeout layer can drop a handler.
LEMMA StagesAre ==
    \A r \in Handlers :
        InFlight(r) <=> stage[r] \notin {"done", "error", "forbidden", "timeout", "idle"}
BY DEF InFlight, Ended

\* The timeout and the time to live are positive numbers.
LEMMA NumbersOK ==
    /\ ServerTimeout \in Nat /\ CacheTtl \in Nat /\ ServerTimeout > 0 /\ CacheTtl > 0
    /\ MaxAge = ServerTimeout + CacheTtl
BY RetrievalAssumption DEF MaxAge

\* The invariant holds initially.
LEMMA InitOK == RetrInit => RetrTypeOK /\ Fresh
<1> SUFFICES ASSUME RetrInit PROVE RetrTypeOK /\ Fresh
  OBVIOUS
<1>0. NoEntry \in Entries /\ NoEntry.hits = {}
  BY NumbersOK DEF NoEntry, Entries
<1>1. RequestsOK
  BY RetrievalAssumption DEF RetrInit, RequestsOK, Stages
<1>2. PartsOK
  BY IdlePartOK DEF RetrInit, PartsOK
<1>3. AnswersOK
  BY NumbersOK DEF RetrInit, AnswersOK, NoOutcome, Modes
<1>4. WorldOK
  BY <1>0 DEF RetrInit, WorldOK
<1>5. PartsFresh
  BY IdlePartOK DEF RetrInit, PartsFresh, PartHits
<1>6. FoundFresh
  BY DEF RetrInit, FoundFresh
<1>7. CacheFresh
  BY <1>0 DEF RetrInit, CacheFresh
<1> QED
  BY <1>1, <1>2, <1>3, <1>4, <1>5, <1>6, <1>7 DEF RetrTypeOK, Fresh

\* A query moves on: its hits are no older than its request.
LEMMA StepOK ==
    ASSUME RetrTypeOK, Fresh, NEW r \in Handlers, NEW q \in SubQueries,
           NEW p \in PartStates, Step(r, q, p), stage[r] = "search",
           \A h \in PartHits(p) : h.age <= waited[r],
           failed' \in [Handlers -> SUBSET Components]
    PROVE  RetrTypeOK' /\ Fresh'
<1>1. /\ part' = [part EXCEPT ![r] = [part[r] EXCEPT ![q] = p]]
      /\ UNCHANGED <<readers, handler, stage, waited, found, outcome, mode, cacheHit, cached>>
  BY DEF Step, RetrTypeOK, PartsOK
<1>2. [part[r] EXCEPT ![q] = p] \in [SubQueries -> PartStates]
  BY DEF RetrTypeOK, PartsOK
<1>3. PartsOK'
  BY <1>1, <1>2 DEF RetrTypeOK, PartsOK
<1>4. RequestsOK' /\ AnswersOK' /\ WorldOK'
  BY <1>1 DEF RetrTypeOK, RequestsOK, AnswersOK, WorldOK
<1>5. PartsFresh'
  <2> SUFFICES ASSUME NEW r2 \in Handlers, NEW q2 \in SubQueries,
                      NEW h \in PartHits(part'[r2][q2])
               PROVE  InFlight(r2)' /\ h.age <= waited'[r2]
    BY DEF PartsFresh, PartHits
  <2>1. CASE r2 = r /\ q2 = q
    <3>1. part'[r2][q2] = p
      BY <1>1, <1>2, <2>1 DEF RetrTypeOK, PartsOK
    <3> QED
      BY <1>1, <2>1, <3>1, StagesAre DEF InFlight, Ended
  <2>2. CASE ~(r2 = r /\ q2 = q)
    <3>1. part'[r2][q2] = part[r2][q2]
      BY <1>1, <1>2, <2>2 DEF RetrTypeOK, PartsOK
    <3> QED
      BY <1>1, <3>1 DEF Fresh, PartsFresh, PartHits, InFlight
  <2> QED
    BY <2>1, <2>2
<1>6. FoundFresh' /\ CacheFresh'
  BY <1>1 DEF Fresh, FoundFresh, CacheFresh, InFlight, CanAccessFull
<1> QED
  BY <1>3, <1>4, <1>5, <1>6 DEF RetrTypeOK, Fresh

\* A handler returns with hits that its user may read and that are not too old.
LEMMA ReturnOK ==
    ASSUME RetrTypeOK, Fresh, NEW r \in Handlers, NEW how \in Ended,
           NEW hits \in SUBSET Hits, NEW m \in Modes, Return(r, how, hits, m),
           stage[r] # "idle",
           how = "done" => \A h \in hits : h.age <= MaxAge /\ CanAccessFull(handler[r], h),
           cacheHit' \in [Handlers -> BOOLEAN],
           failed' \in [Handlers -> SUBSET Components],
           UNCHANGED handler
    PROVE  RequestsOK' /\ PartsOK' /\ AnswersOK' /\ PartsFresh' /\ FoundFresh'
<1>1. /\ stage' = [stage EXCEPT ![r] = how]
      /\ waited' = [waited EXCEPT ![r] = 0]
      /\ part' = [part EXCEPT ![r] = [q \in SubQueries |-> IdlePart]]
      /\ found' = [found EXCEPT ![r] = hits]
      /\ outcome' = [outcome EXCEPT ![r] = NoOutcome]
      /\ mode' = [mode EXCEPT ![r] = m]
  BY DEF Return
<1>2. RequestsOK'
  BY <1>1 DEF RetrTypeOK, RequestsOK, Stages
<1>3. PartsOK'
  <2>1. [q \in SubQueries |-> IdlePart] \in [SubQueries -> PartStates]
    BY IdlePartOK
  <2> QED
    BY <1>1, <2>1 DEF RetrTypeOK, PartsOK
<1>4. AnswersOK'
  BY <1>1, NumbersOK DEF RetrTypeOK, AnswersOK, NoOutcome
<1>5. PartsFresh'
  <2> SUFFICES ASSUME NEW r2 \in Handlers, NEW q2 \in SubQueries,
                      NEW h \in PartHits(part'[r2][q2])
               PROVE  InFlight(r2)' /\ h.age <= waited'[r2]
    BY DEF PartsFresh, PartHits
  <2>1. r2 # r
    <3>1. CASE r2 = r
      <4>1. part'[r2][q2] = IdlePart
        BY <1>1, <3>1 DEF RetrTypeOK, PartsOK
      <4> QED
        BY <4>1, IdlePartOK
    <3> QED
      BY <3>1
  <2>2. part'[r2][q2] = part[r2][q2] /\ stage'[r2] = stage[r2] /\ waited'[r2] = waited[r2]
    BY <1>1, <2>1 DEF RetrTypeOK, PartsOK, RequestsOK, AnswersOK
  <2> QED
    BY <2>2 DEF Fresh, PartsFresh, PartHits, InFlight
<1>6. FoundFresh'
  <2> SUFFICES ASSUME NEW r2 \in Handlers
               PROVE  /\ stage'[r2] = "idle" => found'[r2] = {}
                      /\ InFlight(r2)' => \A h \in found'[r2] : h.age <= waited'[r2]
                      /\ stage'[r2] = "done" => \A h \in found'[r2] : h.age <= MaxAge
                      /\ stage'[r2] \in {"store", "done"} =>
                            \A h \in found'[r2] : CanAccessFull(handler[r2], h)
    BY DEF FoundFresh, CanAccessFull, MaxAge
  <2>1. CASE r2 = r
    <3>1. stage'[r2] = how /\ found'[r2] = hits
      BY <1>1, <2>1 DEF RetrTypeOK, RequestsOK, AnswersOK
    <3> QED
      BY <2>1, <3>1 DEF InFlight, Ended
  <2>2. CASE r2 # r
    <3>1. /\ stage'[r2] = stage[r2] /\ found'[r2] = found[r2] /\ waited'[r2] = waited[r2]
      BY <1>1, <2>2 DEF RetrTypeOK, RequestsOK, AnswersOK
    <3> QED
      BY <3>1 DEF Fresh, FoundFresh, InFlight
  <2> QED
    BY <2>1, <2>2
<1> QED
  BY <1>2, <1>3, <1>4, <1>5, <1>6

\* A request goes on with these hits: to the reranker or to the cache.
LEMMA MoveOK ==
    ASSUME RetrTypeOK, Fresh, NEW r \in Handlers, NEW to \in {"rerank", "store"},
           NEW hits \in SUBSET Hits, NEW o \in SUBSET Flags, InFlight(r),
           stage' = [stage EXCEPT ![r] = to],
           found' = [found EXCEPT ![r] = hits],
           outcome' = [outcome EXCEPT ![r] = o],
           UNCHANGED <<handler, waited, part, mode, cacheHit>>,
           failed' \in [Handlers -> SUBSET Components],
           \A h \in hits : h.age <= waited[r],
           to = "store" => \A h \in hits : CanAccessFull(handler[r], h)
    PROVE  RequestsOK' /\ PartsOK' /\ AnswersOK' /\ PartsFresh' /\ FoundFresh'
<1>1. stage[r] # "idle"
  BY StagesAre
<1>2. RequestsOK'
  BY <1>1 DEF RetrTypeOK, RequestsOK, Stages
<1>3. PartsOK' /\ AnswersOK'
  BY DEF RetrTypeOK, PartsOK, AnswersOK
<1>4. \A r2 \in Handlers : InFlight(r2)' <=> InFlight(r2)
  BY DEF InFlight, Ended, RetrTypeOK, RequestsOK
<1>5. PartsFresh'
  BY <1>4 DEF Fresh, PartsFresh
<1>6. FoundFresh'
  <2> SUFFICES ASSUME NEW r2 \in Handlers
               PROVE  /\ stage'[r2] = "idle" => found'[r2] = {}
                      /\ InFlight(r2)' => \A h \in found'[r2] : h.age <= waited'[r2]
                      /\ stage'[r2] = "done" => \A h \in found'[r2] : h.age <= MaxAge
                      /\ stage'[r2] \in {"store", "done"} =>
                            \A h \in found'[r2] : CanAccessFull(handler[r2], h)
    BY DEF FoundFresh, CanAccessFull, MaxAge
  <2>1. CASE r2 = r
    <3>1. stage'[r2] = to /\ found'[r2] = hits /\ waited'[r2] = waited[r]
      BY <2>1 DEF RetrTypeOK, RequestsOK, AnswersOK
    <3> QED
      BY <2>1, <3>1
  <2>2. CASE r2 # r
    <3>1. stage'[r2] = stage[r2] /\ found'[r2] = found[r2] /\ waited'[r2] = waited[r2]
      BY <2>2 DEF RetrTypeOK, RequestsOK, AnswersOK
    <3> QED
      BY <3>1, <1>4 DEF Fresh, FoundFresh
  <2> QED
    BY <2>1, <2>2
<1> QED
  BY <1>2, <1>3, <1>5, <1>6

\* DegradationMode names a degradation mode.
LEMMA ModesOK ==
    ASSUME NEW r \in Handlers, NEW o
    PROVE  DegradationMode(r, o) \in Modes /\ \A m : DetermineMode(m, o) \in Modes
<1>1. \A m : DetermineMode(m, o) \in Modes
  BY DEF DetermineMode, Modes
<1>2. \A e \in Modes : \A a, b : MultiMode(e, a, b) \in Modes
  BY DEF MultiMode, Modes
<1> QED
  BY <1>1, <1>2 DEF DegradationMode

\* Behind the reranker: the ACL filter, then the cache or the answer.
LEMMA ConcludeOK ==
    ASSUME RetrTypeOK, Fresh, NEW r \in Handlers, InFlight(r),
           NEW hits \in SUBSET Hits, NEW o \in SUBSET Flags, Conclude(r, hits, o),
           \A h \in hits : h.age <= waited[r],
           UNCHANGED <<handler, cacheHit>>,
           failed' \in [Handlers -> SUBSET Components]
    PROVE  RequestsOK' /\ PartsOK' /\ AnswersOK' /\ PartsFresh' /\ FoundFresh'
<1>1. PICK kept \in SUBSET {h \in hits : CanAccessFull(handler[r], h)} :
        IF handler[r].kind = "retrieve" /\ ResultCache
        THEN /\ stage' = [stage EXCEPT ![r] = "store"]
             /\ found' = [found EXCEPT ![r] = kept]
             /\ outcome' = [outcome EXCEPT ![r] = o]
             /\ UNCHANGED <<waited, part, mode>>
        ELSE Return(r, "done", kept, DegradationMode(r, o))
  BY DEF Conclude
<1>2. kept \in SUBSET Hits
  OBVIOUS
<1>3. CASE handler[r].kind = "retrieve" /\ ResultCache
  BY <1>1, <1>2, <1>3, MoveOK
<1>4. CASE ~(handler[r].kind = "retrieve" /\ ResultCache)
  <2>1. Return(r, "done", kept, DegradationMode(r, o))
    BY <1>1, <1>4
  <2>2. cacheHit' \in [Handlers -> BOOLEAN]
    BY DEF RetrTypeOK, AnswersOK
  <2>3. \A h \in kept : h.age <= MaxAge /\ CanAccessFull(handler[r], h)
    <3>1. waited[r] \in 0..ServerTimeout
      BY DEF RetrTypeOK, AnswersOK
    <3> QED
      BY <3>1, <1>2, NumbersOK DEF Hits
  <2>4. stage[r] # "idle" /\ "done" \in Ended
    BY StagesAre DEF Ended
  <2>5. DegradationMode(r, o) \in Modes
    BY ModesOK
  <2> QED
    BY <1>2, <2>1, <2>2, <2>3, <2>4, <2>5, ReturnOK
<1> QED
  BY <1>3, <1>4

\* A step that does not touch the cache keeps it fresh.
LEMMA WorldKept ==
    ASSUME RetrTypeOK, Fresh, UNCHANGED <<readers, cached>>
    PROVE  WorldOK' /\ CacheFresh'
BY DEF RetrTypeOK, WorldOK, Fresh, CacheFresh

\* The key of a request is a key of the cache.
LEMMA KeyOK == \A s \in SearchRequests : CacheKey(s) \in CacheKeys
BY DEF SearchRequests, CacheKey, CacheKeys

\* A result is stored while its request still has hits no older than it.
LEMMA SetOK ==
    ASSUME RetrTypeOK, Fresh, NEW r \in Handlers, stage[r] = "store",
           cached' = [cached EXCEPT ![CacheKey(handler[r])] = Entry(r)],
           UNCHANGED readers
    PROVE  WorldOK' /\ CacheFresh'
<1>1. CacheKey(handler[r]) \in CacheKeys
  BY KeyOK DEF RetrTypeOK, RequestsOK
<1>2. /\ Entry(r) \in Entries /\ Entry(r).hits = found[r] /\ Entry(r).age = 0
  BY NumbersOK DEF Entry, Entries, RetrTypeOK, AnswersOK
<1>3. \A h \in found[r] : h.age <= ServerTimeout + 0
  <2>1. found[r] \subseteq Hits /\ waited[r] \in 0..ServerTimeout
    BY DEF RetrTypeOK, AnswersOK
  <2>2. \A h \in found[r] : h.age <= waited[r]
    BY StagesAre DEF Fresh, FoundFresh
  <2> QED
    BY <2>1, <2>2, NumbersOK DEF Hits
<1>4. \A k \in CacheKeys : cached'[k] = IF k = CacheKey(handler[r]) THEN Entry(r) ELSE cached[k]
  BY <1>1 DEF RetrTypeOK, WorldOK
<1>5. WorldOK'
  BY <1>1, <1>2 DEF RetrTypeOK, WorldOK
<1>6. CacheFresh'
  BY <1>2, <1>3, <1>4 DEF Fresh, CacheFresh
<1> QED
  BY <1>5, <1>6

\* A query that starts holds no hits.
LEMMA StartPartOK ==
    ASSUME NEW s
    PROVE  StartPart(s) \in PartStates /\ PartHits(StartPart(s)) = {}
<1>1. [IdlePart EXCEPT !.at = "embed"] \in PartStates /\ PartHits([IdlePart EXCEPT !.at = "embed"]) = {}
  BY IdlePartOK DEF PartStates, PartHits, IdlePart
<1>2. IdlePart.hits = {}
  BY DEF IdlePart
<1>3. /\ Search(IdlePart, "search", LegsOf(s)) \in PartStates
      /\ PartHits(Search(IdlePart, "search", LegsOf(s))) = {}
  BY <1>2, IdlePartOK, SearchOK
<1> QED
  BY <1>1, <1>3 DEF StartPart

\* The searches of a request start.
LEMMA StartSearchOK ==
    ASSUME RetrTypeOK, Fresh, NEW r \in Handlers, StartSearch(r),
           handler[r] \in SearchRequests, found[r] = {} \/ InFlight(r),
           UNCHANGED <<readers, handler, waited, found, outcome, mode, cacheHit, failed, cached>>
    PROVE  RetrTypeOK' /\ Fresh'
<1> DEFINE new == [q \in SubQueries |->
                IF q \in Queries(handler[r]) THEN StartPart(handler[r]) ELSE IdlePart]
<1>1. stage' = [stage EXCEPT ![r] = "search"] /\ part' = [part EXCEPT ![r] = new]
  BY DEF StartSearch
<1>2. new \in [SubQueries -> PartStates] /\ \A q \in SubQueries : PartHits(new[q]) = {}
  BY StartPartOK, IdlePartOK
<1> HIDE DEF new
<1>3. RequestsOK'
  BY <1>1 DEF RetrTypeOK, RequestsOK, Stages
<1>4. PartsOK'
  BY <1>1, <1>2 DEF RetrTypeOK, PartsOK
<1>5. AnswersOK' /\ WorldOK' /\ CacheFresh'
  BY WorldKept DEF RetrTypeOK, AnswersOK
<1>6. PartsFresh'
  <2> SUFFICES ASSUME NEW r2 \in Handlers, NEW q2 \in SubQueries,
                      NEW h \in PartHits(part'[r2][q2])
               PROVE  InFlight(r2)' /\ h.age <= waited'[r2]
    BY DEF PartsFresh, PartHits
  <2>1. r2 # r
    BY <1>1, <1>2 DEF RetrTypeOK, PartsOK
  <2>2. part'[r2][q2] = part[r2][q2] /\ stage'[r2] = stage[r2]
    BY <1>1, <2>1 DEF RetrTypeOK, PartsOK, RequestsOK
  <2> QED
    BY <2>2 DEF Fresh, PartsFresh, PartHits, InFlight
<1>7. FoundFresh'
  <2> SUFFICES ASSUME NEW r2 \in Handlers
               PROVE  /\ stage'[r2] = "idle" => found[r2] = {}
                      /\ InFlight(r2)' => \A h \in found[r2] : h.age <= waited[r2]
                      /\ stage'[r2] = "done" => \A h \in found[r2] : h.age <= MaxAge
                      /\ stage'[r2] \in {"store", "done"} =>
                            \A h \in found[r2] : CanAccessFull(handler[r2], h)
    BY DEF FoundFresh, CanAccessFull, MaxAge
  <2>1. CASE r2 = r
    <3>1. stage'[r2] = "search"
      BY <1>1, <2>1 DEF RetrTypeOK, RequestsOK
    <3> QED
      BY <2>1, <3>1 DEF Fresh, FoundFresh
  <2>2. CASE r2 # r
    <3>1. stage'[r2] = stage[r2]
      BY <1>1, <2>2 DEF RetrTypeOK, RequestsOK
    <3> QED
      BY <3>1 DEF Fresh, FoundFresh, InFlight
  <2> QED
    BY <2>1, <2>2
<1> QED
  BY <1>3, <1>4, <1>5, <1>6, <1>7 DEF RetrTypeOK, Fresh

\* A stage without hits of its own.
LEMMA NewStageOK ==
    ASSUME RetrTypeOK, Fresh, NEW r \in Handlers, NEW to \in {"lookup", "forbidden"},
           handler[r] \in SearchRequests, stage[r] = "idle",
           stage' = [stage EXCEPT ![r] = to],
           UNCHANGED <<readers, handler, waited, part, found, outcome, mode, cacheHit, failed, cached>>
    PROVE  RetrTypeOK' /\ Fresh'
<1>1. RequestsOK'
  BY DEF RetrTypeOK, RequestsOK, Stages, Ended
<1>2. PartsOK' /\ AnswersOK' /\ WorldOK' /\ CacheFresh'
  BY WorldKept DEF RetrTypeOK, PartsOK, AnswersOK
<1>3. \A r2 \in Handlers : r2 # r => stage'[r2] = stage[r2]
  BY DEF RetrTypeOK, RequestsOK
<1>4. ~InFlight(r) /\ found[r] = {}
  BY DEF InFlight, Fresh, FoundFresh
<1>5. PartsFresh'
  <2> SUFFICES ASSUME NEW r2 \in Handlers, NEW q2 \in SubQueries,
                      NEW h \in PartHits(part[r2][q2])
               PROVE  InFlight(r2)' /\ h.age <= waited[r2]
    BY DEF PartsFresh, PartHits
  <2>1. InFlight(r2) /\ h.age <= waited[r2]
    BY DEF Fresh, PartsFresh, PartHits
  <2> QED
    BY <2>1, <1>3, <1>4 DEF InFlight
<1>6. FoundFresh'
  BY <1>3, <1>4 DEF Fresh, FoundFresh, InFlight, CanAccessFull, MaxAge, RetrTypeOK, RequestsOK
<1> QED
  BY <1>1, <1>2, <1>5, <1>6 DEF RetrTypeOK, Fresh

\* A failure is of one of the components.
LEMMA FailsOK ==
    ASSUME RetrTypeOK, NEW r \in Handlers, NEW c \in Components, Fails(r, c)
    PROVE  failed' \in [Handlers -> SUBSET Components]
BY DEF Fails, RetrTypeOK, AnswersOK

\* The type of a query.
LEMMA PartIn ==
    ASSUME RetrTypeOK, NEW r \in Handlers, NEW q \in SubQueries
    PROVE  part[r][q] \in PartStates
BY DEF RetrTypeOK, PartsOK

\* The age of the hits of a query.
LEMMA PartAges ==
    ASSUME RetrTypeOK, Fresh, NEW r \in Handlers, NEW q \in SubQueries
    PROVE  \A h \in PartHits(part[r][q]) : h.age <= waited[r]
BY DEF Fresh, PartsFresh, PartHits

\* A handler that has begun has a request.
LEMMA RequestIs ==
    ASSUME RetrTypeOK, NEW r \in Handlers, stage[r] # "idle"
    PROVE  handler[r] \in SearchRequests
BY DEF RetrTypeOK, RequestsOK

\* What a leg brings joins what the query has.
LEMMA LegOK ==
    ASSUME NEW p \in PartStates, NEW leg \in Legs, NEW how \in {"off", "wait", "ok", "failed"},
           NEW hits \in SUBSET Hits
    PROVE  /\ [p EXCEPT !.leg[leg] = how, !.got[leg] = hits] \in PartStates
           /\ PartHits([p EXCEPT !.leg[leg] = how, !.got[leg] = hits]) \subseteq PartHits(p) \cup hits
           /\ [p EXCEPT !.leg[leg] = how] \in PartStates
           /\ PartHits([p EXCEPT !.leg[leg] = how]) = PartHits(p)
<1> DEFINE x == [p EXCEPT !.leg[leg] = how, !.got[leg] = hits]
           y == [p EXCEPT !.leg[leg] = how]
           legs == [p.leg EXCEPT ![leg] = how]
           gots == [p.got EXCEPT ![leg] = hits]
<1>1. legs \in [Legs -> {"off", "wait", "ok", "failed"}] /\ gots \in [Legs -> SUBSET Hits]
  BY PartFields
<1>2. x = [p EXCEPT !.leg = legs, !.got = gots] /\ y = [p EXCEPT !.leg = legs]
  BY DEF PartStates
<1> HIDE DEF legs
<1>3. x \in PartStates /\ y \in PartStates
  BY <1>1, <1>2 DEF PartStates
<1>4. x.hits = p.hits /\ x.got = gots /\ y.hits = p.hits /\ y.got = p.got
  BY <1>2 DEF PartStates
<1>5. \A l \in Legs : gots[l] = IF l = leg THEN hits ELSE p.got[l]
  BY PartFields
<1> HIDE DEF gots, x, y
<1>6. PartHits(x) \subseteq PartHits(p) \cup hits /\ PartHits(y) = PartHits(p)
  BY <1>4, <1>5 DEF PartHits
<1> QED
  BY <1>3, <1>6 DEF x, y

\* Arrive keeps the invariant.
LEMMA ArriveOK ==
    ASSUME RetrTypeOK, Fresh, NEW r \in Handlers, Arrive(r)
    PROVE  RetrTypeOK' /\ Fresh'
<1>1. /\ stage[r] = "idle" /\ handler[r] # NoSearch
      /\ UNCHANGED <<readers, handler, waited, found, outcome, mode, cacheHit, failed, cached>>
      /\ IF handler[r].kind = "explain" /\ ~handler[r].admin
         THEN stage' = [stage EXCEPT ![r] = "forbidden"] /\ UNCHANGED part
         ELSE IF handler[r].kind = "retrieve" /\ ResultCache
         THEN stage' = [stage EXCEPT ![r] = "lookup"] /\ UNCHANGED part
         ELSE StartSearch(r)
  BY DEF Arrive
<1>2. handler[r] \in SearchRequests
  BY <1>1 DEF RetrTypeOK, RequestsOK
<1>3. found[r] = {}
  BY <1>1 DEF Fresh, FoundFresh
<1> QED
  BY <1>1, <1>2, <1>3, StartSearchOK, NewStageOK

\* AnswerFromCache keeps the invariant: an entry is as old as its age, and its
\* hits were at most as old as a request when it was set.
LEMMA AnswerFromCacheOK ==
    ASSUME RetrTypeOK, Fresh, NEW r \in Handlers, AnswerFromCache(r)
    PROVE  RetrTypeOK' /\ Fresh'
<1> DEFINE entry == cached[CacheKey(handler[r])]
           readable == {h \in entry.hits : CanAccessFull(handler[r], h)}
<1>1. /\ stage[r] = "lookup" /\ entry.age < CacheTtl
      /\ Return(r, "done", readable, DetermineMode(handler[r].mode, NoOutcome))
      /\ cacheHit' = [cacheHit EXCEPT ![r] = TRUE]
      /\ failed' = [failed EXCEPT ![r] = entry.failed]
      /\ UNCHANGED <<readers, handler, cached>>
  BY DEF AnswerFromCache
<1>2. CacheKey(handler[r]) \in CacheKeys
  BY <1>1, KeyOK, RequestIs
<1>3. entry \in Entries /\ \A h \in entry.hits : h.age <= ServerTimeout + entry.age
  BY <1>2 DEF RetrTypeOK, WorldOK, Fresh, CacheFresh
<1> HIDE DEF entry
<1>4. /\ entry.hits \subseteq Hits /\ entry.age \in Nat /\ entry.failed \subseteq Components
  BY <1>3, NumbersOK DEF Entries
<1>5. \A h \in readable : h.age <= MaxAge /\ CanAccessFull(handler[r], h)
  BY <1>1, <1>3, <1>4, NumbersOK DEF Hits
<1>6. readable \in SUBSET Hits /\ "done" \in Ended
  BY <1>4 DEF Ended
<1>7. DetermineMode(handler[r].mode, NoOutcome) \in Modes
  BY ModesOK
<1>8. cacheHit' \in [Handlers -> BOOLEAN] /\ failed' \in [Handlers -> SUBSET Components]
  BY <1>1, <1>4 DEF RetrTypeOK, AnswersOK
<1> HIDE DEF readable
<1>9. RequestsOK' /\ PartsOK' /\ AnswersOK' /\ PartsFresh' /\ FoundFresh'
  BY <1>1, <1>5, <1>6, <1>7, <1>8, ReturnOK
<1> QED
  BY <1>1, <1>9, WorldKept DEF RetrTypeOK, Fresh

\* MissCache keeps the invariant.
LEMMA MissCacheOK ==
    ASSUME RetrTypeOK, Fresh, NEW r \in Handlers, MissCache(r)
    PROVE  RetrTypeOK' /\ Fresh'
<1>1. /\ stage[r] = "lookup" /\ StartSearch(r)
      /\ UNCHANGED <<readers, handler, waited, found, outcome, mode, cacheHit, failed, cached>>
  BY DEF MissCache
<1> QED
  BY <1>1, StartSearchOK, RequestIs, StagesAre

\* Embed and EmbedFails keep the invariant.
LEMMA EmbedOK ==
    ASSUME RetrTypeOK, Fresh, NEW r \in Handlers, NEW q \in SubQueries,
           Embed(r, q) \/ EmbedFails(r, q)
    PROVE  RetrTypeOK' /\ Fresh'
<1>0. stage[r] = "search"
  BY DEF Embed, EmbedFails, Embedding
<1>1. part[r][q] \in PartStates /\ \A h \in PartHits(part[r][q]) : h.age <= waited[r]
  BY PartIn, PartAges
<1>2. ASSUME NEW o \in SUBSET Flags, NEW at \in {"search", "fallback"}, NEW legs
      PROVE  /\ Search([part[r][q] EXCEPT !.outcome = o], at, legs) \in PartStates
             /\ \A h \in PartHits(Search([part[r][q] EXCEPT !.outcome = o], at, legs)) :
                   h.age <= waited[r]
  <2>1. /\ [part[r][q] EXCEPT !.outcome = o] \in PartStates
        /\ [part[r][q] EXCEPT !.outcome = o].hits \subseteq PartHits(part[r][q])
    BY <1>1 DEF PartStates, PartHits
  <2> QED
    BY <1>1, <2>1, SearchOK
<1>3. /\ [IdlePart EXCEPT !.at = "failed"] \in PartStates
      /\ PartHits([IdlePart EXCEPT !.at = "failed"]) = {}
  BY RefuseOK DEF Refuse
<1>4. CASE Embed(r, q)
  <2>1. /\ Step(r, q, Search([part[r][q] EXCEPT !.outcome = {"embedding_ok"}],
                         "search", LegsOf(handler[r])))
        /\ UNCHANGED failed
    BY <1>4 DEF Embed
  <2>2. {"embedding_ok"} \in SUBSET Flags /\ failed' \in [Handlers -> SUBSET Components]
    BY <2>1 DEF Flags, RetrTypeOK, AnswersOK
  <2> QED
    BY <1>0, <1>2, <2>1, <2>2, StepOK
<1>5. CASE EmbedFails(r, q)
  <2> DEFINE p == IF handler[r].kind # "explain" /\ handler[r].mode = "hybrid"
            THEN Search([part[r][q] EXCEPT !.outcome = WithLeg("semantic", FALSE)],
                        "search", {"keyword"})
            ELSE [IdlePart EXCEPT !.at = "failed"]
  <2>1. Step(r, q, p) /\ Fails(r, "embedding")
    BY <1>5 DEF EmbedFails
  <2>2. WithLeg("semantic", FALSE) \in SUBSET Flags
    BY LegFlags
  <2>3. failed' \in [Handlers -> SUBSET Components]
    BY <2>1, FailsOK DEF Components
  <2>4. p \in PartStates /\ \A h \in PartHits(p) : h.age <= waited[r]
    BY <1>2, <1>3, <2>2
  <2> HIDE DEF p
  <2> QED
    BY <1>0, <2>1, <2>3, <2>4, StepOK
<1> QED
  BY <1>4, <1>5

\* SearchStore and SearchFails keep the invariant: a hit is new when a store
\* returns it.
LEMMA SearchStoreOK ==
    ASSUME RetrTypeOK, Fresh, NEW r \in Handlers, NEW q \in SubQueries, NEW leg \in Legs,
           SearchStore(r, q, leg) \/ SearchFails(r, q, leg)
    PROVE  RetrTypeOK' /\ Fresh'
<1>0. stage[r] = "search"
  BY DEF SearchStore, SearchFails, Waiting
<1>1. part[r][q] \in PartStates /\ \A h \in PartHits(part[r][q]) : h.age <= waited[r]
  BY PartIn, PartAges
<1>2. CASE SearchStore(r, q, leg)
  <2>1. PICK chunks \in SUBSET Readable(handler[r]) :
           Step(r, q, Joined(handler[r],
                [part[r][q] EXCEPT !.leg[leg] = "ok",
                                   !.got[leg] = {Hit(c, 0) : c \in chunks}]))
    BY <1>2 DEF SearchStore
  <2> DEFINE hits == {Hit(c, 0) : c \in chunks}
             p == [part[r][q] EXCEPT !.leg[leg] = "ok", !.got[leg] = hits]
  <2>2. hits \in SUBSET Hits /\ \A h \in hits : h.age = 0
    BY DEF Hit, Hits, Readable, RetrTypeOK, WorldOK
  <2>3. waited[r] \in Nat
    BY NumbersOK DEF RetrTypeOK, AnswersOK
  <2> HIDE DEF hits
  <2>4. p \in PartStates /\ PartHits(p) \subseteq PartHits(part[r][q]) \cup hits
    BY <1>1, <2>2, LegOK
  <2>5. Step(r, q, Joined(handler[r], p))
    BY <2>1 DEF hits
  <2> HIDE DEF p
  <2>6. Joined(handler[r], p) \in PartStates /\ PartHits(Joined(handler[r], p)) \subseteq PartHits(p)
    BY <2>4, JoinedOK
  <2>7. \A h \in PartHits(Joined(handler[r], p)) : h.age <= waited[r]
    BY <1>1, <2>2, <2>3, <2>4, <2>6
  <2>8. failed' \in [Handlers -> SUBSET Components]
    BY <1>2 DEF SearchStore, RetrTypeOK, AnswersOK
  <2> QED
    BY <1>0, <2>5, <2>6, <2>7, <2>8, StepOK
<1>3. CASE SearchFails(r, q, leg)
  <2> DEFINE p == [part[r][q] EXCEPT !.leg[leg] = "failed"]
  <2>1. p \in PartStates /\ PartHits(p) = PartHits(part[r][q])
    BY <1>1, LegOK
  <2>2. Step(r, q, Joined(handler[r], p)) /\ Fails(r, leg)
    BY <1>3 DEF SearchFails
  <2> HIDE DEF p
  <2>3. Joined(handler[r], p) \in PartStates /\ PartHits(Joined(handler[r], p)) \subseteq PartHits(p)
    BY <2>1, JoinedOK
  <2>4. \A h \in PartHits(Joined(handler[r], p)) : h.age <= waited[r]
    BY <1>1, <2>1, <2>3
  <2>5. failed' \in [Handlers -> SUBSET Components]
    BY <2>2, FailsOK DEF Components, Legs
  <2> QED
    BY <1>0, <2>2, <2>3, <2>4, <2>5, StepOK
<1> QED
  BY <1>2, <1>3

\* WithRerank sets flags of ComponentOutcome.
LEMMA RerankFlags == \A a, b : WithRerank(a, b) \subseteq Flags
BY DEF WithRerank, Flags

\* The age of the hits of a request.
LEMMA FoundAges ==
    ASSUME RetrTypeOK, Fresh, NEW r \in Handlers, InFlight(r)
    PROVE  \A h \in found[r] : h.age <= waited[r]
BY DEF Fresh, FoundFresh

\* Gather keeps the invariant.
LEMMA GatherOK ==
    ASSUME RetrTypeOK, Fresh, NEW r \in Handlers, Gather(r)
    PROVE  RetrTypeOK' /\ Fresh'
<1> DEFINE served == Parts(r) \ Unserved(r)
           hits == UNION {p.hits : p \in served}
           merged == UNION {p.outcome : p \in served}
<1>1. /\ stage[r] = "search"
      /\ IF served = {} THEN Return(r, "error", {}, "None")
         ELSE IF handler[r].rerank /\ Reranker
         THEN /\ stage' = [stage EXCEPT ![r] = "rerank"]
              /\ found' = [found EXCEPT ![r] = hits]
              /\ outcome' = [outcome EXCEPT ![r] = merged]
              /\ UNCHANGED <<waited, part, mode>>
         ELSE Conclude(r, hits, merged)
      /\ UNCHANGED <<readers, handler, cacheHit, failed, cached, changes, outages>>
  BY DEF Gather
<1>2. Queries(handler[r]) \subseteq SubQueries
  BY RetrievalAssumption DEF Queries
<1>3. \A p \in served : p \in PartStates /\ \A h \in p.hits : h.age <= waited[r]
  <2> SUFFICES ASSUME NEW q \in SubQueries
               PROVE  part[r][q] \in PartStates /\ \A h \in part[r][q].hits : h.age <= waited[r]
    BY <1>2 DEF Parts
  <2> QED
    BY PartIn, PartAges DEF PartHits
<1> HIDE DEF served
<1>4. hits \in SUBSET Hits /\ merged \in SUBSET Flags /\ \A h \in hits : h.age <= waited[r]
  BY <1>3, PartFields
<1> HIDE DEF hits, merged
<1>5. InFlight(r) /\ stage[r] # "idle" /\ "error" \in Ended /\ "None" \in Modes
  BY <1>1, StagesAre DEF Ended, Modes
<1>6. failed' \in [Handlers -> SUBSET Components] /\ cacheHit' \in [Handlers -> BOOLEAN]
  BY <1>1 DEF RetrTypeOK, AnswersOK
<1>7. RequestsOK' /\ PartsOK' /\ AnswersOK' /\ PartsFresh' /\ FoundFresh'
  <2>1. CASE served = {}
    BY <1>1, <1>5, <1>6, <2>1, ReturnOK
  <2>2. CASE served # {} /\ handler[r].rerank /\ Reranker
    BY <1>1, <1>4, <1>5, <1>6, <2>2, MoveOK
  <2>3. CASE served # {} /\ ~(handler[r].rerank /\ Reranker)
    BY <1>1, <1>4, <1>5, <1>6, <2>3, ConcludeOK
  <2> QED
    BY <2>1, <2>2, <2>3
<1> QED
  BY <1>1, <1>7, WorldKept DEF RetrTypeOK, Fresh

\* Rerank and RerankFails keep the invariant.
LEMMA RerankOK ==
    ASSUME RetrTypeOK, Fresh, NEW r \in Handlers, Rerank(r) \/ RerankFails(r)
    PROVE  RetrTypeOK' /\ Fresh'
<1>1. PICK best \in SUBSET found[r], ok \in BOOLEAN :
          Conclude(r, best, outcome[r] \cup WithRerank(TRUE, ok))
  BY DEF Rerank, RerankFails
<1>2. /\ stage[r] = "rerank" /\ InFlight(r)
      /\ UNCHANGED <<readers, handler, cacheHit, cached>>
  BY StagesAre DEF Rerank, RerankFails
<1>3. best \in SUBSET Hits /\ outcome[r] \cup WithRerank(TRUE, ok) \in SUBSET Flags
  BY RerankFlags DEF RetrTypeOK, AnswersOK
<1>4. \A h \in best : h.age <= waited[r]
  BY <1>2, FoundAges
<1>5. failed' \in [Handlers -> SUBSET Components]
  BY FailsOK DEF Rerank, RerankFails, Components, RetrTypeOK, AnswersOK
<1>6. RequestsOK' /\ PartsOK' /\ AnswersOK' /\ PartsFresh' /\ FoundFresh'
  BY <1>1, <1>2, <1>3, <1>4, <1>5, ConcludeOK
<1> QED
  BY <1>2, <1>6, WorldKept DEF RetrTypeOK, Fresh

\* Store and TimeOut keep the invariant, whether or not the SET arrives.
LEMMA StoreOK ==
    ASSUME RetrTypeOK, Fresh, NEW r \in Handlers, Store(r) \/ TimeOut(r)
    PROVE  RetrTypeOK' /\ Fresh'
<1>1. InFlight(r) /\ stage[r] # "idle"
  BY StagesAre DEF Store, TimeOut
<1>2. /\ \/ stage[r] = "store" /\ cached' = [cached EXCEPT ![CacheKey(handler[r])] = Entry(r)]
         \/ UNCHANGED cached
      /\ UNCHANGED <<readers, handler, cacheHit, failed>>
  BY DEF Store, TimeOut
<1>3. failed' \in [Handlers -> SUBSET Components] /\ cacheHit' \in [Handlers -> BOOLEAN]
  BY <1>2 DEF RetrTypeOK, AnswersOK
<1>4. RequestsOK' /\ PartsOK' /\ AnswersOK' /\ PartsFresh' /\ FoundFresh'
  <2>1. CASE Store(r)
    <3>1. stage[r] = "store" /\ Return(r, "done", found[r], DegradationMode(r, outcome[r]))
      BY <2>1 DEF Store
    <3>2. found[r] \in SUBSET Hits /\ waited[r] \in 0..ServerTimeout
      BY DEF RetrTypeOK, AnswersOK
    <3>3. \A h \in found[r] : h.age <= MaxAge /\ CanAccessFull(handler[r], h)
      BY <1>1, <3>1, <3>2, FoundAges, NumbersOK DEF Hits, Fresh, FoundFresh
    <3>4. DegradationMode(r, outcome[r]) \in Modes /\ "done" \in Ended
      BY ModesOK DEF Ended
    <3> QED
      BY <1>1, <1>2, <1>3, <3>1, <3>2, <3>3, <3>4, ReturnOK
  <2>2. CASE TimeOut(r)
    <3>1. Return(r, "timeout", {}, "None") /\ "timeout" \in Ended /\ "None" \in Modes
      BY <2>2 DEF TimeOut, Ended, Modes
    <3> QED
      BY <1>1, <1>2, <1>3, <3>1, ReturnOK
  <2> QED
    BY <2>1, <2>2
<1>5. WorldOK' /\ CacheFresh'
  BY <1>2, SetOK, WorldKept
<1> QED
  BY <1>4, <1>5 DEF RetrTypeOK, Fresh

\* A tick makes a hit older by one and leaves its readers alone.
LEMMA OlderOK ==
    ASSUME NEW hits \in SUBSET Hits
    PROVE  /\ Older(hits) \in SUBSET Hits
           /\ \A bound \in Nat : (\A h \in hits : h.age <= bound) =>
                                 \A h \in Older(hits) : h.age <= bound + 1
           /\ \A s : (\A h \in hits : CanAccessFull(s, h)) =>
                     \A h \in Older(hits) : CanAccessFull(s, h)
<1>1. \A h \in hits : [h EXCEPT !.age = @ + 1] \in Hits
  BY DEF Hits
<1>2. \A h \in hits : /\ [h EXCEPT !.age = @ + 1].age = h.age + 1
                      /\ [h EXCEPT !.age = @ + 1].readers = h.readers
                      /\ h.age \in Nat
  BY DEF Hits
<1>3. \A g \in Older(hits) : \E h \in hits : g = [h EXCEPT !.age = @ + 1]
  BY DEF Older
<1>4. Older(hits) \in SUBSET Hits
  BY <1>1, <1>3
<1>5. \A g \in Older(hits) : \E h \in hits : g.age = h.age + 1 /\ g.readers = h.readers /\ h.age \in Nat
  <2> TAKE g \in Older(hits)
  <2>1. PICK h \in hits : g = [h EXCEPT !.age = @ + 1]
    BY <1>3
  <2> WITNESS h \in hits
  <2> QED
    BY <1>2, <2>1
<1>6. ASSUME NEW bound \in Nat, \A h \in hits : h.age <= bound, NEW g \in Older(hits)
      PROVE  g.age <= bound + 1
  <2>1. PICK h \in hits : g.age = h.age + 1 /\ h.age \in Nat
    BY <1>5
  <2> QED
    BY <1>6, <2>1
<1>7. ASSUME NEW s, \A h \in hits : CanAccessFull(s, h), NEW g \in Older(hits)
      PROVE  CanAccessFull(s, g)
  BY <1>5, <1>7 DEF CanAccessFull
<1> QED
  BY <1>4, <1>6, <1>7

\* Tick keeps the invariant: a request in flight ages with its hits, an entry
\* with its own, and what nobody waits for is gone.
LEMMA TickOK ==
    ASSUME RetrTypeOK, Fresh, Tick
    PROVE  RetrTypeOK' /\ Fresh'
<1>1. UNCHANGED <<readers, handler, stage, outcome, mode, cacheHit, failed>>
  BY DEF Tick
<1>2. \A r \in Handlers : InFlight(r)' <=> InFlight(r)
  BY <1>1 DEF InFlight
<1>3. \A r \in Handlers :
        /\ waited[r] \in 0..ServerTimeout
        /\ InFlight(r) => waited[r] < ServerTimeout
        /\ waited'[r] = IF InFlight(r) THEN waited[r] + 1 ELSE 0
        /\ found'[r] = IF InFlight(r) THEN Older(found[r]) ELSE found[r]
        /\ found[r] \in SUBSET Hits
  BY DEF Tick, RetrTypeOK, AnswersOK
<1>4. RequestsOK'
  BY <1>1 DEF RetrTypeOK, RequestsOK
<1>5. AnswersOK'
  <2>1. \A r \in Handlers : waited'[r] \in 0..ServerTimeout
    BY <1>3, NumbersOK
  <2>2. \A r \in Handlers : found'[r] \in SUBSET Hits
    BY <1>3, OlderOK
  <2>3. /\ waited' = [r \in Handlers |-> waited'[r]] /\ found' = [r \in Handlers |-> found'[r]]
    BY DEF Tick
  <2>4. waited' \in [Handlers -> 0..ServerTimeout] /\ found' \in [Handlers -> SUBSET Hits]
    BY <2>1, <2>2, <2>3
  <2> QED
    BY <1>1, <2>4 DEF RetrTypeOK, AnswersOK
<1>6. ASSUME NEW r \in Handlers, NEW q \in SubQueries
      PROVE  /\ part'[r][q] \in PartStates
             /\ PartHits(part'[r][q]) = Older(PartHits(part[r][q]))
  <2> DEFINE p == part[r][q]
             gots == [l \in Legs |-> Older(p.got[l])]
  <2>1. p \in PartStates
    BY PartIn
  <2>2. part'[r][q] = [p EXCEPT !.got = gots, !.hits = Older(p.hits)]
    BY <2>1 DEF Tick, PartStates
  <2> HIDE DEF p
  <2>3. \A l \in Legs : p.got[l] \in SUBSET Hits /\ gots[l] = Older(p.got[l])
    BY <2>1, PartFields
  <2>4. gots \in [Legs -> SUBSET Hits] /\ Older(p.hits) \in SUBSET Hits
    BY <2>1, <2>3, PartFields, OlderOK
  <2> HIDE DEF gots
  <2>5. part'[r][q] \in PartStates
    BY <2>1, <2>2, <2>4 DEF PartStates
  <2>6. part'[r][q].got = gots /\ part'[r][q].hits = Older(p.hits)
    BY <2>1, <2>2 DEF PartStates
  <2>7. PartHits(part'[r][q]) = Older(PartHits(p))
    BY <2>3, <2>6 DEF PartHits, Older
  <2> QED
    BY <2>5, <2>7 DEF p
<1>7. PartsOK'
  <2>1. part' = [r \in Handlers |-> [q \in SubQueries |-> part'[r][q]]]
    BY DEF Tick
  <2> QED
    BY <1>6, <2>1 DEF PartsOK
<1>8. PartsFresh'
  <2> SUFFICES ASSUME NEW r \in Handlers, NEW q \in SubQueries,
                      NEW h \in PartHits(part'[r][q])
               PROVE  InFlight(r)' /\ h.age <= waited'[r]
    BY DEF PartsFresh, PartHits
  <2>1. PartHits(part[r][q]) \in SUBSET Hits
    BY PartIn, PartFields DEF PartHits
  <2>2. h \in Older(PartHits(part[r][q]))
    BY <1>6
  <2>3. PICK g \in PartHits(part[r][q]) : TRUE
    BY <2>2 DEF Older
  <2>4. InFlight(r) /\ \A x \in PartHits(part[r][q]) : x.age <= waited[r]
    BY <2>3 DEF Fresh, PartsFresh, PartHits
  <2>5. waited[r] \in Nat
    BY <1>3, NumbersOK
  <2>6. h.age <= waited[r] + 1
    BY <2>1, <2>2, <2>4, <2>5, OlderOK
  <2> QED
    BY <1>2, <1>3, <2>4, <2>6
<1>9. FoundFresh'
  <2> SUFFICES ASSUME NEW r \in Handlers
               PROVE  /\ stage[r] = "idle" => found'[r] = {}
                      /\ InFlight(r) => \A h \in found'[r] : h.age <= waited'[r]
                      /\ stage[r] = "done" => \A h \in found'[r] : h.age <= MaxAge
                      /\ stage[r] \in {"store", "done"} =>
                            \A h \in found'[r] : CanAccessFull(handler[r], h)
    BY <1>1, <1>2 DEF FoundFresh, CanAccessFull, MaxAge
  <2>1. CASE InFlight(r)
    <3>1. \A h \in found[r] : h.age <= waited[r]
      BY <2>1, FoundAges
    <3>2. waited[r] \in Nat /\ found[r] \in SUBSET Hits
      BY <1>3, NumbersOK
    <3>3. \A h \in Older(found[r]) : h.age <= waited[r] + 1
      BY <3>1, <3>2, OlderOK
    <3>4. stage[r] = "store" => \A h \in found[r] : CanAccessFull(handler[r], h)
      BY DEF Fresh, FoundFresh
    <3>5. stage[r] = "store" => \A h \in Older(found[r]) : CanAccessFull(handler[r], h)
      BY <3>2, <3>4, OlderOK
    <3> QED
      BY <1>3, <2>1, <3>3, <3>5, StagesAre
  <2>2. CASE ~InFlight(r)
    BY <1>3, <2>2 DEF Fresh, FoundFresh
  <2> QED
    BY <2>1, <2>2
<1>10. ASSUME NEW k \in CacheKeys
       PROVE  cached'[k] \in Entries /\ \A h \in cached'[k].hits : h.age <= ServerTimeout + cached'[k].age
  <2> DEFINE e == cached[k]
  <2>1. /\ e \in Entries /\ \A h \in e.hits : h.age <= ServerTimeout + e.age
        /\ e.hits \in SUBSET Hits /\ e.age \in Nat
    BY NumbersOK DEF RetrTypeOK, WorldOK, Fresh, CacheFresh, Entries
  <2>2. cached'[k] = IF e.age + 1 >= CacheTtl THEN NoEntry
                     ELSE [e EXCEPT !.age = e.age + 1, !.hits = Older(e.hits)]
    BY <2>1 DEF Tick, Entries
  <2> HIDE DEF e
  <2>3. CASE e.age + 1 >= CacheTtl
    BY <2>2, <2>3, NumbersOK DEF NoEntry, Entries
  <2>4. CASE ~(e.age + 1 >= CacheTtl)
    <3> DEFINE new == [e EXCEPT !.age = e.age + 1, !.hits = Older(e.hits)]
    <3>1. e.age + 1 \in 0..CacheTtl /\ Older(e.hits) \in SUBSET Hits
      BY <2>1, <2>4, NumbersOK, OlderOK
    <3>2. new \in Entries /\ new.age = e.age + 1 /\ new.hits = Older(e.hits)
      BY <2>1, <3>1 DEF Entries
    <3>3. ServerTimeout + e.age \in Nat /\ ServerTimeout + new.age = (ServerTimeout + e.age) + 1
      BY <2>1, <3>2, NumbersOK
    <3>4. \A h \in Older(e.hits) : h.age <= (ServerTimeout + e.age) + 1
      BY <2>1, <3>3, OlderOK
    <3> QED
      BY <2>2, <2>4, <3>2, <3>3, <3>4
  <2> QED
    BY <2>3, <2>4
<1>11. WorldOK' /\ CacheFresh'
  <2>1. cached' = [k \in CacheKeys |-> cached'[k]]
    BY DEF Tick
  <2> QED
    BY <1>1, <1>10, <2>1 DEF RetrTypeOK, WorldOK, CacheFresh
<1> QED
  BY <1>4, <1>5, <1>7, <1>8, <1>9, <1>11 DEF RetrTypeOK, Fresh

\* ChangeAcl keeps the invariant: no hit knows of it.
LEMMA ChangeAclOK ==
    ASSUME RetrTypeOK, Fresh, NEW c \in Chunks, NEW to \in SUBSET Readers, ChangeAcl(c, to)
    PROVE  RetrTypeOK' /\ Fresh'
<1>1. readers' = [readers EXCEPT ![c] = to] /\ UNCHANGED <<searchVars, cached>>
  BY DEF ChangeAcl
<1>2. RetrTypeOK'
  BY <1>1 DEF searchVars, RetrTypeOK, RequestsOK, PartsOK, AnswersOK, WorldOK
<1>3. Fresh'
  BY <1>1 DEF searchVars, Fresh, PartsFresh, FoundFresh, CacheFresh, InFlight, CanAccessFull, MaxAge
<1> QED
  BY <1>2, <1>3

\* The types, and the freshness of whatever is held in a query, in a request
\* or in the cache, are an inductive invariant of the retrieval routes.
THEOREM RetrInductive == RetrSpec => [](RetrTypeOK /\ Fresh)
<1>1. RetrInit => RetrTypeOK /\ Fresh
  BY InitOK
<1>2. RetrTypeOK /\ Fresh /\ [RetrNext]_retrVars => (RetrTypeOK /\ Fresh)'
  <2> SUFFICES ASSUME RetrTypeOK, Fresh, [RetrNext]_retrVars PROVE RetrTypeOK' /\ Fresh'
    OBVIOUS
  <2>1. ASSUME NEW r \in Handlers, SearchStep(r) PROVE RetrTypeOK' /\ Fresh'
    BY <2>1, ArriveOK, AnswerFromCacheOK, MissCacheOK, EmbedOK, SearchStoreOK, GatherOK,
       RerankOK, StoreOK DEF SearchStep
  <2>2. CASE Tick
    BY <2>2, TickOK
  <2>3. ASSUME NEW c \in Chunks, NEW to \in SUBSET Readers, ChangeAcl(c, to)
        PROVE  RetrTypeOK' /\ Fresh'
    BY <2>3, ChangeAclOK
  <2>4. CASE UNCHANGED retrVars
    <3>1. RetrTypeOK'
      BY <2>4 DEF retrVars, searchVars, RetrTypeOK, RequestsOK, PartsOK, AnswersOK, WorldOK
    <3>2. Fresh'
      BY <2>4 DEF retrVars, searchVars, Fresh, PartsFresh, FoundFresh, CacheFresh, InFlight,
                  CanAccessFull, MaxAge
    <3> QED
      BY <3>1, <3>2
  <2> QED
    BY <2>1, <2>2, <2>3, <2>4 DEF RetrNext
<1> QED
  BY <1>1, <1>2, PTL DEF RetrSpec

\* Whatever a request is answered with, its user was allowed to read when a
\* store returned it, at most ServerTimeout + CacheTtl ago: for every number of
\* requests, queries, chunks and readers, and every timeout and time to live.
THEOREM StaleAnswersAreBounded == RetrSpec => []StaleAnswerBounded
<1>1. RetrTypeOK /\ Fresh => StaleAnswerBounded
  BY DEF Fresh, FoundFresh, StaleAnswerBounded, CanAccessFull
<1> QED
  BY <1>1, RetrInductive, PTL

----------------------------------------------------------------------------
(* The failures a request has met.                                         *)

\* What a failure leaves behind in the query that met it.
SearchFlags == {"semantic_attempted", "semantic_ok", "keyword_attempted", "keyword_ok",
                "embedding_ok"}
Searches == Legs \cup {"embedding"}
Robust(s) == s.kind # "explain" /\ s.mode = "hybrid"
Twice(f) == \E a, b \in Searches : a # b /\ a \in f /\ b \in f
Degraded(o) == SemanticFailed(o) \/ KeywordFailed(o)
Hurt(p) ==
    \/ p.at \in {"failed", "fallback"}
    \/ \E l \in Legs : p.leg[l] = "failed"
    \/ p.at \in {"search", "ok"} /\ Degraded(p.outcome)

\* How a query of s, which f have failed, got where it is.
Ran(s, f, p) ==
    /\ p.outcome \subseteq SearchFlags
    /\ \A l \in Legs : p.leg[l] = "failed" => l \in f
    /\ p.at \in {"off", "embed", "ok", "failed"} => \A l \in Legs : p.leg[l] = "off"
    /\ p.at \in {"search", "fallback"} =>
           /\ p.outcome \subseteq {"embedding_ok", "semantic_attempted"}
           /\ "semantic_attempted" \in p.outcome <=> Robust(s) /\ p.leg["semantic"] = "off"
           /\ s.mode # "hybrid" => \E l \in Legs : p.leg[l] = "off"
           /\ Robust(s) => p.leg["keyword"] # "off"
           /\ Robust(s) /\ p.leg["semantic"] = "off" => "embedding" \in f
    /\ p.at = "fallback" => Robust(s) /\ \A l \in Legs : p.leg[l] # "off"
    /\ p.at \in {"off", "embed"} => p.outcome = {}
    /\ p.at = "failed" /\ Robust(s) => Twice(f)
    /\ p.at = "ok" /\ s.mode # "hybrid" => ~Degraded(p.outcome)
Path(s, f, p) ==
    /\ Ran(s, f, p)
    /\ p.at \in {"search", "fallback"} => \E l \in Legs : p.leg[l] = "wait"

\* Every failure f of a request shows in the queries ps or in the outcome o.
Shown(s, ps, f, o) ==
    /\ f \cap Searches # {} =>
           /\ s.mode = "hybrid"
           /\ IF s.kind = "multi"
              THEN \E q \in Queries(s) : ps[q].at = "failed" \/ Degraded(ps[q].outcome)
              ELSE Degraded(o)
    /\ "reranker" \in f => RerankSkipped(o)

Seen(r) ==
    /\ handler[r].kind = "multi" => handler[r].mode = "hybrid"
    /\ \A q \in SubQueries : Path(handler[r], failed[r], part[r][q])
    /\ \A q \in SubQueries \ Queries(handler[r]) : part[r][q].at = "off"
    /\ stage[r] \in {"idle", "lookup"} => failed[r] = {}
    /\ stage[r] \in {"search", "rerank"} => "reranker" \notin failed[r]
    /\ stage[r] = "search" /\ failed[r] # {} =>
           \E q \in Queries(handler[r]) : Hurt(part[r][q])
    /\ stage[r] = "rerank" => outcome[r] \subseteq SearchFlags
    /\ stage[r] \in {"rerank", "store"} => Shown(handler[r], part[r], failed[r], outcome[r])
    /\ stage[r] = "error" /\ Robust(handler[r]) => Twice(failed[r])
    /\ stage[r] = "done" /\ ~cacheHit[r] /\ failed[r] # {} => mode[r] # "None"
FailuresSeen == \A r \in Handlers : Seen(r)

\* A query that has not begun has met no failure.
LEMMA PathIdle == \A s, f : Path(s, f, IdlePart) /\ ~Hurt(IdlePart)
BY DEF Path, Ran, IdlePart, NoOutcome, Hurt

\* More failures explain no less.
LEMMA PathMonotone ==
    ASSUME NEW s, NEW f, NEW g, NEW p, Path(s, f, p), f \subseteq g
    PROVE  Path(s, g, p)
BY DEF Path, Ran, Twice

\* The hits of a query do not matter.
LEMMA PathSame ==
    ASSUME NEW s, NEW f, NEW p, NEW o, Path(s, f, p),
           o.at = p.at, o.leg = p.leg, o.outcome = p.outcome
    PROVE  Path(s, f, o) /\ (Hurt(p) => Hurt(o))
BY DEF Path, Ran, Hurt

\* What Search sets.
LEMMA SearchFields ==
    ASSUME NEW p \in PartStates, NEW at, NEW legs
    PROVE  LET x == Search(p, at, legs)
           IN /\ x.at = at /\ x.outcome = p.outcome
              /\ \A l \in Legs : x.leg[l] = IF l \in legs THEN "wait" ELSE "off"
BY DEF Search, PartStates

\* What the end of a query sets.
LEMMA EndFields ==
    ASSUME NEW p, NEW hits, NEW o
    PROVE  /\ Serve(p, hits, o).at = "ok" /\ Serve(p, hits, o).outcome = o
           /\ \A l \in Legs : Serve(p, hits, o).leg[l] = "off"
           /\ Refuse.at = "failed" /\ Refuse.outcome = {}
           /\ \A l \in Legs : Refuse.leg[l] = "off"
BY DEF Serve, Refuse, IdlePart, NoOutcome

\* A query that fails was failed twice, or had no fallback.
LEMMA RefusePath ==
    ASSUME NEW s, NEW f, Robust(s) => Twice(f)
    PROVE  Path(s, f, Refuse) /\ Hurt(Refuse)
BY EndFields DEF Path, Ran, Hurt

\* There are no other stores.
LEMMA LegsTwo == \A l \in Legs : l = "semantic" \/ l = "keyword"
BY DEF Legs

\* The fallback serves a degraded answer, or was failed by both stores.
LEMMA FallBackPath ==
    ASSUME NEW s, NEW f, NEW p \in PartStates, Ran(s, f, p), p.at = "fallback",
           \A l \in Legs : p.leg[l] # "wait"
    PROVE  Path(s, f, FallBack(p)) /\ Hurt(FallBack(p))
<1>0. /\ Robust(s) /\ \A l \in Legs : p.leg[l] # "off" /\ p.leg[l] \in {"ok", "failed"}
  BY PartFields DEF Ran
<1>1. CASE Answered(p) = {}
  <2>1. p.leg["semantic"] = "failed" /\ p.leg["keyword"] = "failed"
    BY <1>0, <1>1, LegsAre DEF Answered
  <2>2. Twice(f)
    BY <2>1, LegsAre DEF Ran, Twice, Searches
  <2> QED
    BY <1>1, <2>2, RefusePath DEF FallBack
<1>2. CASE Answered(p) # {}
  <2> DEFINE leg == IF Cardinality(Answered(p)) = 1
                    THEN CHOOSE l \in Legs : l \in Answered(p)
                    ELSE IF Cardinality(p.got["semantic"]) >= Cardinality(p.got["keyword"])
                         THEN "semantic" ELSE "keyword"
             o == p.outcome \cup UNION {WithLeg(l, l = leg) : l \in Legs}
  <2>1. leg \in Legs
    BY <1>2, LegsAre DEF Answered
  <2>2. FallBack(p) = Serve(p, p.got[leg], o)
    BY <1>2 DEF FallBack
  <2>3. leg = "semantic" \/ leg = "keyword"
    BY <2>1, LegsTwo
  <2> HIDE DEF leg
  <2>4. o = p.outcome \cup WithLeg("semantic", "semantic" = leg) \cup WithLeg("keyword", "keyword" = leg)
    BY DEF Legs
  <2> HIDE DEF o
  <2>5. p.outcome \subseteq {"embedding_ok", "semantic_attempted"}
    BY DEF Ran
  <2>6. o \subseteq SearchFlags /\ Degraded(o)
    BY <2>3, <2>4, <2>5 DEF WithLeg, SearchFlags, Degraded, SemanticFailed, KeywordFailed
  <2>7. s.mode = "hybrid"
    BY <1>0 DEF Robust
  <2> QED
    BY <2>2, <2>6, <2>7, EndFields DEF Path, Ran, Hurt
<1> QED
  BY <1>1, <1>2

\* The flags of the legs that answered.
Told(A) == UNION {WithLeg(l, TRUE) : l \in A}

\* A flag of the legs that answered is the flag of one of them.
LEMMA LegsMerged ==
    ASSUME NEW p, NEW x \in Told(Answered(p))
    PROVE  \/ "semantic" \in Answered(p) /\ x \in WithLeg("semantic", TRUE)
           \/ "keyword" \in Answered(p) /\ x \in WithLeg("keyword", TRUE)
<1>1. PICK S \in {WithLeg(l, TRUE) : l \in Answered(p)} : x \in S
  BY DEF Told
<1>2. PICK l \in Answered(p) : x \in WithLeg(l, TRUE)
  BY <1>1
<1> QED
  BY <1>2, LegsTwo DEF Answered

\* A query that has been hurt still shows it when its last leg has ended.
LEMMA JoinedPath ==
    ASSUME NEW s \in SearchRequests, NEW f, NEW p \in PartStates, Ran(s, f, p),
           p.at \in {"search", "fallback"}
    PROVE  Path(s, f, Joined(s, p)) /\ (Hurt(p) => Hurt(Joined(s, p)))
<1>1. CASE "wait" \in {p.leg[l] : l \in Legs}
  BY <1>1 DEF Joined, Path
<1>2. CASE "wait" \notin {p.leg[l] : l \in Legs} /\ p.at = "fallback"
  BY <1>2, FallBackPath DEF Joined
<1>3. CASE "wait" \notin {p.leg[l] : l \in Legs} /\ p.at = "search" /\ Failed(p) = {}
  <2> DEFINE o == p.outcome \cup Told(Answered(p))
  <2>1. Joined(s, p) = Serve(p, Fuse(p.got), o)
    BY <1>3 DEF Joined, Told
  <2>2. /\ p.outcome \subseteq {"embedding_ok", "semantic_attempted"}
        /\ "semantic_attempted" \in p.outcome <=> Robust(s) /\ p.leg["semantic"] = "off"
    BY <1>3 DEF Ran
  <2>3. \A x \in o :
            \/ x \in p.outcome
            \/ "semantic" \in Answered(p) /\ x \in WithLeg("semantic", TRUE)
            \/ "keyword" \in Answered(p) /\ x \in WithLeg("keyword", TRUE)
    BY LegsMerged
  <2>4. /\ p.outcome \subseteq o
        /\ "semantic" \in Answered(p) => WithLeg("semantic", TRUE) \subseteq o
        /\ "keyword" \in Answered(p) => WithLeg("keyword", TRUE) \subseteq o
    BY DEF Told
  <2> HIDE DEF o
  <2>5. o \subseteq SearchFlags
    BY <2>2, <2>3 DEF WithLeg, SearchFlags
  <2>6. ~Robust(s) => ~Degraded(o)
    BY <2>2, <2>3, <2>4 DEF WithLeg, Degraded, SemanticFailed, KeywordFailed
  <2>7. Hurt(p) => Degraded(o)
    <3>1. Hurt(p) => Degraded(p.outcome)
      BY <1>3 DEF Hurt, Failed
    <3>2. Degraded(p.outcome) => "semantic_attempted" \in p.outcome
      BY <2>2 DEF Degraded, SemanticFailed, KeywordFailed
    <3>3. "semantic_attempted" \in p.outcome => "semantic" \notin Answered(p)
      BY <2>2 DEF Answered
    <3>4. "semantic_attempted" \in p.outcome => "semantic_ok" \notin o
      BY <2>2, <2>3, <3>3 DEF WithLeg
    <3> QED
      BY <2>4, <3>1, <3>2, <3>4 DEF Degraded, SemanticFailed
  <2> QED
    BY <2>1, <2>5, <2>6, <2>7, EndFields DEF Path, Ran, Hurt, Robust
<1>4. CASE /\ "wait" \notin {p.leg[l] : l \in Legs} /\ p.at = "search" /\ Failed(p) # {}
           /\ s.kind # "explain" /\ p.leg["semantic"] # "off" /\ p.leg["keyword"] # "off"
  <2> DEFINE x == Search(p, "fallback", Legs)
  <2>1. Joined(s, p) = x
    BY <1>4 DEF Joined
  <2>2. x.at = "fallback" /\ x.outcome = p.outcome /\ \A l \in Legs : x.leg[l] = "wait"
    BY SearchFields
  <2> HIDE DEF x
  <2>3. Robust(s)
    BY <1>4, LegsTwo DEF Ran, Robust
  <2> QED
    BY <1>4, <2>1, <2>2, <2>3, LegsAre DEF Path, Ran, Hurt, Robust
<1>5. CASE /\ "wait" \notin {p.leg[l] : l \in Legs} /\ p.at = "search" /\ Failed(p) # {}
           /\ ~(s.kind # "explain" /\ p.leg["semantic"] # "off" /\ p.leg["keyword"] # "off")
  <2>1. Joined(s, p) = Refuse
    BY <1>5 DEF Joined
  <2>2. ASSUME Robust(s) PROVE Twice(f)
    <3>1. p.leg["keyword"] # "off" /\ p.leg["semantic"] = "off" /\ "embedding" \in f
      BY <1>5, <2>2 DEF Ran, Robust
    <3>2. p.leg["keyword"] = "failed"
      BY <1>5, <3>1, LegsTwo DEF Failed
    <3>3. "keyword" \in f
      BY <3>2, LegsAre DEF Ran
    <3> QED
      BY <3>1, <3>3, LegsAre DEF Twice, Searches
  <2> QED
    BY <2>1, <2>2, RefusePath
<1> QED
  BY <1>1, <1>2, <1>3, <1>4, <1>5

Same(r) ==
    /\ handler'[r] = handler[r] /\ stage'[r] = stage[r] /\ part'[r] = part[r]
    /\ outcome'[r] = outcome[r] /\ mode'[r] = mode[r]
    /\ cacheHit'[r] = cacheHit[r] /\ failed'[r] = failed[r]

\* A request that a step leaves alone.
LEMMA SeenSame ==
    ASSUME NEW r \in Handlers, Seen(r), Same(r)
    PROVE  Seen(r)'
BY DEF Seen, Same

\* What a step of one request leaves of the others.
Only(r) == \A o \in Handlers \ {r} : Same(o)

\* A step of a query leaves the other requests alone.
LEMMA StepOnly ==
    ASSUME RetrTypeOK, NEW r \in Handlers, NEW q \in SubQueries, NEW p, Step(r, q, p),
           failed' = failed \/ \E c : failed' = [failed EXCEPT ![r] = @ \cup {c}]
    PROVE  Only(r)
BY DEF Only, Same, Step, RetrTypeOK, RequestsOK, PartsOK, AnswersOK

\* A return leaves the other requests alone.
LEMMA ReturnOnly ==
    ASSUME RetrTypeOK, NEW r \in Handlers, NEW how, NEW hits, NEW m, Return(r, how, hits, m),
           UNCHANGED handler,
           cacheHit' = cacheHit \/ \E b : cacheHit' = [cacheHit EXCEPT ![r] = b],
           failed' = failed \/ \E f : failed' = [failed EXCEPT ![r] = f]
    PROVE  /\ Only(r)
           /\ stage'[r] = how /\ outcome'[r] = {} /\ mode'[r] = m
           /\ \A q \in SubQueries : part'[r][q] = IdlePart
BY DEF Only, Same, Return, RetrTypeOK, RequestsOK, PartsOK, AnswersOK, NoOutcome

\* A request that has ended.
LEMMA EndSeen ==
    ASSUME NEW r \in Handlers, Seen(r), handler'[r] = handler[r],
           stage'[r] \in Ended,
           \A q \in SubQueries : part'[r][q] = IdlePart,
           stage'[r] = "error" /\ Robust(handler[r]) => Twice(failed'[r]),
           stage'[r] = "done" /\ ~cacheHit'[r] /\ failed'[r] # {} => mode'[r] # "None"
    PROVE  Seen(r)'
<1>1. \A q \in SubQueries : /\ Path(handler'[r], failed'[r], part'[r][q])
                            /\ part'[r][q].at = "off"
  <2>1. IdlePart.at = "off"
    BY DEF IdlePart
  <2> QED
    BY <2>1, PathIdle
<1>2. stage'[r] \notin {"idle", "lookup", "search", "rerank", "store"}
  BY DEF Ended
<1> QED
  BY <1>1, <1>2 DEF Seen

\* A query moves on and hides no failure.
LEMMA StepSeen ==
    ASSUME RetrTypeOK, NEW r \in Handlers, NEW q \in SubQueries, NEW p, Step(r, q, p),
           stage[r] = "search", Seen(r), part[r][q].at # "off",
           failed[r] \subseteq failed'[r], "reranker" \notin failed'[r],
           Path(handler[r], failed'[r], p),
           Hurt(part[r][q]) => Hurt(p),
           failed'[r] # failed[r] => Hurt(p)
    PROVE  Seen(r)'
<1>1. /\ handler'[r] = handler[r] /\ stage'[r] = stage[r] /\ cacheHit'[r] = cacheHit[r]
      /\ part'[r][q] = p /\ \A o \in SubQueries \ {q} : part'[r][o] = part[r][o]
  BY DEF Step, RetrTypeOK, PartsOK
<1>2. q \in Queries(handler[r])
  BY DEF Seen
<1>3. \A o \in SubQueries : Path(handler[r], failed'[r], part'[r][o])
  BY <1>1, PathMonotone DEF Seen
<1>4. \A o \in SubQueries \ Queries(handler[r]) : part'[r][o].at = "off"
  BY <1>1, <1>2 DEF Seen
<1>5. failed'[r] # {} => \E o \in Queries(handler[r]) : Hurt(part'[r][o])
  <2>1. Queries(handler[r]) \subseteq SubQueries
    BY RetrievalAssumption DEF Queries
  <2> QED
    BY <1>1, <1>2, <2>1 DEF Seen
<1> QED
  BY <1>1, <1>3, <1>4, <1>5 DEF Seen, Hurt

\* Every request has a query, and only a multi-query request has more than one.
LEMMA QueriesIn ==
    \A s : Queries(s) \subseteq SubQueries /\ Queries(s) # {}
           /\ (s.kind # "multi" => \E q : Queries(s) = {q})
BY RetrievalAssumption DEF Queries

\* A query that starts has met no failure.
LEMMA StartPath ==
    ASSUME NEW s \in SearchRequests, NEW f
    PROVE  Path(s, f, StartPart(s)) /\ StartPart(s).at # "off"
<1>0. s.mode \in {"hybrid", "semantic", "keyword"}
  BY DEF SearchRequests, SearchModes
<1>1. CASE UsesSemantic(s) \/ s.kind = "explain"
  <2>1. /\ StartPart(s).at = "embed" /\ StartPart(s).outcome = {}
        /\ \A l \in Legs : StartPart(s).leg[l] = "off"
    BY <1>1 DEF StartPart, IdlePart, NoOutcome
  <2> QED
    BY <2>1 DEF Path, Ran
<1>2. CASE ~(UsesSemantic(s) \/ s.kind = "explain")
  <2>1. s.mode = "keyword" /\ LegsOf(s) = {"keyword"} /\ ~Robust(s)
    BY <1>0, <1>2 DEF UsesSemantic, LegsOf, Robust
  <2>2. /\ StartPart(s).at = "search" /\ StartPart(s).outcome = {}
        /\ \A l \in Legs : StartPart(s).leg[l] = IF l = "keyword" THEN "wait" ELSE "off"
    <3>1. StartPart(s) = Search(IdlePart, "search", {"keyword"})
      BY <1>2, <2>1 DEF StartPart
    <3>2. IdlePart.outcome = {}
      BY DEF IdlePart, NoOutcome
    <3> QED
      BY <3>1, <3>2, IdlePartOK, SearchFields
  <2> QED
    BY <2>1, <2>2, LegsAre DEF Path, Ran
<1> QED
  BY <1>1, <1>2

\* The searches of a request start without a failure.
LEMMA StartSearchSeen ==
    ASSUME RetrTypeOK, NEW r \in Handlers, Seen(r), StartSearch(r), failed[r] = {},
           handler[r] \in SearchRequests,
           UNCHANGED <<handler, outcome, mode, cacheHit, failed>>
    PROVE  Seen(r)' /\ Only(r)
<1>1. /\ stage'[r] = "search"
      /\ \A q \in SubQueries : part'[r][q] = IF q \in Queries(handler[r])
                                             THEN StartPart(handler[r]) ELSE IdlePart
  BY DEF StartSearch, RetrTypeOK, RequestsOK, PartsOK
<1>2. \A q \in SubQueries : Path(handler[r], failed[r], part'[r][q])
  BY <1>1, PathIdle, StartPath
<1>3. \A q \in SubQueries \ Queries(handler[r]) : part'[r][q].at = "off"
  BY <1>1 DEF IdlePart
<1>4. Seen(r)'
  BY <1>1, <1>2, <1>3 DEF Seen
<1>5. Only(r)
  BY DEF Only, Same, StartSearch, RetrTypeOK, RequestsOK, PartsOK
<1> QED
  BY <1>4, <1>5

\* Arrive hides no failure.
LEMMA ArriveSeen ==
    ASSUME RetrTypeOK, NEW r \in Handlers, Seen(r), Arrive(r)
    PROVE  Seen(r)' /\ Only(r)
<1>1. /\ stage[r] = "idle" /\ handler[r] # NoSearch
      /\ UNCHANGED <<handler, outcome, mode, cacheHit, failed>>
      /\ \/ stage' = [stage EXCEPT ![r] = "forbidden"] /\ UNCHANGED part
         \/ stage' = [stage EXCEPT ![r] = "lookup"] /\ UNCHANGED part
         \/ StartSearch(r)
  BY DEF Arrive
<1>2. handler[r] \in SearchRequests /\ failed[r] = {}
  BY <1>1 DEF RetrTypeOK, RequestsOK, Seen
<1>3. CASE StartSearch(r)
  BY <1>1, <1>2, <1>3, StartSearchSeen
<1>4. ASSUME NEW to \in {"forbidden", "lookup"}, stage' = [stage EXCEPT ![r] = to], UNCHANGED part
      PROVE  Seen(r)' /\ Only(r)
  <2>1. stage'[r] = to /\ part'[r] = part[r]
    BY <1>4 DEF RetrTypeOK, RequestsOK
  <2>2. Seen(r)'
    BY <1>1, <1>2, <2>1 DEF Seen
  <2>3. Only(r)
    BY <1>1, <1>4 DEF Only, Same, RetrTypeOK, RequestsOK
  <2> QED
    BY <2>2, <2>3
<1> QED
  BY <1>1, <1>3, <1>4

\* AnswerFromCache makes no claim: its answer is marked as a cache hit.
LEMMA AnswerFromCacheSeen ==
    ASSUME RetrTypeOK, NEW r \in Handlers, Seen(r), AnswerFromCache(r)
    PROVE  Seen(r)' /\ Only(r)
<1>1. PICK hits, m, f :
        /\ Return(r, "done", hits, m)
        /\ cacheHit' = [cacheHit EXCEPT ![r] = TRUE]
        /\ failed' = [failed EXCEPT ![r] = f]
        /\ UNCHANGED handler
  BY DEF AnswerFromCache
<1>2. /\ Only(r) /\ stage'[r] = "done" /\ \A q \in SubQueries : part'[r][q] = IdlePart
  BY <1>1, ReturnOnly
<1>3. cacheHit'[r] = TRUE
  BY <1>1 DEF RetrTypeOK, AnswersOK
<1> QED
  BY <1>1, <1>2, <1>3, EndSeen DEF Ended

\* MissCache hides no failure.
LEMMA MissCacheSeen ==
    ASSUME RetrTypeOK, NEW r \in Handlers, Seen(r), MissCache(r)
    PROVE  Seen(r)' /\ Only(r)
<1>1. /\ stage[r] = "lookup" /\ StartSearch(r)
      /\ UNCHANGED <<handler, outcome, mode, cacheHit, failed>>
  BY DEF MissCache
<1>2. handler[r] \in SearchRequests /\ failed[r] = {}
  BY <1>1, RequestIs DEF Seen
<1> QED
  BY <1>1, <1>2, StartSearchSeen

\* Another component fails a request.
LEMMA FailsSeen ==
    ASSUME RetrTypeOK, NEW r \in Handlers, NEW c, Fails(r, c)
    PROVE  /\ failed' = [failed EXCEPT ![r] = @ \cup {c}]
           /\ failed'[r] = failed[r] \cup {c}
BY DEF Fails, RetrTypeOK, AnswersOK

\* Embed hides no failure.
LEMMA EmbedSeen ==
    ASSUME RetrTypeOK, NEW r \in Handlers, NEW q \in SubQueries, Seen(r), Embed(r, q)
    PROVE  Seen(r)' /\ Only(r)
<1> DEFINE s == handler[r]
           e == [part[r][q] EXCEPT !.outcome = {"embedding_ok"}]
           p == Search(e, "search", LegsOf(s))
<1>1. stage[r] = "search" /\ part[r][q].at = "embed" /\ Step(r, q, p) /\ failed' = failed
  BY DEF Embed, Embedding
<1>2. part[r][q] \in PartStates /\ s \in SearchRequests /\ Path(s, failed[r], part[r][q])
  BY <1>1, PartIn, RequestIs DEF Seen
<1>3. e \in PartStates /\ e.outcome = {"embedding_ok"}
  BY <1>2 DEF PartStates, Flags
<1> HIDE DEF e
<1>4. /\ p.at = "search" /\ p.outcome = {"embedding_ok"}
      /\ \A l \in Legs : p.leg[l] = IF l \in LegsOf(s) THEN "wait" ELSE "off"
  BY <1>3, SearchFields
<1>5. /\ s.mode = "hybrid" => LegsOf(s) = Legs
      /\ s.mode # "hybrid" => LegsOf(s) = {s.mode} /\ s.mode \in Legs /\ \E l \in Legs : l # s.mode
  BY <1>2 DEF LegsOf, Legs, SearchRequests, SearchModes
<1> HIDE DEF p
<1>6. Path(s, failed[r], p)
  BY <1>4, <1>5, LegsAre DEF Path, Ran, SearchFlags, Robust
<1>7. ~Hurt(part[r][q])
  BY <1>1, <1>2 DEF Hurt, Path, Ran
<1>8. "reranker" \notin failed[r]
  BY <1>1 DEF Seen
<1>9. Seen(r)'
  BY <1>1, <1>6, <1>7, <1>8, StepSeen
<1> QED
  BY <1>1, <1>9, StepOnly

\* EmbedFails falls back to keywords or fails the query.
LEMMA EmbedFailsSeen ==
    ASSUME RetrTypeOK, NEW r \in Handlers, NEW q \in SubQueries, Seen(r), EmbedFails(r, q)
    PROVE  Seen(r)' /\ Only(r)
<1> DEFINE s == handler[r]
           e == [part[r][q] EXCEPT !.outcome = WithLeg("semantic", FALSE)]
           p == IF s.kind # "explain" /\ s.mode = "hybrid"
                THEN Search(e, "search", {"keyword"})
                ELSE [IdlePart EXCEPT !.at = "failed"]
           f == failed[r] \cup {"embedding"}
<1>1. /\ stage[r] = "search" /\ part[r][q].at = "embed" /\ Step(r, q, p)
      /\ failed' = [failed EXCEPT ![r] = @ \cup {"embedding"}] /\ failed'[r] = f
  BY FailsSeen DEF EmbedFails, Embedding
<1>2. part[r][q] \in PartStates /\ s \in SearchRequests /\ Path(s, failed[r], part[r][q])
  BY <1>1, PartIn, RequestIs DEF Seen
<1>3. e \in PartStates /\ e.outcome = {"semantic_attempted"}
  BY <1>2, LegFlags DEF PartStates, WithLeg
<1> HIDE DEF e
<1>4. Path(s, f, p) /\ Hurt(p)
  <2>1. CASE Robust(s)
    <3>1. p = Search(e, "search", {"keyword"})
      BY <2>1 DEF Robust
    <3> HIDE DEF p
    <3>2. /\ p.at = "search" /\ p.outcome = {"semantic_attempted"}
          /\ \A l \in Legs : p.leg[l] = IF l = "keyword" THEN "wait" ELSE "off"
      BY <1>3, <3>1, SearchFields
    <3> QED
      BY <2>1, <3>2, LegsAre DEF Path, Ran, SearchFlags, Robust, Hurt, Degraded, SemanticFailed
  <2>2. CASE ~Robust(s)
    <3>1. p = Refuse
      BY <2>2 DEF Robust, Refuse
    <3> QED
      BY <2>2, <3>1, RefusePath
  <2> QED
    BY <2>1, <2>2
<1>5. "reranker" \notin f /\ failed[r] \subseteq f
  BY <1>1 DEF Seen
<1> HIDE DEF p, f
<1>6. Seen(r)'
  BY <1>1, <1>4, <1>5, StepSeen
<1> QED
  BY <1>1, <1>6, StepOnly

\* A leg of a query has ended.
LEMMA LegRan ==
    ASSUME NEW s, NEW f, NEW g, NEW p, NEW o, NEW leg \in Legs, NEW how \in {"ok", "failed"},
           Path(s, f, p), p.leg[leg] = "wait",
           f \subseteq g, how = "failed" => leg \in g,
           o.at = p.at, o.outcome = p.outcome,
           \A l \in Legs : o.leg[l] = IF l = leg THEN how ELSE p.leg[l]
    PROVE  /\ Ran(s, g, o)
           /\ Hurt(p) => Hurt(o)
           /\ how = "failed" => Hurt(o)
BY LegsAre DEF Path, Ran, Hurt, Twice

\* SearchStore and SearchFails hide no failure.
LEMMA SearchStoreSeen ==
    ASSUME RetrTypeOK, NEW r \in Handlers, NEW q \in SubQueries, NEW leg \in Legs, Seen(r),
           SearchStore(r, q, leg) \/ SearchFails(r, q, leg)
    PROVE  Seen(r)' /\ Only(r)
<1> DEFINE s == handler[r]
           p == part[r][q]
<1>1. stage[r] = "search" /\ p.leg[leg] = "wait" /\ "reranker" \notin failed[r]
  BY DEF SearchStore, SearchFails, Waiting, Seen
<1>2. p \in PartStates /\ s \in SearchRequests /\ Path(s, failed[r], p)
  BY <1>1, PartIn, RequestIs DEF Seen
<1>3. p.at \in {"search", "fallback"} /\ leg # "reranker"
  BY <1>1, <1>2, PartFields DEF Path, Ran, Legs
<1>4. ASSUME NEW o \in PartStates, NEW how \in {"ok", "failed"},
             Step(r, q, Joined(s, o)),
             o.at = p.at, o.outcome = p.outcome,
             \A l \in Legs : o.leg[l] = IF l = leg THEN how ELSE p.leg[l],
             IF how = "ok" THEN failed' = failed ELSE Fails(r, leg)
      PROVE  Seen(r)' /\ Only(r)
  <2>1. /\ failed[r] \subseteq failed'[r]
        /\ how = "failed" => leg \in failed'[r]
        /\ how = "ok" => failed'[r] = failed[r]
        /\ "reranker" \notin failed'[r]
        /\ failed' = failed \/ failed' = [failed EXCEPT ![r] = @ \cup {leg}]
    BY <1>1, <1>3, <1>4, FailsSeen
  <2>2. /\ Ran(s, failed'[r], o)
        /\ Hurt(p) => Hurt(o)
        /\ how = "failed" => Hurt(o)
    <3> DEFINE f == failed[r]
               g == failed'[r]
    <3>1. /\ Path(s, f, p) /\ p.leg[leg] = "wait"
          /\ f \subseteq g /\ (how = "failed" => leg \in g)
          /\ o.at = p.at /\ o.outcome = p.outcome
          /\ \A l \in Legs : o.leg[l] = IF l = leg THEN how ELSE p.leg[l]
      BY <1>1, <1>2, <1>4, <2>1
    <3> HIDE DEF f, g, p, s
    <3>2. Ran(s, g, o) /\ (Hurt(p) => Hurt(o)) /\ (how = "failed" => Hurt(o))
      BY <3>1, LegRan
    <3> QED
      BY <3>2 DEF f, g, p, s
  <2>3. Path(s, failed'[r], Joined(s, o)) /\ (Hurt(o) => Hurt(Joined(s, o)))
    BY <1>2, <1>3, <1>4, <2>2, JoinedPath
  <2>4. failed'[r] # failed[r] => Hurt(Joined(s, o))
    BY <1>4, <2>1, <2>2, <2>3
  <2>5. Seen(r)'
    <3> DEFINE x == Joined(s, o)
    <3>1. /\ part[r][q].at # "off" /\ (Hurt(part[r][q]) => Hurt(x))
          /\ Path(handler[r], failed'[r], x)
      BY <1>3, <2>2, <2>3
    <3>2. Step(r, q, x) /\ (failed'[r] # failed[r] => Hurt(x))
      BY <1>4, <2>4
    <3> HIDE DEF x
    <3> QED
      BY <1>1, <2>1, <3>1, <3>2, StepSeen
  <2>6. Only(r)
    BY <1>4, <2>1, StepOnly
  <2> QED
    BY <2>5, <2>6
<1>5. CASE SearchStore(r, q, leg)
  <2>1. PICK chunks \in SUBSET Readable(s) :
           Step(r, q, Joined(s, [p EXCEPT !.leg[leg] = "ok",
                                          !.got[leg] = {Hit(c, 0) : c \in chunks}]))
    BY <1>5 DEF SearchStore
  <2> DEFINE hits == {Hit(c, 0) : c \in chunks}
             o == [p EXCEPT !.leg[leg] = "ok", !.got[leg] = hits]
  <2>2. hits \in SUBSET Hits
    BY NumbersOK DEF Hit, Hits, Readable, RetrTypeOK, WorldOK
  <2> HIDE DEF hits, p
  <2>3. o \in PartStates
    BY <1>2, <2>2, LegOK
  <2>4. /\ o.at = p.at /\ o.outcome = p.outcome
        /\ \A l \in Legs : o.leg[l] = IF l = leg THEN "ok" ELSE p.leg[l]
    BY <1>2 DEF PartStates
  <2>5. Step(r, q, Joined(s, o))
    BY <2>1 DEF hits
  <2> HIDE DEF o
  <2>6. failed' = failed
    BY <1>5 DEF SearchStore
  <2> QED
    BY <1>4, <2>3, <2>4, <2>5, <2>6
<1>6. CASE SearchFails(r, q, leg)
  <2> DEFINE o == [p EXCEPT !.leg[leg] = "failed"]
  <2>1. Step(r, q, Joined(s, o)) /\ Fails(r, leg)
    BY <1>6 DEF SearchFails
  <2> HIDE DEF p
  <2>2. o \in PartStates
    BY <1>2, LegOK
  <2>3. /\ o.at = p.at /\ o.outcome = p.outcome
        /\ \A l \in Legs : o.leg[l] = IF l = leg THEN "failed" ELSE p.leg[l]
    BY <1>2 DEF PartStates
  <2> HIDE DEF o
  <2> QED
    BY <1>4, <2>1, <2>2, <2>3
<1> QED
  BY <1>5, <1>6

\* DegradationMode tells of every failure that shows.
LEMMA ShownReported ==
    ASSUME NEW r \in Handlers, NEW f \in SUBSET Components, f # {}, NEW o,
           Shown(handler[r], part[r], f, o)
    PROVE  DegradationMode(r, o) # "None"
<1>1. f \cap Searches # {} \/ "reranker" \in f
  BY DEF Components, Searches, Legs
<1>2. CASE "reranker" \in f
  BY <1>2 DEF Shown, DegradationMode, DetermineMode, MultiMode
<1>3. CASE f \cap Searches # {} /\ handler[r].kind # "multi"
  BY <1>3 DEF Shown, DegradationMode, DetermineMode, Degraded
<1>4. CASE f \cap Searches # {} /\ handler[r].kind = "multi"
  <2>1. PICK q \in Queries(handler[r]) : part[r][q].at = "failed" \/ Degraded(part[r][q].outcome)
    BY <1>4 DEF Shown
  <2>2. part[r][q] \in Parts(r)
    BY DEF Parts
  <2>3. \/ Unserved(r) # {}
        \/ \E p \in Parts(r) \ Unserved(r) :
               SemanticFailed(p.outcome) \/ KeywordFailed(p.outcome)
    BY <2>1, <2>2 DEF Unserved, Degraded
  <2> QED
    BY <1>4, <2>3 DEF DegradationMode, MultiMode
<1> QED
  BY <1>1, <1>2, <1>3, <1>4

\* What is answered behind the reranker reports every failure.
LEMMA ConcludeSeen ==
    ASSUME RetrTypeOK, NEW r \in Handlers, Seen(r), NEW hits, NEW o, Conclude(r, hits, o),
           UNCHANGED <<handler, cacheHit>>,
           failed' = failed \/ \E c : failed' = [failed EXCEPT ![r] = @ \cup {c}],
           failed' \in [Handlers -> SUBSET Components],
           Shown(handler[r], part[r], failed'[r], o)
    PROVE  Seen(r)' /\ Only(r)
<1>1. PICK kept :
        \/ /\ stage' = [stage EXCEPT ![r] = "store"]
           /\ outcome' = [outcome EXCEPT ![r] = o]
           /\ UNCHANGED <<part, mode>>
        \/ Return(r, "done", kept, DegradationMode(r, o))
  BY DEF Conclude
<1>2. failed[r] \subseteq failed'[r] /\ failed'[r] \in SUBSET Components
  BY DEF RetrTypeOK, AnswersOK
<1>3. CASE /\ stage' = [stage EXCEPT ![r] = "store"]
           /\ outcome' = [outcome EXCEPT ![r] = o]
           /\ UNCHANGED <<part, mode>>
  <2>1. stage'[r] = "store" /\ outcome'[r] = o /\ part'[r] = part[r]
    BY <1>3 DEF RetrTypeOK, RequestsOK, AnswersOK
  <2>2. \A q \in SubQueries : Path(handler[r], failed'[r], part[r][q])
    BY <1>2, PathMonotone DEF Seen
  <2>3. Seen(r)'
    BY <2>1, <2>2 DEF Seen
  <2>4. Only(r)
    BY <1>3 DEF Only, Same, RetrTypeOK, RequestsOK, AnswersOK
  <2> QED
    BY <2>3, <2>4
<1>4. CASE Return(r, "done", kept, DegradationMode(r, o))
  <2>1. /\ Only(r) /\ stage'[r] = "done" /\ mode'[r] = DegradationMode(r, o)
        /\ \A q \in SubQueries : part'[r][q] = IdlePart
    BY <1>4, ReturnOnly
  <2>2. failed'[r] # {} => mode'[r] # "None"
    BY <1>2, <2>1, ShownReported
  <2> QED
    BY <2>1, <2>2, EndSeen DEF Ended
<1> QED
  BY <1>1, <1>3, <1>4

\* Gather: one query that a component has failed is enough for a mode, and an
\* error needs every query to have failed.
LEMMA GatherSeen ==
    ASSUME RetrTypeOK, NEW r \in Handlers, Seen(r), Gather(r)
    PROVE  Seen(r)' /\ Only(r)
<1> DEFINE s == handler[r]
           served == Parts(r) \ Unserved(r)
           hits == UNION {p.hits : p \in served}
           merged == UNION {p.outcome : p \in served}
<1>1. /\ stage[r] = "search" /\ \A p \in Parts(r) : p.at \in {"ok", "failed"}
      /\ IF served = {} THEN Return(r, "error", {}, "None")
         ELSE IF handler[r].rerank /\ Reranker
         THEN /\ stage' = [stage EXCEPT ![r] = "rerank"]
              /\ found' = [found EXCEPT ![r] = hits]
              /\ outcome' = [outcome EXCEPT ![r] = merged]
              /\ UNCHANGED <<waited, part, mode>>
         ELSE Conclude(r, hits, merged)
      /\ UNCHANGED <<readers, handler, cacheHit, failed, cached, changes, outages>>
  BY DEF Gather
<1>2. \A q \in Queries(s) : /\ part[r][q] \in Parts(r) /\ part[r][q].at \in {"ok", "failed"}
                            /\ Path(s, failed[r], part[r][q])
  BY <1>1, QueriesIn DEF Parts, Seen
<1>3. \A q \in Queries(s) :
        Hurt(part[r][q]) => \/ part[r][q].at = "failed"
                            \/ /\ part[r][q].at = "ok" /\ s.mode = "hybrid"
                               /\ Degraded(part[r][q].outcome)
  BY <1>2 DEF Hurt, Path, Ran
<1>4. CASE served = {}
  <2>1. PICK q \in Queries(s) : part[r][q].at = "failed"
    BY <1>2, <1>4, QueriesIn DEF Unserved
  <2>2. Robust(s) => Twice(failed[r])
    BY <1>2, <2>1 DEF Path, Ran
  <2>3. Return(r, "error", {}, "None") /\ UNCHANGED <<handler, cacheHit, failed>>
    BY <1>1, <1>4
  <2>4. /\ Only(r) /\ stage'[r] = "error" /\ \A o \in SubQueries : part'[r][o] = IdlePart
    BY <2>3, ReturnOnly
  <2> QED
    BY <2>2, <2>3, <2>4, EndSeen DEF Ended
<1>5. CASE served # {}
  <2>1. Shown(s, part[r], failed[r], merged)
    <3>1. "reranker" \notin failed[r]
      BY <1>1 DEF Seen
    <3>2. ASSUME failed[r] # {}
          PROVE  /\ s.mode = "hybrid"
                 /\ IF s.kind = "multi"
                    THEN \E q \in Queries(s) : part[r][q].at = "failed" \/ Degraded(part[r][q].outcome)
                    ELSE Degraded(merged)
      <4>1. PICK q \in Queries(s) : Hurt(part[r][q])
        BY <1>1, <3>2 DEF Seen
      <4>2. CASE s.kind = "multi"
        BY <1>3, <4>1, <4>2 DEF Seen
      <4>3. CASE s.kind # "multi"
        <5>1. Queries(s) = {q}
          BY <4>1, <4>3, QueriesIn
        <5>2. served = {part[r][q]} /\ part[r][q].at = "ok"
          BY <1>2, <1>5, <5>1 DEF Parts, Unserved
        <5>3. merged = part[r][q].outcome
          BY <5>2
        <5> QED
          BY <1>3, <4>1, <4>3, <5>2, <5>3
      <4> QED
        BY <4>2, <4>3
    <3> QED
      BY <3>1, <3>2 DEF Shown
  <2>2. merged \subseteq SearchFlags
    BY <1>2 DEF Parts, Path, Ran
  <2> HIDE DEF served, hits, merged
  <2>3. CASE handler[r].rerank /\ Reranker
    <3>1. /\ stage'[r] = "rerank" /\ outcome'[r] = merged /\ part'[r] = part[r]
          /\ failed'[r] = failed[r] /\ handler'[r] = s
      BY <1>1, <1>5, <2>3 DEF RetrTypeOK, RequestsOK, AnswersOK
    <3>2. "reranker" \notin failed[r]
      BY <1>1 DEF Seen
    <3>3. Seen(r)'
      BY <2>1, <2>2, <3>1, <3>2 DEF Seen
    <3>4. Only(r)
      BY <1>1, <1>5, <2>3 DEF Only, Same, RetrTypeOK, RequestsOK, AnswersOK
    <3> QED
      BY <3>3, <3>4
  <2>4. CASE ~(handler[r].rerank /\ Reranker)
    <3>1. Conclude(r, hits, merged) /\ UNCHANGED <<handler, cacheHit, failed>>
      BY <1>1, <1>5, <2>4
    <3>2. failed' \in [Handlers -> SUBSET Components]
      BY <3>1 DEF RetrTypeOK, AnswersOK
    <3> QED
      BY <2>1, <3>1, <3>2, ConcludeSeen
  <2> QED
    BY <2>3, <2>4
<1> QED
  BY <1>4, <1>5

\* Rerank and RerankFails: a reranker that fails is reported too.
LEMMA RerankSeen ==
    ASSUME RetrTypeOK, NEW r \in Handlers, Seen(r), Rerank(r) \/ RerankFails(r)
    PROVE  Seen(r)' /\ Only(r)
<1>1. /\ stage[r] = "rerank" /\ UNCHANGED <<handler, cacheHit>>
      /\ outcome[r] \subseteq SearchFlags /\ "reranker" \notin failed[r]
      /\ Shown(handler[r], part[r], failed[r], outcome[r])
  BY DEF Rerank, RerankFails, Seen
<1>2. ASSUME NEW best, NEW ok \in BOOLEAN,
             Conclude(r, best, outcome[r] \cup WithRerank(TRUE, ok)),
             IF ok THEN failed' = failed ELSE Fails(r, "reranker")
      PROVE  Seen(r)' /\ Only(r)
  <2> DEFINE o == outcome[r] \cup WithRerank(TRUE, ok)
  <2>1. /\ failed' = failed \/ failed' = [failed EXCEPT ![r] = @ \cup {"reranker"}]
        /\ failed'[r] = IF ok THEN failed[r] ELSE failed[r] \cup {"reranker"}
        /\ failed' \in [Handlers -> SUBSET Components]
    BY <1>2, FailsSeen, FailsOK DEF Components, RetrTypeOK, AnswersOK
  <2>2. failed'[r] \cap Searches = failed[r] \cap Searches
    BY <2>1 DEF Searches, Legs
  <2>3. /\ Degraded(outcome[r]) => Degraded(o)
        /\ ~ok => RerankSkipped(o)
    BY <1>1 DEF WithRerank, Degraded, SemanticFailed, KeywordFailed, RerankSkipped, SearchFlags
  <2>4. Shown(handler[r], part[r], failed'[r], o)
    BY <1>1, <2>1, <2>2, <2>3 DEF Shown
  <2>5. Conclude(r, best, o)
    BY <1>2
  <2> HIDE DEF o
  <2> QED
    BY <1>1, <2>1, <2>4, <2>5, ConcludeSeen
<1>3. CASE Rerank(r)
  <2>1. PICK best : Conclude(r, best, outcome[r] \cup WithRerank(TRUE, TRUE)) /\ failed' = failed
    BY <1>3 DEF Rerank
  <2> QED
    BY <1>2, <2>1
<1>4. CASE RerankFails(r)
  <2>1. /\ Conclude(r, found[r], outcome[r] \cup WithRerank(TRUE, FALSE))
        /\ Fails(r, "reranker")
    BY <1>4 DEF RerankFails
  <2> QED
    BY <1>2, <2>1
<1> QED
  BY <1>3, <1>4

\* Store reports what the request has met; TimeOut answers nothing.
LEMMA StoreSeen ==
    ASSUME RetrTypeOK, NEW r \in Handlers, Seen(r), Store(r) \/ TimeOut(r)
    PROVE  Seen(r)' /\ Only(r)
<1>1. UNCHANGED <<handler, cacheHit, failed>>
  BY DEF Store, TimeOut
<1>2. CASE Store(r)
  <2>1. stage[r] = "store" /\ Return(r, "done", found[r], DegradationMode(r, outcome[r]))
    BY <1>2 DEF Store
  <2>2. /\ Only(r) /\ stage'[r] = "done" /\ mode'[r] = DegradationMode(r, outcome[r])
        /\ \A q \in SubQueries : part'[r][q] = IdlePart
    BY <1>1, <2>1, ReturnOnly
  <2>3. failed'[r] = failed[r] /\ failed[r] \in SUBSET Components
    BY <1>1 DEF RetrTypeOK, AnswersOK
  <2>4. failed'[r] # {} => mode'[r] # "None"
    BY <2>1, <2>2, <2>3, ShownReported DEF Seen
  <2> QED
    BY <1>1, <2>2, <2>4, EndSeen DEF Ended
<1>3. CASE TimeOut(r)
  <2>1. Return(r, "timeout", {}, "None")
    BY <1>3 DEF TimeOut
  <2>2. Only(r) /\ stage'[r] = "timeout" /\ \A q \in SubQueries : part'[r][q] = IdlePart
    BY <1>1, <2>1, ReturnOnly
  <2> QED
    BY <1>1, <2>2, EndSeen DEF Ended
<1> QED
  BY <1>2, <1>3

\* Tick changes the age of hits only.
LEMMA TickSeen ==
    ASSUME RetrTypeOK, NEW r \in Handlers, Seen(r), Tick
    PROVE  Seen(r)'
<1>1. UNCHANGED <<handler, stage, outcome, mode, cacheHit, failed>>
  BY DEF Tick
<1>2. ASSUME NEW q \in SubQueries
      PROVE  /\ part'[r][q].at = part[r][q].at /\ part'[r][q].leg = part[r][q].leg
             /\ part'[r][q].outcome = part[r][q].outcome
  BY PartIn DEF Tick, PartStates
<1>3. \A q \in SubQueries : /\ Path(handler[r], failed[r], part'[r][q])
                            /\ Hurt(part[r][q]) => Hurt(part'[r][q])
  BY <1>2, PathSame DEF Seen
<1>4. \A q \in SubQueries \ Queries(handler[r]) : part'[r][q].at = "off"
  BY <1>2 DEF Seen
<1>5. stage[r] = "search" /\ failed[r] # {} =>
           \E q \in Queries(handler[r]) : Hurt(part'[r][q])
  BY <1>3, QueriesIn DEF Seen
<1>6. stage[r] \in {"rerank", "store"} => Shown(handler[r], part'[r], failed[r], outcome[r])
  BY <1>2, QueriesIn DEF Seen, Shown
<1> QED
  BY <1>1, <1>3, <1>4, <1>5, <1>6 DEF Seen, Hurt, Shown

\* Every step of the routes keeps the failures in sight.
LEMMA FailuresSeenStep ==
    ASSUME RetrTypeOK, FailuresSeen, [RetrNext]_retrVars
    PROVE  FailuresSeen'
<1>1. ASSUME NEW r \in Handlers, SearchStep(r) PROVE FailuresSeen'
  <2>0. Seen(r)
    BY DEF FailuresSeen
  <2>1. Seen(r)' /\ Only(r)
    BY <1>1, <2>0, ArriveSeen, AnswerFromCacheSeen, MissCacheSeen, EmbedSeen, EmbedFailsSeen,
       SearchStoreSeen, GatherSeen, RerankSeen, StoreSeen DEF SearchStep
  <2>2. \A o \in Handlers \ {r} : Seen(o)'
    BY <2>1, SeenSame DEF Only, FailuresSeen
  <2> QED
    BY <2>1, <2>2 DEF FailuresSeen
<1>2. CASE Tick
  BY <1>2, TickSeen DEF FailuresSeen
<1>3. CASE \/ \E c \in Chunks, to \in SUBSET Readers : ChangeAcl(c, to)
           \/ UNCHANGED retrVars
  <2>1. \A r \in Handlers : Same(r)
    BY <1>3 DEF ChangeAcl, retrVars, searchVars, Same
  <2> QED
    BY <2>1, SeenSame DEF FailuresSeen
<1> QED
  BY <1>1, <1>2, <1>3 DEF RetrNext

\* Nothing has failed initially.
LEMMA FailuresSeenInit ==
    ASSUME RetrInit
    PROVE  FailuresSeen
<1> SUFFICES ASSUME NEW r \in Handlers PROVE Seen(r)
  BY DEF FailuresSeen
<1>1. \A q \in SubQueries : part[r][q] = IdlePart /\ part[r][q].at = "off"
  BY DEF RetrInit, IdlePart
<1>2. handler[r].kind = "multi" => handler[r].mode = "hybrid"
  BY RetrievalAssumption DEF RetrInit
<1>3. stage[r] = "idle" /\ failed[r] = {}
  BY DEF RetrInit
<1> QED
  BY <1>1, <1>2, <1>3, PathIdle DEF Seen

\* Two different components are two.
LEMMA TwoFailures ==
    ASSUME NEW f, Twice(f)
    PROVE  Cardinality(f \cap (Legs \cup {"embedding"})) >= 2
<1>1. PICK a, b \in Searches : a # b /\ a \in f /\ b \in f
  BY DEF Twice
<1> DEFINE all == {"semantic", "keyword", "embedding"}
           both == f \cap all
<1>2. Searches = all /\ Legs \cup {"embedding"} = all
  BY DEF Searches, Legs
<1>3. IsFiniteSet(all)
  <2>1. IsFiniteSet({"semantic"})
    BY FS_Singleton
  <2>2. IsFiniteSet({"semantic"} \cup {"keyword"})
    BY <2>1, FS_AddElement
  <2>3. IsFiniteSet(({"semantic"} \cup {"keyword"}) \cup {"embedding"})
    BY <2>2, FS_AddElement
  <2>4. ({"semantic"} \cup {"keyword"}) \cup {"embedding"} = all
    OBVIOUS
  <2> QED
    BY <2>3, <2>4
<1>4. IsFiniteSet(both)
  BY <1>3, FS_Subset
<1>5. {a, b} \subseteq both
  BY <1>1, <1>2
<1>6. Cardinality({a, b}) = 2
  <2>1. IsFiniteSet({a}) /\ Cardinality({a}) = 1
    BY FS_Singleton
  <2>2. {a, b} = {a} \cup {b} /\ b \notin {a}
    BY <1>1
  <2> QED
    BY <2>1, <2>2, FS_AddElement
<1>7. Cardinality({a, b}) <= Cardinality(both)
  BY <1>4, <1>5, FS_Subset
<1>8. Cardinality(both) \in Nat
  BY <1>4, FS_CardinalityType
<1> QED
  BY <1>2, <1>6, <1>7, <1>8

\* Every failure of a component shows in the request that met it until it is
\* answered: an invariant of the retrieval routes.
THEOREM FailuresAreSeen == RetrSpec => []FailuresSeen
<1>1. RetrInit => FailuresSeen
  BY FailuresSeenInit
<1>2. RetrTypeOK /\ FailuresSeen /\ [RetrNext]_retrVars => FailuresSeen'
  BY FailuresSeenStep
<1>3. RetrSpec => []RetrTypeOK
  BY RetrInductive, PTL
<1> QED
  BY <1>1, <1>2, <1>3, PTL DEF RetrSpec

\* One failure costs results, not the answer, and an answer that was computed
\* without a component says so: for every number of requests and queries, and
\* any
\* number of failures.
THEOREM FailuresOnlyDegrade == RetrSpec => []FailuresDegrade
<1>1. FailuresSeen => OneFailureTolerated
  BY TwoFailures DEF FailuresSeen, Seen, OneFailureTolerated, Robust
<1>2. FailuresSeen => DegradationReported
  BY DEF FailuresSeen, Seen, DegradationReported
<1> QED
  BY <1>1, <1>2, FailuresAreSeen, PTL DEF FailuresDegrade
=============================================================================
