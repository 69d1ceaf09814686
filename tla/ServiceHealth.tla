--------------------------- MODULE ServiceHealth ---------------------------
(***************************************************************************)
(* The probes of the retrieval service (api/routes/health.rs) in time:     *)
(* /health asks every component in turn, the reranker with its retries     *)
(* (reranking/client.rs, rag-config/src/retry.rs), /health/ready asks what *)
(* a search cannot do without, and both run under the timeout of the       *)
(* server (api/server.rs) while the components fail and recover.           *)
(*                                                                         *)
(* A component answers at once ("up"), refuses at once in a way that is    *)
(* retried ("down": no connection, a 5xx) or not ("rejects": a 4xx), or    *)
(* keeps its callers waiting ("hangs").  A tick is a second.               *)
(***************************************************************************)
EXTENDS Integers, FiniteSets

CONSTANTS
    RerankerEnabled,        \* BOOLEAN: RERANKER_ENABLED
    CallTimeout,            \* of the client of a component, in ticks
    RerankRetries, RetryMinWait, RetryMaxWait,
    RequestTimeout,         \* timeout_secs of the server
    MaxComponentChanges     \* bound: how often a component changes

Stores == {"qdrant", "opensearch"}
Parts == Stores \cup {"embedding", "reranker"}
Conditions == {"up", "down", "rejects", "hangs"}

\* HttpClientConfig: every client ends a call after a time.
ClientsConfigured == CallTimeout \in [Parts -> Nat \ {0}]
\* RerankerConfig::from_env: any number of attempts and any wait, even a least
\* wait above the greatest.
RetriesConfigured == RerankRetries \in Nat /\ RetryMinWait \in Nat /\ RetryMaxWait \in Nat
\* ServerConfig.
ServerConfigured == RequestTimeout \in Nat \ {0}

ASSUME HealthAssumption ==
    /\ RerankerEnabled \in BOOLEAN /\ MaxComponentChanges \in Nat
    /\ ClientsConfigured /\ RetriesConfigured /\ ServerConfigured

VARIABLES
    condition,  \* of a component
    changes,    \* bound
    probe,      \* the probe in flight, or the answer to the last one
    \* What the properties compare the answer with:
    quiet,      \* no component changed since the probe started
    hung        \* some component kept the probe waiting

healthVars == <<condition, changes, probe, quiet, hung>>

----------------------------------------------------------------------------
(* Whom a probe asks, and in which order.                                  *)

Probes == {"health", "ready"}
ChecksOf(kind) ==
    Stores \cup {"embedding"}
        \cup (IF kind = "health" /\ RerankerEnabled THEN {"reranker"} ELSE {})

\* health joins the embedding check with the stores, one after the other, and
\* then asks the reranker; readiness joins all its checks.
After(kind, c) ==
    IF kind = "ready" THEN {}
    ELSE IF c = "opensearch" THEN {"qdrant"}
    ELSE IF c = "reranker" THEN Stores \cup {"embedding"}
    ELSE {}

Known == DOMAIN probe.seen
Asking(c) ==
    /\ probe.stage = "asking" /\ c \in ChecksOf(probe.kind) \ Known
    /\ After(probe.kind, c) \subseteq Known
    /\ ~(c = "reranker" /\ probe.pause > 0)

NoProbe == [kind |-> "ready", stage |-> "idle", time |-> 0, seen |-> [c \in {} |-> TRUE],
            asked |-> [c \in Parts |-> 0], tries |-> 0, pause |-> 0]

----------------------------------------------------------------------------
(* The answers.                                                            *)

SeenUp(seen, c) == c \in DOMAIN seen /\ seen[c]

Status(seen) ==
    IF \A c \in DOMAIN seen : seen[c] THEN "healthy"
    ELSE IF \E s \in Stores : SeenUp(seen, s) THEN "degraded"
    ELSE "unhealthy"

\* determine_degradation_mode; "hybrid_full" when only the embedding service
\* or the reranker is missing.
DegradedMode(seen) ==
    IF \A s \in Stores : SeenUp(seen, s) THEN "hybrid_full"
    ELSE IF SeenUp(seen, "qdrant") THEN "semantic_only"
    ELSE IF SeenUp(seen, "opensearch") THEN "keyword_only"
    ELSE "minimal"

DegradationLevel(seen) ==
    IF Status(seen) = "healthy" THEN "none" ELSE DegradedMode(seen)

Capabilities(seen) ==
    {c \in {"semantic_search", "keyword_search", "hybrid_search", "reranking"} :
        CASE c = "semantic_search" -> SeenUp(seen, "qdrant")
          [] c = "keyword_search"  -> SeenUp(seen, "opensearch")
          [] c = "hybrid_search"   -> \A s \in Stores : SeenUp(seen, s)
          [] OTHER                 -> SeenUp(seen, "reranker")}

HealthReport(seen) ==
    [status |-> Status(seen), level |-> DegradationLevel(seen), can |-> Capabilities(seen)]

\* readiness: 503 without the embedding service or without any store.
ReadyReport(seen) ==
    IF seen["embedding"] /\ \E s \in Stores : seen[s]
    THEN [status |-> "ready", can |-> {},
          level |-> IF \A s \in Stores : seen[s] THEN "none" ELSE DegradedMode(seen)]
    ELSE [status |-> "unavailable", level |-> "none", can |-> {}]

Report(p) == IF p.kind = "health" THEN HealthReport(p.seen) ELSE ReadyReport(p.seen)

----------------------------------------------------------------------------
(* The steps of a probe.                                                   *)

HealthInit ==
    /\ condition = [c \in Parts |-> "up"] /\ changes = 0
    /\ probe = NoProbe /\ quiet = TRUE /\ hung = FALSE

StartProbe ==
    /\ probe.stage # "asking"
    /\ \E kind \in Probes : probe' = [NoProbe EXCEPT !.kind = kind, !.stage = "asking"]
    /\ quiet' = TRUE /\ hung' = FALSE
    /\ UNCHANGED <<condition, changes>>

Settles(c, up) ==
    probe' = [probe EXCEPT !.seen = [d \in Known \cup {c} |-> IF d = c THEN up ELSE @[d]]]

Answers(c) ==
    /\ Asking(c) /\ condition[c] = "up"
    /\ Settles(c, TRUE)
    /\ UNCHANGED <<condition, changes, quiet, hung>>

\* backoff_duration: doubled at each attempt, capped, give or take a quarter.
Backoff(attempt) ==
    LET doubled == RetryMinWait * 2^attempt
        capped == IF doubled < RetryMaxWait THEN doubled ELSE RetryMaxWait
    IN capped - ((capped + 3) \div 4) .. capped + ((capped + 3) \div 4)

\* Mutant: a failed attempt is not counted.
FailsForFree(c, retryable) ==
    IF c = "reranker" /\ retryable /\ probe.tries < RerankRetries
    THEN \E w \in Backoff(probe.tries) :
            probe' = [probe EXCEPT !.pause = w, !.asked[c] = 0]
    ELSE Settles(c, FALSE)

\* Only the check of the reranker is a request with retries: rerank_batch.
Fails(c, retryable) ==
    IF c = "reranker" /\ retryable /\ probe.tries < RerankRetries
    THEN \E w \in Backoff(probe.tries) :
            probe' = [probe EXCEPT !.pause = w, !.asked[c] = 0, !.tries = @ + 1]
    ELSE Settles(c, FALSE)

Refuses(c) ==
    /\ Asking(c) /\ condition[c] \in {"down", "rejects"}
    /\ Fails(c, condition[c] = "down")
    /\ UNCHANGED <<condition, changes, quiet, hung>>

CallTimesOut(c) ==
    /\ Asking(c) /\ probe.asked[c] = CallTimeout[c]
    /\ Fails(c, TRUE)
    /\ UNCHANGED <<condition, changes, quiet, hung>>

Reply ==
    /\ probe.stage = "asking" /\ Known = ChecksOf(probe.kind)
    /\ probe' = [probe EXCEPT !.stage = "answered"]
    /\ UNCHANGED <<condition, changes, quiet, hung>>

\* TimeoutLayer: 408.
RequestTimesOut ==
    /\ probe.stage = "asking" /\ probe.time = RequestTimeout
    /\ probe' = [probe EXCEPT !.stage = "timeout"]
    /\ UNCHANGED <<condition, changes, quiet, hung>>

\* Time passes while the probe waits for the slow and for its next attempt.
Second ==
    /\ probe.stage = "asking" /\ probe.time < RequestTimeout
    /\ Known # ChecksOf(probe.kind)
    /\ \A c \in Parts : Asking(c) => condition[c] = "hangs" /\ probe.asked[c] < CallTimeout[c]
    /\ probe' = [probe EXCEPT
           !.time = @ + 1, !.pause = IF @ > 0 THEN @ - 1 ELSE 0,
           !.asked = [c \in Parts |-> IF Asking(c) THEN @[c] + 1 ELSE @[c]]]
    /\ hung' = (hung \/ \E c \in Parts : Asking(c))
    /\ UNCHANGED <<condition, changes, quiet>>

ComponentChanges ==
    /\ changes < MaxComponentChanges /\ changes' = changes + 1
    /\ \E c \in Parts, s \in Conditions :
           s # condition[c] /\ condition' = [condition EXCEPT ![c] = s]
    /\ quiet' = FALSE
    /\ UNCHANGED <<probe, hung>>

ProbeStep ==
    \/ \E c \in Parts : Answers(c) \/ Refuses(c) \/ CallTimesOut(c)
    \/ Reply \/ RequestTimesOut \/ Second

HealthNext == StartProbe \/ ComponentChanges \/ ProbeStep

HealthSpec == HealthInit /\ [][HealthNext]_healthVars

\* The runtime polls the request and its timers; nothing makes anyone probe.
HealthFairSpec == HealthSpec /\ WF_healthVars(ProbeStep)

----------------------------------------------------------------------------
(* Properties.                                                             *)

Truth == [c \in ChecksOf(probe.kind) |-> condition[c] = "up"]
Given == Report(probe)

\* An answer is true of the service it was asked about, when no component
\* changed meanwhile: "healthy" is every component up, "ready" is a service
\* that can embed a query and search, a level names the stores that are left,
\* and the two probes name them alike (health, readiness).  A retry that gives
\* up, an order of the checks or a component left out would show here.
AnswersAreTrue ==
    (probe.stage = "answered" /\ quiet) =>
        LET up == {c \in ChecksOf(probe.kind) : Truth[c]}
        IN /\ Given.status = "healthy" => up = ChecksOf("health")
           /\ Given.status = "unhealthy" => up \cap Stores = {}
           /\ Given.status = "degraded" => up # ChecksOf("health") /\ up \cap Stores # {}
           /\ Given.status = "ready" <=>
                 probe.kind = "ready" /\ "embedding" \in up /\ up \cap Stores # {}
           /\ Given.level = "semantic_only" => up \cap Stores = {"qdrant"}
           /\ Given.level = "keyword_only" => up \cap Stores = {"opensearch"}
           /\ Given.level \in {"none", "hybrid_full"} =>
                 Stores \subseteq up \/ Given.status = "unavailable"
           /\ "hybrid_search" \in Given.can <=> probe.kind = "health" /\ Stores \subseteq up

\* A probe that runs into the timeout of the server was kept waiting by a
\* component: the attempts at a reranker that refuses, and the waits between
\* them, fit into one request (health_check, RetryPolicy, TimeoutLayer).
OnlyTheSlowTimeOut == probe.stage = "timeout" => hung

\* What the probes say of the service is so, and said in time unless a component
\* is slow (api/routes/health.rs).
ProbesTruthful == AnswersAreTrue /\ OnlyTheSlowTimeOut

\* Every probe is answered, with a report or by the timeout, although calls to
\* OpenSearch have no timeout of their own (create_router_with_config).
ProbesEnd == [](probe.stage = "asking" => <>(probe.stage # "asking"))
=============================================================================
