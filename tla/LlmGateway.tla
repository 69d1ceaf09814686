----------------------------- MODULE LlmGateway -----------------------------
(***************************************************************************)
(* The model servers: the gateway (rag-llm-gateway) with its embedding,    *)
(* reranking and chat routes behind a token bucket, and the embedding      *)
(* service (rag-embedding), which serves the embedding route alone.        *)
(*                                                                         *)
(* A model is one object under a std Mutex: a panic during inference       *)
(* poisons the lock, and every later call of that model fails.  A chat     *)
(* answer is streamed by re-reading the SSE lines of every network chunk   *)
(* on its own.  The skip paths that AuthConfig::from_env sets cover every  *)
(* path, so all calls carry the anonymous context and share one bucket.    *)
(*                                                                         *)
(* Tokens are counted in 1/WindowTicks of a token, so that a tick refills  *)
(* exactly `limit` of them.                                                *)
(***************************************************************************)
EXTENDS Integers, Sequences, FiniteSets

CONSTANTS Callers,       \* clients of the server
          Limits,        \* requests per window that may be configured
          BurstNum, BurstDen, \* burst_multiplier = BurstNum / BurstDen
          WindowTicks,   \* the window of the limit, in ticks
          SecondTicks,   \* ticks of a second: Retry-After is in whole seconds
          Events,        \* events of a streamed answer, before [DONE]
          LastTick,      \* bound on the clock
          MaxChecks,     \* bound on the requests the limiter admits
          Deployments,   \* the configurations and start-ups considered
          Asks           \* per caller, the <<route, input>> pairs it asks for

ASSUME GatewayAssumption ==
    /\ Limits \subseteq Nat /\ BurstNum \in Nat /\ BurstDen \in Nat \ {0}
    /\ WindowTicks \in Nat \ {0} /\ SecondTicks \in Nat \ {0}
    /\ Events \in Nat /\ LastTick \in Nat /\ MaxChecks \in Nat

VARIABLES server,     \* what was configured and what was loaded
          poisoned,   \* the models whose lock a panic has poisoned
          tick,       \* the clock
          bucket,     \* the bucket of the anonymous caller, once it exists
          admitted,   \* when the limiter let a request pass (history)
          promised,   \* the tick from which a refused caller was told to retry
          call,       \* per caller, the request it has made
          feed        \* per caller, the stream it reads

gatewayVars == <<server, poisoned, tick, bucket, admitted, promised, call, feed>>

None == [exists |-> FALSE]
ModelRoutes == {"embed", "rerank"}
Idle == [at |-> "idle"]
NoFeed == [at |-> 0, cuts |-> {}, got |-> <<>>]

-----------------------------------------------------------------------------
(* Start-up *)

\* A failing embedding model ends the process; a failing reranker only warns.
Servers ==
    [host : {"gateway"}, embed : {"off", "loaded"},
     rerank : {"off", "loaded", "failed"}, chat : {"off", "loaded"},
     limiting : BOOLEAN, limit : Limits, state : {"up"}]
    \cup [host : {"embedding"}, embed : {"loaded"}, rerank : {"off"},
          chat : {"off"}, limiting : {FALSE}, limit : Limits, state : {"up"}]

GatewayInit ==
    /\ server \in Servers \cap Deployments
    /\ poisoned = {} /\ tick = 0 /\ bucket = None
    /\ admitted = <<>> /\ promised = LastTick + 1
    /\ call = [c \in Callers |-> Idle]
    /\ feed = [c \in Callers |-> NoFeed]

\* What serves a route.
Backend(route) == IF route = "embed" THEN server.embed
                  ELSE IF route = "rerank" THEN server.rerank
                  ELSE server.chat

-----------------------------------------------------------------------------
(* The token bucket *)

Burst == (server.limit * BurstNum) \div BurstDen
FullBucket == Burst * WindowTicks

Least(a, b) == IF a < b THEN a ELSE b

\* What the bucket holds now: refilled for the time since the last check.
\* Mutants: the burst does not cap the refill; only whole tokens are credited.
LevelUncapped(b) == IF b.exists THEN b.tokens + (tick - b.last) * server.limit ELSE FullBucket
LevelWhole(b) ==
    IF b.exists
    THEN Least(b.tokens + (((tick - b.last) * server.limit) \div WindowTicks) * WindowTicks,
               FullBucket)
    ELSE FullBucket
Level(b) ==
    IF b.exists THEN Least(b.tokens + (tick - b.last) * server.limit, FullBucket) ELSE FullBucket

Ceil(a, b) == (a + b - 1) \div b

\* Seconds until the missing part of a token has been refilled.
RetryAfter(level) == Ceil(Ceil(WindowTicks - level, server.limit), SecondTicks)

Bucket(tokens) == [exists |-> TRUE, tokens |-> tokens, last |-> tick]

AdmitCall(c, request) ==
    /\ IF server.limiting
       THEN /\ Level(bucket) >= WindowTicks
            /\ bucket' = Bucket(Level(bucket) - WindowTicks)
            /\ admitted' = Append(admitted, tick)
            /\ promised' = LastTick + 1
       ELSE UNCHANGED <<bucket, admitted, promised>>
    /\ call' = [call EXCEPT ![c] = request]

Answer(c, status) == call' = [call EXCEPT ![c] = [at |-> "answered", status |-> status]]

Refuse(c) ==
    /\ server.limiting /\ server.limit > 0
    /\ Level(bucket) < WindowTicks
    /\ bucket' = Bucket(Level(bucket))
    /\ promised' = Least(promised, tick + RetryAfter(Level(bucket)) * SecondTicks)
    /\ Answer(c, "429")
    /\ UNCHANGED admitted

\* With a limit of zero the wait is infinite, and adding it to an Instant
\* panics: the connection is closed without an answer.
Abort(c) ==
    /\ server.limiting /\ server.limit = 0
    /\ bucket' = Bucket(0)
    /\ Answer(c, "aborted")
    /\ UNCHANGED <<admitted, promised>>

Arrive(c) ==
    /\ call[c].at \in {"idle", "answered"} /\ server.state = "up"
    /\ Len(admitted) < MaxChecks
    /\ \E ask \in Asks[c] :
          /\ server.host = "embedding" => ask[1] \in {"embed", "models"}
          /\ \/ AdmitCall(c, [at |-> "handling", route |-> ask[1], input |-> ask[2]])
             \/ Refuse(c)
             \/ Abort(c)
    /\ feed' = [feed EXCEPT ![c] = NoFeed]
    /\ UNCHANGED <<server, poisoned, tick>>

-----------------------------------------------------------------------------
(* The routes *)

Handling(c, routes) == call[c].at = "handling" /\ call[c].route \in routes

Unloaded(c) ==
    /\ Handling(c, ModelRoutes \cup {"chat", "stream"})
    /\ Backend(call[c].route) # "loaded"
    /\ Answer(c, "503")
    /\ UNCHANGED <<server, poisoned, tick, bucket, admitted, promised, feed>>

\* The gateway only refuses an empty list; the embedding service also refuses
\* one of blank texts, and one above its batch size.
BadInput(c) ==
    \/ call[c].input = "empty"
    \/ server.host = "embedding" /\ call[c].input \in {"blank", "many"}

CheckInput(c) ==
    /\ Handling(c, ModelRoutes) /\ Backend(call[c].route) = "loaded"
    /\ IF BadInput(c) THEN Answer(c, "400")
       ELSE call' = [call EXCEPT ![c].at = "queued"]
    /\ UNCHANGED <<server, poisoned, tick, bucket, admitted, promised, feed>>

\* A panic under the lock of a model poisons it.
Infer(route, outcome) == IF outcome = "panics" THEN poisoned \cup {route} ELSE poisoned

\* The blocking task waits for the lock of the model and runs under it.
RunModel(c) ==
    /\ call[c].at = "queued"
    /\ \/ /\ call[c].route \in poisoned
          /\ Answer(c, "500") /\ UNCHANGED poisoned
       \/ /\ call[c].route \notin poisoned
          /\ \E outcome \in {"answers", "fails", "panics"} :
                /\ Answer(c, IF outcome = "answers" THEN "200" ELSE "500")
                /\ poisoned' = Infer(call[c].route, outcome)
    /\ UNCHANGED <<server, tick, bucket, admitted, promised, feed>>

\* A request error, a bad status and an unreadable body are all 502.
Chat(c) ==
    /\ Handling(c, {"chat"}) /\ server.chat = "loaded"
    /\ \E status \in {"200", "502"} : Answer(c, status)
    /\ UNCHANGED <<server, poisoned, tick, bucket, admitted, promised, feed>>

OpenStream(c) ==
    /\ Handling(c, {"stream"}) /\ server.chat = "loaded"
    /\ \/ Answer(c, "502")
       \/ call' = [call EXCEPT ![c].at = "streaming"]
    /\ UNCHANGED <<server, poisoned, tick, bucket, admitted, promised, feed>>

\* The routes whose model is in the list.
ListModels(c) ==
    /\ Handling(c, {"models"})
    /\ call' = [call EXCEPT ![c] =
           [at |-> "answered", status |-> "200",
            serves |-> {r \in ModelRoutes \cup {"chat", "stream"} : Backend(r) = "loaded"}]]
    /\ UNCHANGED <<server, poisoned, tick, bucket, admitted, promised, feed>>

Enabled == {r \in ModelRoutes \cup {"chat", "stream"} : Backend(r) # "off"}

\* Ready: something is enabled, and whatever is enabled is there.
IsReady == Enabled # {} /\ \A r \in Enabled : Backend(r) = "loaded"

\* The services /health calls healthy; chat is asked whether it is alive.
HealthyRoutes(alive) == {r \in ModelRoutes : Backend(r) = "loaded"}
                  \cup {r \in {"chat", "stream"} : alive /\ Backend(r) = "loaded"}

Health(c) ==
    /\ call[c].at \in {"idle", "answered"} /\ server.state = "up"
    /\ \E alive \in BOOLEAN :
          call' = [call EXCEPT ![c] =
              [at |-> "answered", status |-> "200", serves |-> HealthyRoutes(alive)]]
    /\ UNCHANGED <<server, poisoned, tick, bucket, admitted, promised, feed>>

Probe(c) ==
    /\ call[c].at \in {"idle", "answered"} /\ server.state = "up"
    /\ server.host = "gateway"
    /\ call' = [call EXCEPT ![c] =
           [at |-> "answered", status |-> "200", serves |-> IF IsReady THEN Enabled ELSE {}]]
    /\ UNCHANGED <<server, poisoned, tick, bucket, admitted, promised, feed>>

-----------------------------------------------------------------------------
(* Streaming: the upstream text is a sequence of half events; a network     *)
(* chunk may end anywhere in it.  Event n is the halves 2n-1 and 2n, and    *)
(* event Events + 1 is [DONE].                                              *)

Halves == 2 * (Events + 1)

Whole(from, to) == {n \in 1 .. Events + 1 : 2 * n - 1 >= from /\ 2 * n <= to}

First(ns) == CHOOSE n \in ns : \A k \in ns : n <= k

\* What filter_map makes of one chunk: its first readable "data:" line.  Half
\* a line fails to parse, and the other half has no prefix: both are skipped.
\* Mutant: a line without the prefix ends the chunk.
OutOfStrict(from, to) ==
    IF from % 2 = 0 \/ Whole(from, to) = {} \/ First(Whole(from, to)) = Events + 1 THEN <<>>
    ELSE <<First(Whole(from, to))>>
OutOf(from, to) ==
    IF Whole(from, to) = {} \/ First(Whole(from, to)) = Events + 1 THEN <<>>
    ELSE <<First(Whole(from, to))>>

NextChunk(c) ==
    /\ call[c].at = "streaming" /\ feed[c].at < Halves
    /\ \E to \in feed[c].at + 1 .. Halves :
          feed' = [feed EXCEPT ![c] =
              [at |-> to, cuts |-> @.cuts \cup {to},
               got |-> @.got \o OutOf(@.at + 1, to)]]
    /\ UNCHANGED <<server, poisoned, tick, bucket, admitted, promised, call>>

\* The upstream closes: the body ends, nothing is written after the last event.
EndStream(c) ==
    /\ call[c].at = "streaming" /\ feed[c].at = Halves
    /\ Answer(c, "200")
    /\ UNCHANGED <<server, poisoned, tick, bucket, admitted, promised, feed>>

\* An error of the upstream, the client timeout included, breaks the body off.
BreakStream(c) ==
    /\ call[c].at = "streaming" /\ feed[c].at < Halves
    /\ Answer(c, "broken")
    /\ UNCHANGED <<server, poisoned, tick, bucket, admitted, promised, feed>>

-----------------------------------------------------------------------------
(* Time, and SIGTERM: the embedding service drains, the gateway just ends. *)

PassTime ==
    /\ tick < LastTick /\ tick' = tick + 1
    /\ server.limiting /\ server.state = "up"
    /\ UNCHANGED <<server, poisoned, bucket, admitted, promised, call, feed>>

Terminate ==
    /\ server.state = "up"
    /\ IF server.host = "embedding"
       THEN server' = [server EXCEPT !.state = "draining"] /\ UNCHANGED call
       ELSE /\ server' = [server EXCEPT !.state = "gone"]
            /\ call' = [c \in Callers |->
                  IF call[c].at \in {"idle", "answered"} THEN call[c]
                  ELSE [at |-> "answered", status |-> "broken"]]
    /\ UNCHANGED <<poisoned, tick, bucket, admitted, promised, feed>>

Handle(c) ==
    \/ Unloaded(c) \/ CheckInput(c) \/ RunModel(c) \/ Chat(c) \/ OpenStream(c)
    \/ ListModels(c) \/ NextChunk(c) \/ EndStream(c) \/ BreakStream(c)

GatewayNext ==
    \/ \E c \in Callers : Arrive(c) \/ Probe(c) \/ Health(c) \/ Handle(c)
    \/ PassTime \/ Terminate

GatewaySpec == GatewayInit /\ [][GatewayNext]_gatewayVars

\* The runtime goes on polling every request it has accepted.
GatewayFairSpec ==
    GatewaySpec /\ \A c \in Callers : WF_gatewayVars(Handle(c))

-----------------------------------------------------------------------------
(* Properties *)

AdmittedIn(from, to) ==
    Cardinality({i \in 1 .. Len(admitted) : admitted[i] \in from .. to})

\* rate_limit/bucket.rs: in any stretch of time the limiter admits at most the
\* burst and what the rate refills in that time, however the requests and the
\* refused ones among them are spread.
RateBounded ==
    \A from, to \in 0 .. tick : from <= to =>
        AdmittedIn(from, to) * WindowTicks <= FullBucket + (to - from) * server.limit

\* rate_limit/bucket.rs, error.rs: a caller that comes back after the announced
\* Retry-After, with no request admitted in between, is not refused again,
\* even if it or others have kept asking meanwhile.
RetryAfterSuffices ==
    [][bucket' # bucket /\ admitted' = admitted /\ server.limit > 0
           => tick < promised]_gatewayVars

\* routes/health.rs, routes/models.rs: a server that said it is ready, that a
\* service is healthy or that it has a model does not answer 503 on the routes
\* that this covers.
PromisedRoutesServed ==
    \A c, d \in Callers :
        "serves" \in DOMAIN call[c] =>
            ~ \E r \in call[c].serves : Handling(d, {r}) /\ Backend(r) # "loaded"

\* clients/vllm.rs: the events reach the client in order, and one is missing
\* only if a chunk boundary cut it or an earlier event came in the same chunk.
OnlyTornOrCrowdedLost ==
    \A c \in Callers :
        LET got == feed[c].got
            cuts == feed[c].cuts \cup {0}
            passed(n) == 2 * n <= feed[c].at
            torn(n) == 2 * n - 1 \in cuts
            crowded(n) == \E k \in 1 .. n - 1 :
                              ~torn(k) /\ \A cut \in cuts : ~(cut \in 2 * k .. 2 * n - 2)
        IN  /\ \A i \in 1 .. Len(got) - 1 : got[i] < got[i + 1]
            /\ \A n \in 1 .. Events :
                  passed(n) => \/ \E i \in DOMAIN got : got[i] = n
                               \/ torn(n) \/ crowded(n)

\* What the gateway announces it delivers, routes and events alike, but for what
\* the reader of a stream cannot piece together (routes/, clients/vllm.rs).
GatewayTruthful == PromisedRoutesServed /\ OnlyTornOrCrowdedLost

\* api/routes: every accepted request is answered, also while the server drains
\* and after the model's lock was poisoned.
CallsEnd == \A c \in Callers : (call[c].at = "handling") ~> (call[c].at = "answered")

\* docs/llm-gateway/README.md: a streamed answer has every event and ends with
\* [DONE].
StreamComplete ==
    \A c \in Callers :
        feed[c].at = Halves /\ call[c].at = "answered" /\ call[c].status = "200" =>
            feed[c].got = [n \in 1 .. Events + 1 |-> n]
=============================================================================
