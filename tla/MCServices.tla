----------------------------- MODULE MCServices -----------------------------
(* Instances for TLC of the components whose liveness is checked: the video *)
(* pipeline, the embedding of a query or a document, the LLM gateway, the   *)
(* health probes and, without faults, the job tracker. They share nothing:  *)
(* a behaviour plays one of them, its scene, while the others rest in a     *)
(* state they start in.                                                     *)
EXTENDS VideoPipeline, QueryEmbedding, LlmGateway, ServiceHealth, TLC

CONSTANTS Replicas, Jobs, MaxRetries, CounterSize, Timeouts, MaxCancels, MaxReplays,
          MaxFaults, Durable, MaxSnapshots,
          g1, g2

VARIABLES scene,
          status, count, work, tries, runner, replaying, version, writes, stored, lost,
          cancels, replays, faults

Tracker == INSTANCE JobTracker
trackerVars == <<status, count, work, tries, runner, replaying, version, writes, stored,
                 lost, cancels, replays, faults>>
playVars == <<scene, vidVars, embedVars, gatewayVars, healthVars, trackerVars>>

Scenes == {"video", "embedding", "gateway", "health", "tracker"}

----------------------------------------------------------------------------
(* The instances.                                                          *)

Speech(from, to) == [from |-> from, to |-> to]
MCVideos ==
    {[duration |-> 9, audio |-> TRUE, speech |-> {Speech(0, 2), Speech(2, 5), Speech(8, 10)}],
     [duration |-> 5, audio |-> FALSE, speech |-> {}],
     [duration |-> 0, audio |-> TRUE, speech |-> {}]}

MCAsked == {<<"find", "doc">>, <<Blank, "find", "x">>, <<"x">>, <<Blank>>}
MCSynonyms == ("find" :> <<<<"search">>, <<"look", "for">>>>) @@ ("doc" :> <<<<"file">>>>)
MCLines == {<<"x">>, <<"find", "x">>, <<"look", "for", "doc">>, <<>>}
MCHyde == {<<"x">>, <<"long", "text">>, <<Blank>>}
Expander(e, o, s, l, m, a) ==
    [enabled |-> e, original |-> o, synonyms |-> s, llm |-> l, most |-> m, accepts |-> a]
MCExpanders ==
    {Expander(TRUE, o, s, l, 3, 2) : o, s, l \in BOOLEAN}
    \cup {Expander(TRUE, TRUE, TRUE, TRUE, 0, 2), Expander(FALSE, TRUE, TRUE, FALSE, 3, 2), Expander(TRUE, TRUE, TRUE, TRUE, 2, 2),
          Expander(TRUE, TRUE, TRUE, FALSE, 3, 1)}
MCChunks == {<<>>, <<<<"a">>>>, <<<<"a">>, <<"b">>, <<"a">>>>,
             <<<<"a">>, <<"b">>, <<"c">>, <<"d">>>>}

\* The limiter is tried on one deployment, the routes on all without it.
MCDeployments ==
    [host : {"gateway"}, embed : {"loaded"}, rerank : {"off", "loaded", "failed"},
     chat : {"off", "loaded"}, limiting : {FALSE}, limit : {1}, state : {"up"}]
    \cup [host : {"gateway"}, embed : {"off"}, rerank : {"off"}, chat : {"off"},
          limiting : {FALSE}, limit : {1}, state : {"up"}]
    \cup [host : {"gateway"}, embed : {"loaded"}, rerank : {"off"}, chat : {"off"},
          limiting : {TRUE}, limit : Limits, state : {"up"}]
    \cup [host : {"embedding"}, embed : {"loaded"}, rerank : {"off"}, chat : {"off"},
          limiting : {FALSE}, limit : {1}, state : {"up"}]
MCAsks == [c \in {g1, g2} |->
    IF c = g1 THEN {"embed"} \X {"empty", "blank", "fits", "many"}
                   \cup {<<"rerank", "fits">>, <<"chat", "fits">>, <<"stream", "fits">>}
    ELSE {<<"models", "fits">>, <<"embed", "fits">>}]

\* The reranker's client waits as long as the server; the transport of
\* OpenSearch for ever.
MCCallTimeout == [c \in Parts |-> CASE c = "qdrant" -> 2 [] c = "embedding" -> 1
                                    [] c = "reranker" -> 6 [] OTHER -> 9]

----------------------------------------------------------------------------
(* The play.                                                               *)

PlayInit ==
    /\ scene \in Scenes
    /\ VidInit /\ (scene # "video" => clip.duration = 0 /\ parallel) /\ cleanup = parallel
    /\ EmbedInit /\ (scene # "embedding" => setup = Expander(FALSE, TRUE, TRUE, FALSE, 3, 2))
    /\ GatewayInit /\ (scene # "gateway" => server.host = "embedding")
    /\ HealthInit /\ Tracker!Init

\* Only the scene s moves.
Alone(s) ==
    /\ scene = s /\ UNCHANGED scene
    /\ IF s = "video" THEN TRUE ELSE UNCHANGED vidVars
    /\ IF s = "embedding" THEN TRUE ELSE UNCHANGED embedVars
    /\ IF s = "gateway" THEN TRUE ELSE UNCHANGED gatewayVars
    /\ IF s = "health" THEN TRUE ELSE UNCHANGED healthVars
    /\ IF s = "tracker" THEN TRUE ELSE UNCHANGED trackerVars

PlayNext ==
    \/ Alone("video") /\ VidNext
    \/ Alone("embedding") /\ EmbedNext
    \/ Alone("gateway") /\ GatewayNext
    \/ Alone("health") /\ HealthNext
    \/ Alone("tracker") /\ Tracker!Next

\* The fairness of the specifications, one condition for each runtime task of
\* a scene. The tracker's is weaker than JobTracker's: some job goes on, not
\* each; that is enough, as the work on the jobs is finite.
Task(c) ==
    \/ Alone("gateway") /\ Handle(c)
    \/ c = g1 /\ Alone("video") /\ Working
    \/ c = g1 /\ Alone("embedding") /\ EmbedStep
    \/ c = g1 /\ Alone("health") /\ ProbeStep
    \/ c = g1 /\ Alone("tracker") /\ \E j \in Jobs : Tracker!WorkStep(j)
PlaySpec == PlayInit /\ [][PlayNext]_playVars /\ \A c \in Callers : WF_playVars(Task(c))

\* The properties of JobTracker (api/jobs.rs): what the queue is done with is
\* reported so, and every accepted job is.
SettledJobsReported == Tracker!SettledJobsReported
EveryJobReported == Tracker!EveryJobReported

\* Whatever fails, every call of the pipeline, every embedding, every call of
\* the gateway and every probe comes to an end, and every job to a final report.
EveryTaskEnds == VideoEnds /\ EmbeddingEnds /\ CallsEnd /\ ProbesEnd /\ EveryJobReported
=============================================================================
