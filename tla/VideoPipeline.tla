--------------------------- MODULE VideoPipeline ---------------------------
(***************************************************************************)
(* The video pipeline (rag-video): VideoPipeline::process probes a video,  *)
(* takes keyframes and the audio track from it, has scenes detected and    *)
(* the audio transcribed, fuses the text by time into chunks, embeds them  *)
(* and writes them to the collection of VideoQdrantIndexer.  The caller    *)
(* may run it again for the same video and may delete the video's points,  *)
(* also while it runs; the process may crash.                              *)
(*                                                                         *)
(* Times are in units of a second or so.  What ffmpeg and the services     *)
(* answer is chosen by the steps.  The text of a chunk is the set of the   *)
(* transcript segments in it.                                              *)
(***************************************************************************)
EXTENDS Integers, SequencesExt, FiniteSetsExt, Functions

CONSTANTS
    Target, Shortest, Longest, Shared,  \* FusionConfig: chunk durations and overlap
    FrameInterval,                      \* the 5 seconds of extract_keyframes
    EmbedBatch, IndexBatch,             \* embedding_batch_size, the indexer's batch_size
    Videos,                             \* bound: [duration, audio, speech] the probe may find
    MaxVideoRuns                        \* bound: calls of process

\* FusionConfig::validate.
ValidFusion ==
    /\ Target \in Nat /\ Shortest \in Nat /\ Longest \in Nat /\ Shared \in Nat
    /\ Shortest <= Target /\ Target <= Longest /\ Shared < Shortest
\* PipelineConfig, and its validation, which process calls.
ValidPipeline == EmbedBatch \in Nat \ {0} /\ FrameInterval \in Nat \ {0}
\* VideoIndexerConfig.
ValidIndexer == IndexBatch \in Nat \ {0}
\* parse_ffprobe_output and the transcript: whole seconds.
ProbedVideo(v) ==
    /\ v.duration \in Nat /\ v.audio \in BOOLEAN
    /\ \A s \in v.speech : s.from \in Nat /\ s.to \in Nat

ASSUME VideoAssumption ==
    /\ ValidFusion /\ ValidPipeline /\ ValidIndexer
    /\ MaxVideoRuns \in Nat /\ \A v \in Videos : ProbedVideo(v)

VARIABLES
    step,       \* where process stands; "idle" before the first call
    clip,       \* the video: what a probe finds
    parallel,   \* enable_parallelism
    cleanup,    \* cleanup_intermediate
    stages,     \* result.stage_results: <<stage, success>>
    frames,     \* result.keyframes: their timestamps
    track,      \* result.audio_path is set
    replies,    \* the outcomes of the pair of stages that is being awaited
    chunks,     \* result.chunks: [from, to, text]
    vectors,    \* result.embeddings: by chunk
    batch,      \* the batch of chunks that index_chunks has come to
    report,     \* what the last call returned: "ok", "failed" (success is false), "error"
    runs,       \* how many calls there were
    files,      \* what lies in the work directory of the video
    points,     \* the collection: points of this video
    deletion,   \* what delete_by_video_id has counted, or NoDeletion
    wiped       \* the run during which a deletion last took effect

vidVars == <<step, clip, parallel, cleanup, stages, frames, track, replies, chunks, vectors,
             batch, report, runs, files, points, deletion, wiped>>

Stages == <<"probe", "frames", "audio", "scenes", "speech", "fusion", "embedding", "indexing">>
NoDeletion == -1

----------------------------------------------------------------------------
(* ContentFusionService.                                                   *)

\* Where the chunk that begins at start ends: a remainder shorter than the
\* shortest chunk is joined, as far as the longest allows.
EndsAt(start, duration) ==
    LET end == start + Target
        rest == Max({duration - end, 0})
        reach == IF 0 < rest /\ rest < Shortest THEN duration ELSE Min({end, duration})
    IN Min({reach, start + Longest})

\* generate_chunk_boundaries.
Boundaries(duration) ==
    LET from[start \in 0..duration] ==
            LET end == EndsAt(start, duration)
            IN <<<<start, end>>>> \o (IF end >= duration THEN <<>> ELSE from[end - Shared])
    IN IF duration = 0 THEN <<>> ELSE from[0]

\* Mutant: only what is said wholly within the chunk.
SpeechWithin(speech, from, to) == {s \in speech : s.from >= from /\ s.to <= to}

\* get_transcript_in_range.
SpeechIn(speech, from, to) == {s \in speech : s.to > from /\ s.from < to}

\* create_chunks: frames without descriptions add a picture but no text.
Fused(duration, speech, pictures) ==
    LET bounds == Boundaries(duration)
    IN [i \in DOMAIN bounds |->
            [from |-> bounds[i][1], to |-> bounds[i][2],
             text |-> SpeechIn(speech, bounds[i][1], bounds[i][2]),
             picture |-> \E t \in pictures : bounds[i][1] <= t /\ t < bounds[i][2]]]

\* extract_keyframes: one every interval.
FrameTimes(duration) == {t \in 0..(duration - 1) : t % FrameInterval = 0}

----------------------------------------------------------------------------
(* process.                                                                *)

VidInit ==
    /\ step = "idle" /\ clip \in Videos /\ parallel \in BOOLEAN /\ cleanup \in BOOLEAN
    /\ stages = <<>> /\ frames = {} /\ track = FALSE /\ replies = <<>>
    /\ chunks = <<>> /\ vectors = <<>> /\ batch = 0
    /\ report = "none" /\ runs = 0 /\ files = {} /\ points = {}
    /\ deletion = NoDeletion /\ wiped = 0

Noted(stage, success) == stages' = Append(stages, <<stage, success>>)
AllSucceeded(results) == \A i \in DOMAIN results : results[i][2]

\* finalize, and the return of the result.
Finish(results) ==
    /\ step' = "idle" /\ stages' = results
    /\ report' = IF AllSucceeded(results) THEN "ok" ELSE "failed"

\* A call; a file that is not there is an error and leaves nothing.
Process ==
    /\ step = "idle" /\ runs < MaxVideoRuns
    /\ runs' = runs + 1
    /\ stages' = <<>> /\ frames' = {} /\ track' = FALSE /\ replies' = <<>>
    /\ chunks' = <<>> /\ vectors' = <<>> /\ batch' = 0
    /\ \/ step' = "idle" /\ report' = "error" /\ UNCHANGED files
       \/ step' = "probe" /\ report' = "none" /\ files' = files \cup {"dir"}
    /\ UNCHANGED <<clip, parallel, cleanup, points, deletion, wiped>>

\* Stage 1.  Its failure ends the call, and the work directory stays.
ProbeVideo ==
    /\ step = "probe"
    /\ \/ Noted("probe", TRUE) /\ step' = "extraction" /\ UNCHANGED report
       \/ Finish(Append(stages, <<"probe", FALSE>>))
    /\ UNCHANGED <<clip, parallel, cleanup, frames, track, replies, chunks, vectors, batch, runs,
                   files, points, deletion, wiped>>

\* Mutant: the second is not begun when the first has failed.
AwaitedIfOk(first, second) == IF parallel THEN {first, second} ELSE
                              IF first \in DOMAIN replies /\ replies[first] THEN {second} ELSE {first}

\* Of a pair of stages the second begins with the first if they run in parallel.
Awaited(first, second) == IF parallel THEN {first, second} ELSE
                          IF first \in DOMAIN replies THEN {second} ELSE {first}
Answered(stage, success) ==
    replies' = [s \in DOMAIN replies \cup {stage} |-> IF s = stage THEN success ELSE replies[s]]

\* KeyframeExtractor::extract: the first frame that fails fails all, those
\* before it stay in the directory.
ExtractFrames ==
    /\ step = "extraction" /\ "frames" \in Awaited("frames", "audio") \ DOMAIN replies
    /\ files' = files \cup {"frames"}
    /\ \/ Answered("frames", TRUE) /\ frames' = FrameTimes(clip.duration)
       \/ Answered("frames", FALSE) /\ UNCHANGED frames
    /\ UNCHANGED <<step, clip, parallel, cleanup, stages, track, chunks, vectors, batch, report,
                   runs, points, deletion, wiped>>

\* extract_audio: a video without an audio track counts as a failure.
ExtractAudio ==
    /\ step = "extraction" /\ "audio" \in Awaited("frames", "audio") \ DOMAIN replies
    /\ \/ /\ clip.audio /\ Answered("audio", TRUE)
          /\ track' = TRUE /\ files' = files \cup {"audio"}
       \/ Answered("audio", FALSE) /\ UNCHANGED <<track, files>>
    /\ UNCHANGED <<step, clip, parallel, cleanup, stages, frames, chunks, vectors, batch, report,
                   runs, points, deletion, wiped>>

Pair(first, second) == <<<<first, replies[first]>>, <<second, replies[second]>>>>

\* Both are recorded, the frames first; without either there is nothing to do.
Extracted ==
    /\ step = "extraction" /\ DOMAIN replies = {"frames", "audio"}
    /\ LET results == stages \o Pair("frames", "audio")
       IN IF frames = {} /\ ~track
          THEN Finish(results)
          ELSE step' = "analysis" /\ stages' = results /\ UNCHANGED report
    /\ replies' = <<>>
    /\ UNCHANGED <<clip, parallel, cleanup, frames, track, chunks, vectors, batch, runs, files,
                   points, deletion, wiped>>

\* SceneDetectionClient::detect: what it finds is not used any further.
DetectScenes ==
    /\ step = "analysis" /\ "scenes" \in Awaited("scenes", "speech") \ DOMAIN replies
    /\ \E success \in BOOLEAN : Answered("scenes", success)
    /\ UNCHANGED <<step, clip, parallel, cleanup, stages, frames, track, chunks, vectors, batch,
                   report, runs, files, points, deletion, wiped>>

\* TranscriptionClient::transcribe, only with audio.
Transcribe ==
    /\ step = "analysis" /\ track /\ "speech" \in Awaited("scenes", "speech") \ DOMAIN replies
    /\ \E success \in BOOLEAN : Answered("speech", success)
    /\ UNCHANGED <<step, clip, parallel, cleanup, stages, frames, track, chunks, vectors, batch,
                   report, runs, files, points, deletion, wiped>>

\* Both are recorded, and the content is fused (stage 6).
Fuse ==
    /\ step = "analysis" /\ DOMAIN replies = (IF track THEN {"scenes", "speech"} ELSE {"scenes"})
    /\ LET heard == track /\ replies["speech"]
           pair == IF track THEN Pair("scenes", "speech") ELSE <<<<"scenes", replies["scenes"]>>>>
       IN /\ stages' = stages \o pair \o <<<<"fusion", TRUE>>>>
          /\ chunks' = Fused(clip.duration, IF heard THEN clip.speech ELSE {}, frames)
    /\ step' = "embedding" /\ replies' = <<>>
    /\ UNCHANGED <<clip, parallel, cleanup, frames, track, vectors, batch, report, runs, files,
                   points, deletion, wiped>>

\* One batch of generate_embeddings, of n chunks, of which the service answered
\* the first got: the others take a placeholder.
Embedded(n, got) == [i \in 1..n |-> IF i <= got THEN "model" ELSE "placeholder"]

\* generate_embeddings: a batch that fails (got is 0), or comes back short, does
\* not fail the stage.
Embed ==
    /\ step = "embedding" /\ Len(vectors) < Len(chunks)
    /\ LET n == Min({EmbedBatch, Len(chunks) - Len(vectors)})
       IN \E got \in 0..n : vectors' = vectors \o Embedded(n, got)
    /\ UNCHANGED <<step, clip, parallel, cleanup, stages, frames, track, replies, chunks, batch,
                   report, runs, files, points, deletion, wiped>>

EmbeddingDone ==
    /\ step = "embedding" /\ Len(vectors) = Len(chunks)
    /\ Noted("embedding", TRUE) /\ step' = "indexing" /\ batch' = 1
    /\ UNCHANGED <<clip, parallel, cleanup, frames, track, replies, chunks, vectors, report, runs,
                   files, points, deletion, wiped>>

\* The end of process: the directory is removed, whatever indexing came to.
Indexed(success) ==
    /\ Finish(Append(stages, <<"indexing", success>>))
    /\ files' = IF cleanup THEN {} ELSE files

InBatch(i) == (i - 1) \div IndexBatch = batch - 1

\* One batch of index_chunks.  A chunk without a vector is left out; ids are
\* new in every run.  A failed batch ends it, those before it stay.
Upsert ==
    /\ step = "indexing" /\ \E i \in DOMAIN chunks : InBatch(i)
    /\ \/ /\ points' = points \cup {[run |-> runs, chunk |-> i, vector |-> vectors[i]] :
                                        i \in {i \in DOMAIN chunks : InBatch(i) /\ vectors[i] # "none"}}
          /\ batch' = batch + 1
          /\ UNCHANGED <<step, stages, report, files>>
       \/ Indexed(FALSE) /\ UNCHANGED <<points, batch>>
    /\ UNCHANGED <<clip, parallel, cleanup, frames, track, replies, chunks, vectors, runs,
                   deletion, wiped>>

IndexingDone ==
    /\ step = "indexing" /\ ~\E i \in DOMAIN chunks : InBatch(i)
    /\ Indexed(TRUE)
    /\ UNCHANGED <<clip, parallel, cleanup, frames, track, replies, chunks, vectors, batch, runs,
                   points, deletion, wiped>>

\* The process dies: the directory and the points stay.
VideoCrash ==
    /\ step # "idle"
    /\ step' = "idle" /\ report' = "crashed"
    /\ UNCHANGED <<clip, parallel, cleanup, stages, frames, track, replies, chunks, vectors, batch,
                   runs, files, points, deletion, wiped>>

----------------------------------------------------------------------------
(* delete_by_video_id, in the caller: it counts, then deletes.             *)

CountPoints ==
    /\ deletion = NoDeletion /\ points # {}
    /\ deletion' = Cardinality(points)
    /\ UNCHANGED <<step, clip, parallel, cleanup, stages, frames, track, replies, chunks, vectors,
                   batch, report, runs, files, points, wiped>>

\* Mutant: only the points of the last call are deleted.
DeletePointsOfRun ==
    /\ deletion # NoDeletion
    /\ points' = {p \in points : p.run # runs} /\ wiped' = runs /\ deletion' = NoDeletion
    /\ UNCHANGED <<step, clip, parallel, cleanup, stages, frames, track, replies, chunks, vectors,
                   batch, report, runs, files>>

DeletePoints ==
    /\ deletion # NoDeletion
    /\ points' = {} /\ wiped' = runs /\ deletion' = NoDeletion
    /\ UNCHANGED <<step, clip, parallel, cleanup, stages, frames, track, replies, chunks, vectors,
                   batch, report, runs, files>>

Working ==
    \/ ProbeVideo \/ ExtractFrames \/ ExtractAudio \/ Extracted \/ DetectScenes \/ Transcribe
    \/ Fuse \/ Embed \/ EmbeddingDone \/ Upsert \/ IndexingDone
VidNext == Process \/ Working \/ VideoCrash \/ CountPoints \/ DeletePoints
VidSpec == VidInit /\ [][VidNext]_vidVars

\* ffmpeg, the services and the collection answer: the clients have timeouts,
\* for ffmpeg there is none and this is an assumption.
VidFairSpec == VidSpec /\ WF_vidVars(Working)

----------------------------------------------------------------------------
(* Properties.                                                             *)

Place(stage) == CHOOSE k \in DOMAIN Stages : Stages[k] = stage

\* The stages are reported in the order of PipelineStage::all, each once,
\* whichever of a parallel pair ends first, and none is passed over but the
\* transcription of a video without audio.
StagesInOrder ==
    /\ \A i, j \in DOMAIN stages : i < j => Place(stages[i][1]) < Place(stages[j][1])
    /\ \A i \in DOMAIN stages : \A k \in 1..(Place(stages[i][1]) - 1) :
           Stages[k] # "speech" => \E j \in DOMAIN stages : stages[j][1] = Stages[k]

\* A call that reports success has written a point for every chunk, unless the
\* points were deleted meanwhile, and all that is said within the video is in
\* the text of a chunk.
SuccessIsIndexed ==
    report = "ok" =>
        /\ wiped < runs => \A i \in DOMAIN chunks : \E p \in points : p.run = runs /\ p.chunk = i
        /\ \A s \in clip.speech : s.from < s.to /\ s.from < clip.duration =>
               \E i \in DOMAIN chunks : s \in chunks[i].text

\* The chunks follow one another from the beginning of the video to its end,
\* each shares Shared at most with the one before it, and none is longer than
\* the longest; only the last can be shorter than the shortest.
ChunksCoverVideo ==
    chunks # <<>> =>
        /\ chunks[1].from = 0 /\ Last(chunks).to = clip.duration
        /\ \A i \in 2..Len(chunks) :
               /\ chunks[i - 1].from < chunks[i].from
               /\ chunks[i].from = chunks[i - 1].to - Shared
        /\ \A i \in DOMAIN chunks :
               /\ chunks[i].to - chunks[i].from <= Longest
               /\ i < Len(chunks) => chunks[i].to - chunks[i].from >= Shortest

\* Files are left in the work directory only by a call that crashed, failed in
\* its first stages, or was told to keep them (also by the ones before it).
LeftoversExplained ==
    step = "idle" /\ files # {} /\ cleanup =>
        report \in {"crashed", "error"} \/ ~\E i \in DOMAIN stages : stages[i][1] = "fusion"

\* After a deletion the collection holds points of later calls only, or of the
\* one that was running.
DeletedStayDeleted == \A p \in points : p.run >= wiped

\* A call comes to its end.
VideoEnds == step # "idle" ~> step = "idle"

\* What a call of process reports, stages and success, is what it has done, and
\* it leaves neither gaps in the chunks nor files without a reason.
CallsAccounted ==
    StagesInOrder /\ SuccessIsIndexed /\ ChunksCoverVideo /\ LeftoversExplained
=============================================================================
