------------------------------ MODULE JobQueue ------------------------------
(***************************************************************************)
(* The Redis job queue of rag-ingestion (worker/queue.rs, worker/job.rs)   *)
(* driven by the worker pool (worker/pool.rs) and by API requests that     *)
(* submit a job or replay one from the dead-letter queue.                  *)
(*                                                                         *)
(* One action is one Redis command: commands (and Lua scripts) are atomic, *)
(* the Rust functions that issue several of them are not.  A process keeps *)
(* the job it read in a local snapshot and writes that snapshot back, as   *)
(* the code does.  Sorted-set scores are abstracted to what they decide:   *)
(* whether an entry is due (queues) or stale (processing).                 *)
(***************************************************************************)
EXTENDS Integers, FiniteSets

CONSTANTS
    Jobs,           \* job identifiers, each submitted at most once
    Workers,        \* worker tasks of all the ingestion processes
    Reclaimers,     \* worker 0 of each process
    Clients,        \* API requests in progress
    NoJob,          \* "no job in hand"
    Levels,         \* number of priority levels, level 1 scanned first
    Priority,       \* the level of each job
    MaxRetries,     \* Job::max_retries
    BatchSize,      \* reclaim_batch_size
    FaultPoints,    \* program points at which a fault may strike
    MaxFaults,      \* bound on the number of faults of a behaviour
    Panics,         \* whether a handler may panic
    SlowWorkers,    \* whether a worker may outlive processing_stale_after
    MaxReplays      \* bound on the number of replay requests

WorkerPoints == {"poll", "fetch", "claim", "start", "run",
                 "complete_set", "complete_expire", "complete_rem",
                 "fail_set", "fail_rem", "fail_add", "reclaim_get", "dead"}
ClientPoints == {"free", "enqueue_add", "replay_rem", "replay_set", "replay_add"}

ASSUME ConstantsAssumption ==
    /\ NoJob \notin Jobs
    /\ Reclaimers \subseteq Workers
    /\ Workers \cap Clients = {}
    /\ Levels \in Nat \ {0}
    /\ Priority \in [Jobs -> 1..Levels]
    /\ MaxRetries \in Nat \ {0}
    /\ BatchSize \in Nat \ {0}
    /\ FaultPoints \subseteq WorkerPoints \cup ClientPoints
    /\ MaxFaults \in Nat
    /\ MaxReplays \in Nat
    /\ Panics \in BOOLEAN
    /\ SlowWorkers \in BOOLEAN

VARIABLES
    data,        \* the {prefix}:job:{id} keys: status, attempts, TTL set or not
    queue,       \* the priority sorted sets: "out", "delayed" or "ready"
    processing,  \* the processing sorted set: "out", "fresh" or "stale"
    dlq,         \* the dead-letter sorted set
    pc,          \* where each worker or request stands
    cur,         \* the id of the job it holds
    att,         \* the attempts field of its snapshot of that job
    level,       \* the priority level a polling worker looks at next
    batch,       \* ids claimed by a reclaim pass and not examined yet
    phase,       \* history: "new", "submitted", then "accepted" once enqueued
    runs,        \* history: handler runs since submission or replay
    faults, replays

redis == <<data, queue, processing, dlq>>
local == <<pc, cur, att, level, batch>>
history == <<phase, runs, faults, replays>>
vars == <<data, queue, processing, dlq, pc, cur, att, level, batch,
          phase, runs, faults, replays>>

Procs == Workers \cup Clients
Statuses == {"none", "pending", "running", "completed", "failed", "retrying"}
Data(s, n) == [status |-> s, attempts |-> n, ttl |-> "never"]

\* GET finds the key.
Present(j) == data[j].status # "none"

Init ==
    /\ data = [j \in Jobs |-> Data("none", 0)]
    /\ queue = [j \in Jobs |-> "out"]
    /\ processing = [j \in Jobs |-> "out"]
    /\ dlq = {}
    /\ pc = [p \in Procs |-> IF p \in Workers THEN "poll" ELSE "free"]
    /\ cur = [p \in Procs |-> NoJob]
    /\ att = [p \in Procs |-> 0]
    /\ level = [w \in Workers |-> 1]
    /\ batch = [w \in Workers |-> {}]
    /\ phase = [j \in Jobs |-> "new"]
    /\ runs = [j \in Jobs |-> 0]
    /\ faults = 0
    /\ replays = 0

-----------------------------------------------------------------------------
(* Moves of the program counter.                                           *)

Goto(p, from, to) ==
    /\ pc[p] = from
    /\ pc' = [pc EXCEPT ![p] = to]

\* The worker is done with its job: back to the loop, or to the next id of
\* the reclaim pass it was in.
AfterJob(w) == IF batch[w] = {} THEN "poll" ELSE "reclaim_get"

Drop(p) == cur' = [cur EXCEPT ![p] = NoJob]

-----------------------------------------------------------------------------
(* Requests: enqueue and replay_dlq_job.                                   *)

\* enqueue: SET of a job whose id is new.
EnqueueSet(c) ==
    /\ Goto(c, "free", "enqueue_add")
    /\ \E j \in Jobs :
          /\ phase[j] = "new"
          /\ phase' = [phase EXCEPT ![j] = "submitted"]
          /\ data' = [data EXCEPT ![j] = Data("pending", 0)]
          /\ cur' = [cur EXCEPT ![c] = j]
    /\ UNCHANGED <<queue, processing, dlq, att, level, batch, runs, faults, replays>>

\* enqueue: ZADD with the creation time as score, so the job is due at once.
EnqueueAdd(c) ==
    /\ Goto(c, "enqueue_add", "free")
    /\ queue' = [queue EXCEPT ![cur[c]] = "ready"]
    /\ phase' = [phase EXCEPT ![cur[c]] = "accepted"]
    /\ Drop(c)
    /\ UNCHANGED <<data, processing, dlq, att, level, batch, runs, faults, replays>>

\* replay_dlq_job: GET the job (an unknown id is NotFound).
ReplayGet(c) ==
    /\ Goto(c, "free", "replay_rem")
    /\ replays < MaxReplays
    /\ replays' = replays + 1
    /\ \E j \in Jobs : Present(j) /\ cur' = [cur EXCEPT ![c] = j]
    /\ UNCHANGED <<redis, att, level, batch, phase, runs, faults>>

\* replay_dlq_job: ZREM; an id that was not in the set is NotFound.
ReplayRem(c) ==
    /\ \/ /\ Goto(c, "replay_rem", "replay_set")
          /\ cur[c] \in dlq
          /\ UNCHANGED cur
       \/ /\ Goto(c, "replay_rem", "free")
          /\ cur[c] \notin dlq
          /\ Drop(c)
    /\ dlq' = dlq \ {cur[c]}
    /\ UNCHANGED <<data, queue, processing, att, level, batch, history>>

\* replay_dlq_job: SET the job, reset to pending with no attempts.
ReplaySet(c) ==
    /\ Goto(c, "replay_set", "replay_add")
    /\ data' = [data EXCEPT ![cur[c]] = Data("pending", 0)]
    /\ runs' = [runs EXCEPT ![cur[c]] = 0]
    /\ UNCHANGED <<queue, processing, dlq, cur, att, level, batch, phase, faults, replays>>

\* replay_dlq_job: ZADD with the current time as score.
ReplayAdd(c) ==
    /\ Goto(c, "replay_add", "free")
    /\ queue' = [queue EXCEPT ![cur[c]] = "ready"]
    /\ Drop(c)
    /\ UNCHANGED <<data, processing, dlq, att, level, batch, history>>

-----------------------------------------------------------------------------
(* dequeue                                                                 *)

Ready(n) == {j \in Jobs : queue[j] = "ready" /\ Priority[j] = n}

NextLevel(w) == level' = [level EXCEPT ![w] = IF @ = Levels THEN 1 ELSE @ + 1]

\* The Lua script on one priority queue removes a due entry, if there is one.
DequeuePop(w) ==
    \/ /\ Goto(w, "poll", "fetch")
       /\ \E j \in Ready(level[w]) :
             /\ queue' = [queue EXCEPT ![j] = "out"]
             /\ cur' = [cur EXCEPT ![w] = j]
       /\ UNCHANGED <<data, processing, dlq, att, level, batch, history>>
    \/ /\ pc[w] = "poll"
       /\ Ready(level[w]) = {}
       /\ NextLevel(w)
       /\ UNCHANGED <<redis, pc, cur, att, batch, history>>

\* GET the job; without data the scan goes on with the next level.
DequeueFetch(w) ==
    /\ \/ /\ Goto(w, "fetch", "claim")
          /\ Present(cur[w])
          /\ att' = [att EXCEPT ![w] = data[cur[w]].attempts]
          /\ level' = [level EXCEPT ![w] = 1]
          /\ UNCHANGED cur
       \/ /\ Goto(w, "fetch", "poll")
          /\ ~Present(cur[w])
          /\ Drop(w)
          /\ NextLevel(w)
          /\ UNCHANGED att
    /\ UNCHANGED <<redis, batch, history>>

\* Mutant of DequeueClaim: no ZADD to the processing set.
DequeueClaimSkipped(w) ==
    /\ Goto(w, "claim", "start")
    /\ UNCHANGED <<redis, cur, att, level, batch, history>>

\* ZADD to the processing set with the current time.
DequeueClaim(w) ==
    /\ Goto(w, "claim", "start")
    /\ processing' = [processing EXCEPT ![cur[w]] = "fresh"]
    /\ UNCHANGED <<data, queue, dlq, cur, att, level, batch, history>>

\* mark_started and SET; the pool then calls the handler.
DequeueStart(w) ==
    /\ Goto(w, "start", "run")
    /\ att' = [att EXCEPT ![w] = @ + 1]
    /\ data' = [data EXCEPT ![cur[w]] = Data("running", att[w] + 1)]
    /\ runs' = [runs EXCEPT ![cur[w]] = @ + 1]
    /\ UNCHANGED <<queue, processing, dlq, cur, level, batch, phase, faults, replays>>

\* The handler returns Ok, or it returns Err or exceeds job_timeout.
HandlerReturns(w) ==
    /\ \/ Goto(w, "run", "complete_set")
       \/ Goto(w, "run", "fail_set")
    /\ UNCHANGED <<redis, cur, att, level, batch, history>>

-----------------------------------------------------------------------------
(* complete                                                                *)

CompleteSet(w) ==
    /\ Goto(w, "complete_set", "complete_expire")
    /\ data' = [data EXCEPT ![cur[w]] = Data("completed", att[w])]
    /\ UNCHANGED <<queue, processing, dlq, cur, att, level, batch, history>>

CompleteExpire(w) ==
    /\ Goto(w, "complete_expire", "complete_rem")
    /\ data' = [data EXCEPT ![cur[w]] =
                   IF Present(cur[w]) THEN [@ EXCEPT !.ttl = "day"] ELSE @]
    /\ UNCHANGED <<queue, processing, dlq, cur, att, level, batch, history>>

CompleteRem(w) ==
    /\ Goto(w, "complete_rem", "poll")
    /\ processing' = [processing EXCEPT ![cur[w]] = "out"]
    /\ Drop(w)
    /\ UNCHANGED <<data, queue, dlq, att, level, batch, history>>

-----------------------------------------------------------------------------
(* fail, called by a worker for its own job and by a reclaim pass          *)

CanRetry(w) == att[w] < MaxRetries

FailSet(w) ==
    /\ Goto(w, "fail_set", "fail_rem")
    /\ data' = [data EXCEPT ![cur[w]] =
                   Data(IF CanRetry(w) THEN "retrying" ELSE "failed", att[w])]
    /\ UNCHANGED <<queue, processing, dlq, cur, att, level, batch, history>>

\* Mutant of FailRem: the processing entry stays.
FailRemSkipped(w) ==
    /\ Goto(w, "fail_rem", "fail_add")
    /\ UNCHANGED <<redis, cur, att, level, batch, history>>

FailRem(w) ==
    /\ Goto(w, "fail_rem", "fail_add")
    /\ processing' = [processing EXCEPT ![cur[w]] = "out"]
    /\ UNCHANGED <<data, queue, dlq, cur, att, level, batch, history>>

\* ZADD to the queue, due after the backoff, or ZADD to the DLQ.
FailAdd(w) ==
    /\ Goto(w, "fail_add", AfterJob(w))
    /\ \/ /\ CanRetry(w)
          /\ queue' = [queue EXCEPT ![cur[w]] = "delayed"]
          /\ UNCHANGED dlq
       \/ /\ ~CanRetry(w)
          /\ dlq' = dlq \cup {cur[w]}
          /\ UNCHANGED queue
    /\ Drop(w)
    /\ UNCHANGED <<data, processing, att, level, batch, history>>

-----------------------------------------------------------------------------
(* reclaim_stuck_processing                                                *)

Stale == {j \in Jobs : processing[j] = "stale"}

\* The Lua script removes at most BatchSize stale entries.  A pass that finds
\* none changes nothing.
ReclaimClaim(w) ==
    /\ w \in Reclaimers
    /\ level[w] = 1
    /\ Stale # {}
    /\ Goto(w, "poll", "reclaim_get")
    /\ \E B \in SUBSET Stale :
          /\ \/ Cardinality(B) = BatchSize
             \/ B = Stale /\ Cardinality(B) < BatchSize
          /\ batch' = [batch EXCEPT ![w] = B]
          /\ processing' = [j \in Jobs |-> IF j \in B THEN "out" ELSE processing[j]]
    /\ UNCHANGED <<data, queue, dlq, cur, att, level, history>>

\* Mutant of ReclaimGet: any status goes on to fail.
ReclaimGetAny(w) ==
    /\ pc[w] = "reclaim_get"
    /\ \E j \in batch[w] :
          /\ batch' = [batch EXCEPT ![w] = @ \ {j}]
          /\ pc' = [pc EXCEPT ![w] = "fail_set"]
          /\ cur' = [cur EXCEPT ![w] = j]
          /\ att' = [att EXCEPT ![w] = data[j].attempts]
    /\ UNCHANGED <<redis, level, history>>

\* Mutant of ReclaimGet: the ids are dropped without failing their jobs.
ReclaimGetSwallows(w) ==
    /\ Goto(w, "reclaim_get", "poll")
    /\ batch' = [batch EXCEPT ![w] = {}]
    /\ UNCHANGED <<redis, cur, att, level, history>>

\* get_job on the next id: only a running job goes on to fail.
ReclaimGet(w) ==
    /\ pc[w] = "reclaim_get"
    /\ \E j \in batch[w] :
          /\ batch' = [batch EXCEPT ![w] = @ \ {j}]
          /\ \/ /\ data[j].status = "running"
                /\ pc' = [pc EXCEPT ![w] = "fail_set"]
                /\ cur' = [cur EXCEPT ![w] = j]
                /\ att' = [att EXCEPT ![w] = data[j].attempts]
             \/ /\ data[j].status # "running"
                /\ pc' = [pc EXCEPT ![w] = IF batch[w] = {j} THEN "poll" ELSE @]
                /\ UNCHANGED <<cur, att>>
    /\ UNCHANGED <<redis, level, history>>

-----------------------------------------------------------------------------
(* Time and faults                                                         *)

\* The backoff of a retried job has passed.
BecomeDue(j) ==
    /\ queue[j] = "delayed"
    /\ queue' = [queue EXCEPT ![j] = "ready"]
    /\ UNCHANGED <<data, processing, dlq, local, history>>

\* The points at which a live worker owns a processing entry.
OwningPoints == {"start", "run", "complete_set", "complete_expire",
                 "complete_rem", "fail_set", "fail_rem"}

\* A live worker owns the processing entry of j.
Owned(j) == \E w \in Workers : cur[w] = j /\ pc[w] \in OwningPoints

\* processing_stale_after has passed.  With the default configuration (600 s
\* against a job_timeout of 300 s) the entry's worker is gone by then; that it
\* is not, because its node stalled or was configured otherwise, is a fault.
BecomeStale(j) ==
    /\ processing[j] = "fresh"
    /\ processing' = [processing EXCEPT ![j] = "stale"]
    /\ \/ ~Owned(j) /\ UNCHANGED faults
       \/ /\ Owned(j) /\ SlowWorkers
          /\ faults < MaxFaults
          /\ faults' = faults + 1
    /\ UNCHANGED <<data, queue, dlq, local, phase, runs, replays>>

\* The 24 hours of a completed job's data are over.
Expire(j) ==
    /\ data[j].ttl = "day"
    /\ data' = [data EXCEPT ![j] = Data("none", 0)]
    /\ UNCHANGED <<queue, processing, dlq, local, history>>

\* The process dies and starts again, or a Redis command returns an error
\* that abandons the operation: what the task held in memory is gone.
Fault(p) ==
    /\ faults < MaxFaults
    /\ pc[p] \in FaultPoints \ {"dead"}
    /\ faults' = faults + 1
    /\ pc' = [pc EXCEPT ![p] = IF p \in Workers THEN "poll" ELSE "free"]
    /\ Drop(p)
    /\ level' = [w \in Workers |-> IF w = p THEN 1 ELSE level[w]]
    /\ batch' = [w \in Workers |-> IF w = p THEN {} ELSE batch[w]]
    /\ UNCHANGED <<redis, att, phase, runs, replays>>

\* A panic in the handler ends the worker's task; the pool never respawns it.
Panic(w) ==
    /\ Panics
    /\ faults < MaxFaults
    /\ Goto(w, "run", "dead")
    /\ faults' = faults + 1
    /\ Drop(w)
    /\ UNCHANGED <<redis, att, level, batch, phase, runs, replays>>

-----------------------------------------------------------------------------
Submit(c) == EnqueueSet(c) \/ ReplayGet(c)

ClientStep(c) == EnqueueAdd(c) \/ ReplayRem(c) \/ ReplaySet(c) \/ ReplayAdd(c)

JobStep(w) ==
    \/ DequeuePop(w)     \/ DequeueFetch(w)   \/ DequeueClaim(w)
    \/ DequeueStart(w)   \/ HandlerReturns(w)
    \/ CompleteSet(w)    \/ CompleteExpire(w) \/ CompleteRem(w)
    \/ FailSet(w)        \/ FailRem(w)        \/ FailAdd(w)
    \/ ReclaimGet(w)

Next ==
    \/ \E c \in Clients : Submit(c) \/ ClientStep(c)
    \/ \E w \in Workers : JobStep(w) \/ ReclaimClaim(w) \/ Panic(w)
    \/ \E j \in Jobs : BecomeDue(j) \/ BecomeStale(j) \/ Expire(j)
    \/ \E p \in Procs : Fault(p)

Spec == Init /\ [][Next]_vars

\* Tasks keep running, time passes, handlers return (job_timeout), and worker
\* 0 starts a reclaim pass whenever reclaim_interval has elapsed.
Fairness ==
    /\ \A c \in Clients : WF_vars(ClientStep(c))
    /\ \A w \in Workers : WF_vars(JobStep(w))
    /\ \A w \in Reclaimers : SF_vars(ReclaimClaim(w))
    /\ \A j \in Jobs : WF_vars(BecomeDue(j)) /\ WF_vars(BecomeStale(j))

FairSpec == Spec /\ Fairness

-----------------------------------------------------------------------------
(* Properties                                                              *)

\* Every variable keeps its type; attempt counters are naturals (u32 in Job).
TypeOK ==
    /\ data \in [Jobs -> [status : Statuses, attempts : Nat, ttl : {"never", "day"}]]
    /\ queue \in [Jobs -> {"out", "delayed", "ready"}]
    /\ processing \in [Jobs -> {"out", "fresh", "stale"}]
    /\ dlq \subseteq Jobs
    /\ pc \in [Procs -> WorkerPoints \cup ClientPoints]
    /\ cur \in [Procs -> Jobs \cup {NoJob}]
    /\ att \in [Procs -> Nat]
    /\ level \in [Workers -> 1..Levels]
    /\ batch \in [Workers -> SUBSET Jobs]
    /\ phase \in [Jobs -> {"new", "submitted", "accepted"}]
    /\ runs \in [Jobs -> Nat]
    /\ faults \in 0..MaxFaults
    /\ replays \in 0..MaxReplays

\* p has taken charge of job j: it holds j between taking it out of one set
\* and putting it into another or completing it.
Holds(p, j) ==
    \/ cur[p] = j /\ pc[p] # "replay_rem"
    \/ p \in Workers /\ j \in batch[p]

\* As long as stale entries belong to dead workers, a job is in one place: no
\* two tasks work on it, and a queued or dead-lettered job is in no other set
\* and in nobody's hands (dequeue, fail, complete, reclaim, replay together).
SingleCustody ==
    \A j \in Jobs :
        /\ \A p, q \in Procs : Holds(p, j) /\ Holds(q, j) => p = q
        /\ queue[j] # "out" =>
              processing[j] = "out" /\ j \notin dlq /\ \A p \in Procs : ~Holds(p, j)
        /\ j \in dlq => processing[j] = "out" /\ \A p \in Procs : ~Holds(p, j)

\* The handler runs a job at most max_retries times between its submission or
\* replay and the dead-letter queue, crashes and reclaims included.
RunsBounded == \A j \in Jobs : runs[j] <= MaxRetries

\* A dead-lettered job has failed and has used up its attempts.
DeadLettersExhausted ==
    \A j \in dlq : data[j].status = "failed" /\ data[j].attempts >= MaxRetries

\* The stage a job has reached, read from its stored status.
Stage(j) ==
    CASE data[j].status \in {"pending", "retrying"} -> "waiting"
      [] data[j].status = "running" -> "working"
      [] data[j].status = "completed" -> "done"
      [] data[j].status = "failed" -> "dead"
      [] OTHER -> IF phase[j] = "new" THEN "absent" ELSE "done"

Lifecycle == INSTANCE JobLifecycle WITH
    stage <- [j \in Jobs |-> Stage(j)], tries <- runs

\* The queue implements the job life cycle: a completed job is never run or
\* retried again, only a dead one is replayed, and every retry, burial and
\* completion follows a start, whatever crashes between two Redis commands.
LifecycleSpec == Lifecycle!Spec

\* Redis or a live task still knows of the job.
Tracked(j) ==
    \/ queue[j] # "out" \/ processing[j] # "out" \/ j \in dlq
    \/ \E p \in Procs : Holds(p, j)

Finished(j) == data[j].status = "completed" \/ ~Present(j)

\* An accepted job is finished or still known somewhere: it never vanishes.
NoJobLost == \A j \in Jobs : phase[j] = "accepted" => Finished(j) \/ Tracked(j)

\* The doc of reclaim_stuck_processing (queue.rs:254): jobs of crashed workers
\* are recovered, so a job recorded as running is always known somewhere.
RunningJobsRecovered == \A j \in Jobs : data[j].status = "running" => Tracked(j)

\* Every accepted job ends up completed or in the dead-letter queue.
EveryJobSettles ==
    \A j \in Jobs : phase[j] = "accepted" ~> Finished(j) \/ j \in dlq

-----------------------------------------------------------------------------
(* The inductive invariant behind the safety properties above, when stale  *)
(* entries belong to dead workers (SlowWorkers = FALSE).                   *)

\* Points reached with a job that is in no Redis set.
OffSetPoints == {"fetch", "claim", "fail_add",
                 "enqueue_add", "replay_set", "replay_add"}

\* What a task holds agrees with where it stands.
LocalOK ==
    /\ \A w \in Workers : pc[w] \in WorkerPoints
    /\ \A c \in Clients : pc[c] \in ClientPoints
    /\ \A p \in Procs : cur[p] = NoJob
                           <=> pc[p] \in {"poll", "free", "reclaim_get", "dead"}
    /\ \A w \in Workers : batch[w] # {} =>
          pc[w] \in {"reclaim_get", "fail_set", "fail_rem", "fail_add"}
    /\ \A w \in Workers : cur[w] \notin batch[w]

\* A job is in one place; an entry turns stale only after its worker is gone.
CustodyOK ==
    /\ SingleCustody
    /\ \A j \in Jobs : \A p \in Procs : Holds(p, j) =>
          /\ phase[j] # "new"
          /\ processing[j] # "stale"
          /\ cur[p] # j \/ pc[p] \in OffSetPoints => processing[j] = "out"
    /\ \A j \in Jobs : phase[j] = "new" =>
          ~Present(j) /\ queue[j] = "out" /\ processing[j] = "out" /\ j \notin dlq

\* The stored status of a job with the counters it goes with.
DataOK ==
    \A j \in Jobs :
        /\ runs[j] <= MaxRetries
        /\ Present(j) => data[j].attempts = runs[j]
        /\ data[j].status \in {"pending", "retrying"} => runs[j] < MaxRetries
        /\ data[j].status = "failed" => runs[j] = MaxRetries
        /\ data[j].ttl = "day" => data[j].status = "completed"
        /\ queue[j] # "out" => data[j].status \in {"pending", "retrying"}
        /\ j \in dlq => data[j].status = "failed"
        /\ phase[j] = "new" => runs[j] = 0

\* The stored status of the job a task holds, and its snapshot of it.
HandOK ==
    \A p \in Procs :
        LET s == data[cur[p]].status
        IN  /\ pc[p] \in {"fetch", "claim", "start", "enqueue_add", "replay_add"}
                  => s \in {"pending", "retrying"}
            /\ pc[p] \in {"run", "complete_set", "fail_set"} => s = "running"
            /\ pc[p] \in {"complete_expire", "complete_rem"} => s \in {"completed", "none"}
            /\ pc[p] \in {"fail_rem", "fail_add"} =>
                  s = IF att[p] < MaxRetries THEN "retrying" ELSE "failed"
            /\ pc[p] = "replay_set" => s = "failed"
            /\ pc[p] \in {"claim", "start", "run", "complete_set",
                          "fail_set", "fail_rem", "fail_add"}
                  => att[p] = data[cur[p]].attempts

\* The conjunction is inductive.
Inv == TypeOK /\ LocalOK /\ CustodyOK /\ DataOK /\ HandOK
=============================================================================
