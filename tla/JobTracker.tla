----------------------------- MODULE JobTracker -----------------------------
(***************************************************************************)
(* The job tracker behind the status API of rag-ingestion (api/jobs.rs),   *)
(* driven by the routes of api/routes/ingest.rs and by the job handler     *)
(* (worker/handler.rs).  Every ingestion replica keeps a tracker of its    *)
(* own in memory; all replicas take jobs from the same Redis queue, which  *)
(* appears here as the stage of a job (JobLifecycle has its steps), and    *)
(* persist snapshots to the same Redis history from detached tasks.        *)
(***************************************************************************)
EXTENDS Integers, FiniteSets

CONSTANTS
    Replicas,       \* ingestion processes
    Jobs,
    MaxRetries,     \* Job::max_retries
    CounterSize,    \* number of values of the u32 active counter
    Timeouts,       \* whether handlers may exceed job_timeout
    MaxCancels,     \* bound on cancel requests
    MaxReplays,     \* bound on dead-letter replays
    MaxFaults,      \* bound on faults and lost completions
    Durable,        \* whether a history store is configured
    MaxSnapshots    \* bound on the snapshots of a job that get persisted

ASSUME ConstantsAssumption ==
    /\ MaxRetries \in Nat \ {0}
    /\ CounterSize \in Nat \ {0}
    /\ Timeouts \in BOOLEAN
    /\ Durable \in BOOLEAN
    /\ {MaxCancels, MaxReplays, MaxFaults, MaxSnapshots} \subseteq Nat

VARIABLES
    status,     \* status[r][j]: what the tracker of replica r says of job j
    count,      \* active_count of each replica
    work,       \* stage of the worker job that carries tracker job j
    tries,      \* its attempts
    runner,     \* the replica whose worker has it
    replaying,  \* replicas between replay_dlq_job of the queue and of the tracker
    version,    \* history: snapshots taken of a job so far
    writes,     \* snapshots handed to detached tasks and not yet in Redis
    stored,     \* the snapshot in the Redis history
    lost,       \* jobs that finished without the queue recording it
    cancels, replays, faults

tracker == <<status, count, version, writes>>
queue == <<work, tries, runner, lost>>
bounds == <<cancels, replays, faults>>
vars == <<status, count, work, tries, runner, replaying, version, writes, stored,
          lost, cancels, replays, faults>>

Active == {"PENDING", "STARTED", "PROGRESS"}
Terminal == {"SUCCESS", "FAILURE", "REVOKED"}
Statuses == Active \cup Terminal
Stages == {"none", "created", "queued", "begun", "working", "ok", "err", "done", "dead"}
InHandler == {"begun", "working", "ok", "err"}
NoSnapshot == [n |-> 0, status |-> "absent"]

Init ==
    /\ status = [r \in Replicas |-> [j \in Jobs |-> "absent"]]
    /\ count = [r \in Replicas |-> 0]
    /\ work = [j \in Jobs |-> "none"]
    /\ tries = [j \in Jobs |-> 0]
    /\ runner \in {[j \in Jobs |-> r] : r \in Replicas}
    /\ replaying = {}
    /\ version = [j \in Jobs |-> 0]
    /\ writes = {}
    /\ stored = [j \in Jobs |-> NoSnapshot]
    /\ lost = {}
    /\ cancels = 0 /\ replays = 0 /\ faults = 0

-----------------------------------------------------------------------------
(* Operations of the tracker.                                              *)

Tracked(r, j) == status[r][j] # "absent"
IsActive(r, j) == status[r][j] \in Active

\* persist_snapshot: a spawned task will write this state to Redis.
Persist(j, s) ==
    IF Durable /\ version[j] < MaxSnapshots
    THEN /\ version' = [version EXCEPT ![j] = @ + 1]
         /\ writes' = writes \cup {[job |-> j, n |-> version[j] + 1, status |-> s]}
    ELSE UNCHANGED <<version, writes>>

\* Give job j of replica r the status s and move the counter by d, modulo its
\* size as AtomicU32 does, then persist.
Set(r, j, s, d) ==
    /\ status' = [status EXCEPT ![r][j] = s]
    /\ count' = [count EXCEPT ![r] = (@ + d) % CounterSize]
    /\ Persist(j, s)

\* The decrement of the operations that end a job, for an active job only.
Leaving(r, j) == IF IsActive(r, j) THEN -1 ELSE 0

\* An operation on an unknown id does nothing.
Update(r, j, s, d) ==
    IF Tracked(r, j) THEN Set(r, j, s, d) ELSE UNCHANGED tracker

create_job(r, j) == Set(r, j, "PENDING", 1)
update_status_started(r, j) == Update(r, j, "STARTED", 0)
\* Mutant of update_progress: the last report completes the job.
update_progress_completes(r, j) == Update(r, j, "SUCCESS", Leaving(r, j))
update_progress(r, j) ==
    Update(r, j, IF status[r][j] \in {"PENDING", "STARTED"} THEN "PROGRESS" ELSE status[r][j], 0)
complete_job(r, j) == Update(r, j, "SUCCESS", Leaving(r, j))
fail_job(r, j) == Update(r, j, "FAILURE", Leaving(r, j))
cancel_job(r, j) == Set(r, j, "REVOKED", -1)
replay_job(r, j) == Set(r, j, "PENDING", IF IsActive(r, j) THEN 0 ELSE 1)

\* What the status route of replica r answers: its memory, else the history.
get_job_or_history(r, j) == IF Tracked(r, j) THEN status[r][j] ELSE stored[j].status
\* What its history route may list: the history, or the memory where there is
\* no history or it cannot be read.
list_job_history(r, j) == {status[r][j]} \cup (IF Durable THEN {stored[j].status} ELSE {})

-----------------------------------------------------------------------------
(* Routes.                                                                 *)

\* start_ingestion, ingest_single_document, start_sync: create_job, then
\* enqueue, which may fail.
StartIngestion(r, j) ==
    /\ work[j] = "none"
    /\ work' = [work EXCEPT ![j] = "created"]
    /\ runner' = [runner EXCEPT ![j] = r]
    /\ create_job(r, j)
    /\ UNCHANGED <<tries, replaying, stored, lost, bounds>>

EnqueueOk(j) ==
    /\ work[j] = "created"
    /\ work' = [work EXCEPT ![j] = "queued"]
    /\ UNCHANGED <<tracker, tries, runner, replaying, stored, lost, bounds>>

EnqueueFails(j) ==
    /\ work[j] = "created"
    /\ work' = [work EXCEPT ![j] = "dead"]
    /\ fail_job(runner[j], j)
    /\ UNCHANGED <<tries, runner, replaying, stored, lost, bounds>>

\* DELETE of a job: revoked in the tracker if active; the queue is not told and
\* no worker looks at the cancellation token.
CancelJob(r, j) ==
    /\ cancels < MaxCancels
    /\ IsActive(r, j)
    /\ cancel_job(r, j)
    /\ cancels' = cancels + 1
    /\ UNCHANGED <<queue, replaying, stored, replays, faults>>

\* replay_dlq_job: first the queue, then the tracker of the serving replica.
ReplayQueue(r, j) ==
    /\ replays < MaxReplays
    /\ work[j] = "dead" /\ tries[j] > 0
    /\ work' = [work EXCEPT ![j] = "queued"]
    /\ tries' = [tries EXCEPT ![j] = 0]
    /\ replaying' = replaying \cup {<<r, j>>}
    /\ replays' = replays + 1
    /\ UNCHANGED <<tracker, runner, stored, lost, cancels, faults>>

ReplayTracker(r, j) ==
    /\ <<r, j>> \in replaying
    /\ replaying' = replaying \ {<<r, j>>}
    /\ replay_job(r, j)
    /\ UNCHANGED <<queue, stored, bounds>>

-----------------------------------------------------------------------------
(* The worker of a replica runs the handler.                               *)

Dequeue(r, j) ==
    /\ work[j] = "queued"
    /\ work' = [work EXCEPT ![j] = "begun"]
    /\ tries' = [tries EXCEPT ![j] = @ + 1]
    /\ runner' = [runner EXCEPT ![j] = r]
    /\ UNCHANGED <<tracker, replaying, stored, lost, bounds>>

HandlerStarts(j) ==
    /\ work[j] = "begun"
    /\ work' = [work EXCEPT ![j] = "working"]
    /\ update_status_started(runner[j], j)
    /\ UNCHANGED <<tries, runner, replaying, stored, lost, bounds>>

\* One of the progress reports between parsing and indexing.
HandlerProgresses(j) ==
    /\ work[j] = "working"
    /\ update_progress(runner[j], j)
    /\ UNCHANGED <<queue, replaying, stored, bounds>>

HandlerSucceeds(j) ==
    /\ work[j] = "working"
    /\ work' = [work EXCEPT ![j] = "ok"]
    /\ complete_job(runner[j], j)
    /\ UNCHANGED <<tries, runner, replaying, stored, lost, bounds>>

\* Mutant of HandlerFails: the tracker is not told.
HandlerFailsSilently(j) ==
    /\ work[j] = "working"
    /\ work' = [work EXCEPT ![j] = "err"]
    /\ UNCHANGED <<tracker, tries, runner, replaying, stored, lost, bounds>>

\* handle: an Err of the processing is propagated to the tracker.
HandlerFails(j) ==
    /\ work[j] = "working"
    /\ work' = [work EXCEPT ![j] = "err"]
    /\ fail_job(runner[j], j)
    /\ UNCHANGED <<tries, runner, replaying, stored, lost, bounds>>

\* The pool drops the handler's future: handle never gets to fail_job.
HandlerTimesOut(j) ==
    /\ Timeouts
    /\ work[j] = "working"
    /\ work' = [work EXCEPT ![j] = "err"]
    /\ UNCHANGED <<tracker, tries, runner, replaying, stored, lost, bounds>>

\* JobQueue::complete and JobQueue::fail; a reclaim ends like a failure.
AfterFailure(j) == IF tries[j] < MaxRetries THEN "queued" ELSE "dead"

QueueSettles(j) ==
    /\ \/ work[j] = "ok" /\ work' = [work EXCEPT ![j] = "done"]
       \/ work[j] = "err" /\ work' = [work EXCEPT ![j] = AfterFailure(j)]
    /\ UNCHANGED <<tracker, tries, runner, replaying, stored, lost, bounds>>

\* complete returns an error, the pool only logs it, and the job is reclaimed.
CompletionLost(j) ==
    /\ faults < MaxFaults
    /\ work[j] = "ok"
    /\ work' = [work EXCEPT ![j] = AfterFailure(j)]
    /\ lost' = lost \cup {j}
    /\ faults' = faults + 1
    /\ UNCHANGED <<tracker, tries, runner, replaying, stored, cancels, replays>>

-----------------------------------------------------------------------------
\* upsert_job of one detached task; nothing orders the tasks of a job.
WriteHistory ==
    \E w \in writes :
        /\ writes' = writes \ {w}
        /\ stored' = [stored EXCEPT ![w.job] = [n |-> w.n, status |-> w.status]]
        /\ UNCHANGED <<status, count, version, queue, replaying, bounds>>

\* A replica restarts with an empty tracker; the queue reclaims its jobs, and
\* the requests it was serving are gone.
Crash(r) ==
    /\ faults < MaxFaults
    /\ faults' = faults + 1
    /\ status' = [status EXCEPT ![r] = [j \in Jobs |-> "absent"]]
    /\ count' = [count EXCEPT ![r] = 0]
    /\ work' = [j \in Jobs |->
                   IF runner[j] # r THEN work[j]
                   ELSE IF work[j] \in InHandler THEN AfterFailure(j)
                   ELSE IF work[j] = "created" THEN "dead" ELSE work[j]]
    /\ replaying' = {x \in replaying : x[1] # r}
    /\ lost' = lost \cup {j \in Jobs : runner[j] = r /\ work[j] = "ok"}
    /\ writes' \in SUBSET writes
    /\ UNCHANGED <<tries, runner, version, stored, cancels, replays>>

-----------------------------------------------------------------------------
WorkStep(j) ==
    \/ EnqueueOk(j) \/ EnqueueFails(j)
    \/ \E r \in Replicas : Dequeue(r, j)
    \/ HandlerStarts(j)
    \/ HandlerSucceeds(j) \/ HandlerFails(j) \/ HandlerTimesOut(j)
    \/ QueueSettles(j)

Next ==
    \/ \E j \in Jobs : WorkStep(j) \/ HandlerProgresses(j) \/ CompletionLost(j)
    \/ \E r \in Replicas, j \in Jobs :
          StartIngestion(r, j) \/ CancelJob(r, j) \/ ReplayQueue(r, j) \/ ReplayTracker(r, j)
    \/ WriteHistory
    \/ \E r \in Replicas : Crash(r)

\* Tasks are scheduled; a handler returns or is timed out (job_timeout).
Spec == Init /\ [][Next]_vars
FairSpec == Spec /\ \A j \in Jobs : WF_vars(WorkStep(j))

-----------------------------------------------------------------------------
(* Properties                                                              *)

\* Every variable keeps its type; the counter keeps its width.
TypeOK ==
    /\ status \in [Replicas -> [Jobs -> Statuses \cup {"absent"}]]
    /\ count \in [Replicas -> 0..(CounterSize - 1)]
    /\ work \in [Jobs -> Stages]
    /\ tries \in [Jobs -> 0..MaxRetries]
    /\ runner \in [Jobs -> Replicas]
    /\ replaying \subseteq Replicas \X Jobs
    /\ lost \subseteq Jobs
    /\ writes \subseteq [job : Jobs, n : 1..MaxSnapshots, status : Statuses]

\* "Get the count of active jobs" (api/jobs.rs:499): the counter is the number
\* of jobs the tracker lists as active.
ActiveCountExact ==
    \A r \in Replicas : count[r] = Cardinality({j \in Jobs : IsActive(r, j)}) % CounterSize

\* A job that the status route or the history route of some replica shows as
\* successful is over: no retry, replay, timeout or crash can make it run again
\* or bury it, unless the queue never recorded its completion.
SuccessIsFinal ==
    \A j \in Jobs :
        (\E r \in Replicas : "SUCCESS" \in {get_job_or_history(r, j)} \cup list_job_history(r, j))
            => work[j] \in {"ok", "done"} \/ j \in lost

\* Once the queue is done with a job, the tracker that accepted it says so:
\* "reflects the error instead of staying stuck" (worker/handler.rs:1083).
SettledJobsReported ==
    \A r \in Replicas, j \in Jobs : Tracked(r, j) =>
        /\ work[j] = "done" => status[r][j] = "SUCCESS"
        /\ work[j] = "dead" => status[r][j] = "FAILURE"

\* A client that polls the status of an accepted job sees a final answer.
EveryJobReported ==
    \A j \in Jobs : work[j] # "none" ~>
        \E r \in Replicas : status[r][j] \in {"SUCCESS", "FAILURE"}
=============================================================================
