-------------------------- MODULE JobTrackerProofs --------------------------
(***************************************************************************)
(* Proofs about JobTracker for every set of replicas and jobs, with any    *)
(* number of cancellations, replays, lost completions, crashes and time-   *)
(* outs, with and without a durable history.                               *)
(***************************************************************************)
EXTENDS JobTracker, TLAPS

USE ConstantsAssumption

----------------------------------------------------------------------------
(* Types.                                                                  *)

Snapshots == [job : Jobs, n : 1..MaxSnapshots, status : Statuses]

\* What TypeOK rests on: the versions of a job's snapshots, and the attempts
\* left to a job that waits.
Typed ==
    /\ TypeOK
    /\ version \in [Jobs -> 0..MaxSnapshots]
    /\ stored \in [Jobs -> [n : 0..MaxSnapshots, status : Statuses \cup {"absent"}]]
    /\ \A j \in Jobs : work[j] \in {"none", "created", "queued"} => tries[j] < MaxRetries

\* The counter of a tracker is an AtomicU32: it wraps.
LEMMA Wraps == ASSUME NEW i \in Int PROVE i % CounterSize \in 0..(CounterSize - 1)
OBVIOUS

\* A snapshot handed to a detached task (persist_snapshot) is well formed.
LEMMA PersistType ==
    ASSUME Typed, NEW j \in Jobs, NEW s \in Statuses, Persist(j, s)
    PROVE  /\ version' \in [Jobs -> 0..MaxSnapshots]
           /\ writes' \subseteq Snapshots
<1>1. CASE Durable /\ version[j] < MaxSnapshots
  <2>1. /\ version' = [version EXCEPT ![j] = @ + 1]
        /\ writes' = writes \cup {[job |-> j, n |-> version[j] + 1, status |-> s]}
        BY <1>1 DEF Persist
  <2>2. version[j] + 1 \in 1..MaxSnapshots
        BY <1>1 DEF Typed
  <2> QED BY <2>1, <2>2 DEF Typed, TypeOK, Snapshots
<1>2. CASE ~(Durable /\ version[j] < MaxSnapshots)
      BY <1>2 DEF Persist, Typed, TypeOK, Snapshots
<1> QED BY <1>1, <1>2

\* Every operation of the tracker that writes an entry keeps the types.
LEMMA SetType ==
    ASSUME Typed, NEW r \in Replicas, NEW j \in Jobs, NEW s \in Statuses, NEW d \in Int,
           Set(r, j, s, d)
    PROVE  /\ status' \in [Replicas -> [Jobs -> Statuses \cup {"absent"}]]
           /\ count' \in [Replicas -> 0..(CounterSize - 1)]
           /\ version' \in [Jobs -> 0..MaxSnapshots]
           /\ writes' \subseteq Snapshots
<1>1. count[r] + d \in Int
      BY DEF Typed, TypeOK
<1>2. (count[r] + d) % CounterSize \in 0..(CounterSize - 1)
      BY <1>1, Wraps
<1>3. count' = [count EXCEPT ![r] = (count[r] + d) % CounterSize]
      BY DEF Set
<1>4. count' \in [Replicas -> 0..(CounterSize - 1)]
      BY <1>2, <1>3 DEF Typed, TypeOK
<1>5. status' = [status EXCEPT ![r][j] = s]
      BY DEF Set
<1>6. status' \in [Replicas -> [Jobs -> Statuses \cup {"absent"}]]
      BY <1>5 DEF Typed, TypeOK
<1>7. Persist(j, s)
      BY DEF Set
<1> QED BY <1>4, <1>6, <1>7, PersistType

\* An operation on a known job writes its entry, one on an unknown job nothing.
LEMMA UpdateType ==
    ASSUME Typed, NEW r \in Replicas, NEW j \in Jobs, NEW s,
           Tracked(r, j) => s \in Statuses,
           NEW d \in Int, Update(r, j, s, d)
    PROVE  /\ status' \in [Replicas -> [Jobs -> Statuses \cup {"absent"}]]
           /\ count' \in [Replicas -> 0..(CounterSize - 1)]
           /\ version' \in [Jobs -> 0..MaxSnapshots]
           /\ writes' \subseteq Snapshots
<1>1. CASE Tracked(r, j)
      BY <1>1, SetType DEF Update
<1>2. CASE ~Tracked(r, j)
      BY <1>2 DEF Update, tracker, Typed, TypeOK, Snapshots
<1> QED BY <1>1, <1>2

\* A step keeps the types if its operation on the tracker does.
TrackerTyped ==
    /\ status \in [Replicas -> [Jobs -> Statuses \cup {"absent"}]]
    /\ count \in [Replicas -> 0..(CounterSize - 1)]
    /\ version \in [Jobs -> 0..MaxSnapshots]
    /\ writes \subseteq Snapshots

LEMMA InitTyped == Init => Typed
BY DEF Init, Typed, TypeOK, NoSnapshot, Stages, Statuses

LEMMA LeavingInt ==
    ASSUME NEW r, NEW j PROVE Leaving(r, j) \in Int
BY DEF Leaving

LEMMA TypedStep == Typed /\ [Next]_vars => Typed'
<1> SUFFICES ASSUME Typed, [Next]_vars PROVE Typed'
    OBVIOUS
<1> USE DEF TrackerTyped
<1>0. TrackerTyped
      BY DEF Typed, TypeOK, Snapshots
<1>a. {"PENDING", "STARTED", "PROGRESS", "SUCCESS", "FAILURE", "REVOKED"} = Statuses
      BY DEF Statuses, Active, Terminal
<1>1. ASSUME NEW r \in Replicas, NEW j \in Jobs, StartIngestion(r, j) PROVE Typed'
  <2>1. TrackerTyped'
        BY <1>1, <1>a, SetType DEF StartIngestion, create_job
  <2> QED BY <1>1, <2>1 DEF StartIngestion, Typed, TypeOK, Snapshots, bounds, Stages
<1>2. ASSUME NEW j \in Jobs, EnqueueOk(j) PROVE Typed'
      BY <1>0, <1>2 DEF EnqueueOk, Typed, TypeOK, Snapshots, tracker, bounds, Stages
<1>3. ASSUME NEW j \in Jobs, EnqueueFails(j) PROVE Typed'
  <2>1. TrackerTyped'
        BY <1>3, <1>a, UpdateType, LeavingInt DEF EnqueueFails, fail_job, Typed, TypeOK
  <2> QED BY <1>3, <2>1 DEF EnqueueFails, Typed, TypeOK, Snapshots, bounds, Stages
<1>4. ASSUME NEW r \in Replicas, NEW j \in Jobs, CancelJob(r, j) PROVE Typed'
  <2>1. TrackerTyped'
    <3>1. Set(r, j, "REVOKED", -1) /\ "REVOKED" \in Statuses /\ -1 \in Int
          BY <1>4, <1>a DEF CancelJob, cancel_job
    <3> QED BY <3>1, SetType
  <2> QED BY <1>4, <2>1 DEF CancelJob, Typed, TypeOK, Snapshots, queue
<1>5. ASSUME NEW r \in Replicas, NEW j \in Jobs, ReplayQueue(r, j) PROVE Typed'
      BY <1>0, <1>5 DEF ReplayQueue, Typed, TypeOK, Snapshots, tracker, Stages
<1>6. ASSUME NEW r \in Replicas, NEW j \in Jobs, ReplayTracker(r, j) PROVE Typed'
  <2>1. TrackerTyped'
        BY <1>6, <1>a, SetType DEF ReplayTracker, replay_job
  <2> QED BY <1>6, <2>1 DEF ReplayTracker, Typed, TypeOK, Snapshots, queue, bounds
<1>7. ASSUME NEW r \in Replicas, NEW j \in Jobs, Dequeue(r, j) PROVE Typed'
      BY <1>0, <1>7 DEF Dequeue, Typed, TypeOK, Snapshots, tracker, bounds, Stages
<1>8. ASSUME NEW j \in Jobs, HandlerStarts(j) PROVE Typed'
  <2>1. TrackerTyped'
    <3>1. /\ Update(runner[j], j, "STARTED", 0) /\ "STARTED" \in Statuses
          /\ runner[j] \in Replicas
          BY <1>8, <1>a DEF HandlerStarts, update_status_started, Typed, TypeOK
    <3> QED BY <3>1, UpdateType
  <2> QED BY <1>8, <2>1 DEF HandlerStarts, Typed, TypeOK, Snapshots, bounds, Stages
<1>9. ASSUME NEW j \in Jobs, HandlerProgresses(j) PROVE Typed'
  <2> DEFINE r == runner[j]
  <2>1. r \in Replicas
        BY DEF Typed, TypeOK
  <2> DEFINE s == IF status[r][j] \in {"PENDING", "STARTED"} THEN "PROGRESS" ELSE status[r][j]
  <2>2. Tracked(r, j) => s \in Statuses
        BY <2>1, <1>a DEF Tracked, Typed, TypeOK
  <2>3. Update(r, j, s, 0)
        BY <1>9 DEF HandlerProgresses, update_progress
  <2>4. TrackerTyped'
    <3> HIDE DEF r, s
    <3>1. 0 \in Int
          OBVIOUS
    <3> QED BY <2>1, <2>2, <2>3, <3>1, UpdateType, Zenon
  <2> QED BY <1>9, <2>4 DEF HandlerProgresses, Typed, TypeOK, Snapshots, queue, bounds
<1>10. ASSUME NEW j \in Jobs, HandlerSucceeds(j) PROVE Typed'
  <2>1. TrackerTyped'
        BY <1>10, <1>a, UpdateType, LeavingInt DEF HandlerSucceeds, complete_job, Typed, TypeOK
  <2> QED BY <1>10, <2>1 DEF HandlerSucceeds, Typed, TypeOK, Snapshots, bounds, Stages
<1>11. ASSUME NEW j \in Jobs, HandlerFails(j) PROVE Typed'
  <2>1. TrackerTyped'
        BY <1>11, <1>a, UpdateType, LeavingInt DEF HandlerFails, fail_job, Typed, TypeOK
  <2> QED BY <1>11, <2>1 DEF HandlerFails, Typed, TypeOK, Snapshots, bounds, Stages
<1>12. ASSUME NEW j \in Jobs, HandlerTimesOut(j) PROVE Typed'
      BY <1>0, <1>12 DEF HandlerTimesOut, Typed, TypeOK, Snapshots, tracker, bounds, Stages
<1>13. ASSUME NEW j \in Jobs, QueueSettles(j) PROVE Typed'
      BY <1>0, <1>13
         DEF QueueSettles, AfterFailure, Typed, TypeOK, Snapshots, tracker, bounds, Stages
<1>14. ASSUME NEW j \in Jobs, CompletionLost(j) PROVE Typed'
      BY <1>0, <1>14
         DEF CompletionLost, AfterFailure, Typed, TypeOK, Snapshots, tracker, Stages
<1>15. CASE WriteHistory
  <2>1. PICK w \in writes :
          /\ writes' = writes \ {w}
          /\ stored' = [stored EXCEPT ![w.job] = [n |-> w.n, status |-> w.status]]
        BY <1>15 DEF WriteHistory
  <2>2. w \in Snapshots
        BY DEF Typed, TypeOK, Snapshots
  <2>3. w.job \in Jobs /\ w.n \in 0..MaxSnapshots /\ w.status \in Statuses
        BY <2>2 DEF Snapshots
  <2>4. stored' \in [Jobs -> [n : 0..MaxSnapshots, status : Statuses \cup {"absent"}]]
        BY <2>1, <2>3 DEF Typed
  <2> QED BY <1>15, <2>1, <2>4 DEF WriteHistory, Typed, TypeOK, queue, bounds
<1>16. ASSUME NEW r \in Replicas, Crash(r) PROVE Typed'
  <2>1. work' \in [Jobs -> Stages]
        BY <1>16 DEF Crash, Typed, TypeOK, Stages, AfterFailure
  <2>2. \A j \in Jobs : work'[j] \in {"none", "created", "queued"} => tries[j] < MaxRetries
        BY <1>16 DEF Crash, Typed, TypeOK, AfterFailure
  <2>3. count' \in [Replicas -> 0..(CounterSize - 1)]
        BY <1>16 DEF Crash, Typed, TypeOK
  <2>4. status' \in [Replicas -> [Jobs -> Statuses \cup {"absent"}]]
        BY <1>16 DEF Crash, Typed, TypeOK
  <2>5. replaying' \subseteq Replicas \X Jobs /\ lost' \subseteq Jobs /\ writes' \subseteq writes
        BY <1>16 DEF Crash, Typed, TypeOK
  <2> QED BY <1>16, <2>1, <2>2, <2>3, <2>4, <2>5 DEF Crash, Typed, TypeOK
<1>17. CASE UNCHANGED vars
      BY <1>17 DEF vars, Typed, TypeOK
<1> QED
    BY <1>1, <1>2, <1>3, <1>4, <1>5, <1>6, <1>7, <1>8, <1>9, <1>10, <1>11, <1>12, <1>13,
       <1>14, <1>15, <1>16, <1>17 DEF Next, WorkStep

\* The tracker keeps its types, its counter its width and the worker its retry
\* limit, in every behaviour.
THEOREM TrackerTypes == Spec => []TypeOK
<1>1. Typed => TypeOK
      BY DEF Typed
<1> QED BY <1>1, InitTyped, TypedStep, PTL DEF Spec

----------------------------------------------------------------------------
(* A success is final.                                                     *)

\* Job j is over for the queue, or the queue never recorded its completion.
Over(j) == work[j] \in {"ok", "done"} \/ j \in lost

\* Whoever says that a job succeeded, be it a tracker, the history or a
\* snapshot on its way there, says so of a job that is over.
SuccessBacked ==
    /\ \A r \in Replicas, j \in Jobs : status[r][j] = "SUCCESS" => Over(j)
    /\ \A j \in Jobs : stored[j].status = "SUCCESS" => Over(j)
    /\ \A w \in writes : w.status = "SUCCESS" => Over(w.job)

\* What is over stays over: no retry, replay, time-out or crash undoes it
\* (JobQueue::complete, replay_dlq_job, reclaim_stuck_processing).
LEMMA OverStays ==
    ASSUME Typed, [Next]_vars, NEW j \in Jobs, Over(j)
    PROVE  Over(j)'
<1> USE DEF Over, Typed, TypeOK
<1>1. ASSUME NEW r \in Replicas, NEW i \in Jobs, StartIngestion(r, i) PROVE Over(j)'
      BY <1>1 DEF StartIngestion
<1>2. ASSUME NEW i \in Jobs, EnqueueOk(i) \/ EnqueueFails(i) PROVE Over(j)'
      BY <1>2 DEF EnqueueOk, EnqueueFails
<1>3. ASSUME NEW r \in Replicas, NEW i \in Jobs, CancelJob(r, i) PROVE Over(j)'
      BY <1>3 DEF CancelJob, queue
<1>4. ASSUME NEW r \in Replicas, NEW i \in Jobs, ReplayQueue(r, i) \/ ReplayTracker(r, i)
      PROVE  Over(j)'
      BY <1>4 DEF ReplayQueue, ReplayTracker, queue
<1>5. ASSUME NEW r \in Replicas, NEW i \in Jobs, Dequeue(r, i) PROVE Over(j)'
      BY <1>5 DEF Dequeue
<1>6. ASSUME NEW i \in Jobs,
             \/ HandlerStarts(i) \/ HandlerSucceeds(i) \/ HandlerFails(i) \/ HandlerTimesOut(i)
      PROVE  Over(j)'
      BY <1>6 DEF HandlerStarts, HandlerSucceeds, HandlerFails, HandlerTimesOut
<1>7. ASSUME NEW i \in Jobs, HandlerProgresses(i) PROVE Over(j)'
      BY <1>7 DEF HandlerProgresses, queue
<1>8. ASSUME NEW i \in Jobs, QueueSettles(i) PROVE Over(j)'
      BY <1>8 DEF QueueSettles
<1>9. ASSUME NEW i \in Jobs, CompletionLost(i) PROVE Over(j)'
      BY <1>9 DEF CompletionLost
<1>10. CASE WriteHistory
       BY <1>10 DEF WriteHistory, queue
<1>11. ASSUME NEW r \in Replicas, Crash(r) PROVE Over(j)'
       BY <1>11 DEF Crash, InHandler
<1>12. CASE UNCHANGED vars
       BY <1>12 DEF vars
<1> QED
    BY <1>1, <1>2, <1>3, <1>4, <1>5, <1>6, <1>7, <1>8, <1>9, <1>10, <1>11, <1>12
       DEF Next, WorkStep

\* An operation that reports s of job j backs it if j is then over or s is no
\* success.
LEMMA SetBacked ==
    ASSUME Typed, SuccessBacked, \A i \in Jobs : Over(i) => Over(i)',
           NEW r \in Replicas, NEW j \in Jobs, NEW s, NEW d,
           s = "SUCCESS" => Over(j)', Set(r, j, s, d), UNCHANGED stored
    PROVE  SuccessBacked'
<1>1. status' = [status EXCEPT ![r][j] = s]
      BY DEF Set
<1>2. \A q \in Replicas, i \in Jobs : status'[q][i] = "SUCCESS" => Over(i)'
      BY <1>1 DEF SuccessBacked, Typed, TypeOK
<1>3. \A w \in writes' : w.status = "SUCCESS" => Over(w.job)'
  <2>1. CASE UNCHANGED writes
        BY <2>1 DEF SuccessBacked, Typed, TypeOK
  <2>2. CASE writes' = writes \cup {[job |-> j, n |-> version[j] + 1, status |-> s]}
        BY <2>2 DEF SuccessBacked, Typed, TypeOK
  <2> QED BY <2>1, <2>2 DEF Set, Persist
<1> QED BY <1>2, <1>3 DEF SuccessBacked

\* A step that leaves the reports alone keeps them backed.
LEMMA UnreportedBacked ==
    ASSUME Typed, SuccessBacked, \A i \in Jobs : Over(i) => Over(i)',
           UNCHANGED <<status, stored, writes>>
    PROVE  SuccessBacked'
BY DEF SuccessBacked, Typed, TypeOK

LEMMA UpdateBacked ==
    ASSUME Typed, SuccessBacked, \A i \in Jobs : Over(i) => Over(i)',
           NEW r \in Replicas, NEW j \in Jobs, NEW s, NEW d,
           Tracked(r, j) /\ s = "SUCCESS" => Over(j)', Update(r, j, s, d), UNCHANGED stored
    PROVE  SuccessBacked'
<1>1. CASE Tracked(r, j)
      BY <1>1, SetBacked DEF Update
<1>2. CASE ~Tracked(r, j)
      BY <1>2, UnreportedBacked DEF Update, tracker
<1> QED BY <1>1, <1>2

LEMMA BackedStep == Typed /\ SuccessBacked /\ [Next]_vars => SuccessBacked'
<1> SUFFICES ASSUME Typed, SuccessBacked, [Next]_vars PROVE SuccessBacked'
    OBVIOUS
<1>0. \A i \in Jobs : Over(i) => Over(i)'
      BY OverStays
<1>r. \A j \in Jobs : runner[j] \in Replicas
      BY DEF Typed, TypeOK
<1>1. ASSUME NEW r \in Replicas, NEW j \in Jobs, StartIngestion(r, j) PROVE SuccessBacked'
      BY <1>0, <1>1, SetBacked DEF StartIngestion, create_job
<1>2. ASSUME NEW j \in Jobs,
             EnqueueOk(j) \/ HandlerTimesOut(j) \/ QueueSettles(j) \/ CompletionLost(j)
      PROVE  SuccessBacked'
      BY <1>0, <1>2, UnreportedBacked
         DEF EnqueueOk, HandlerTimesOut, QueueSettles, CompletionLost, tracker
<1>3. ASSUME NEW j \in Jobs, EnqueueFails(j) \/ HandlerFails(j) PROVE SuccessBacked'
      BY <1>0, <1>r, <1>3, UpdateBacked DEF EnqueueFails, HandlerFails, fail_job
<1>4. ASSUME NEW r \in Replicas, NEW j \in Jobs, CancelJob(r, j) PROVE SuccessBacked'
      BY <1>0, <1>4, SetBacked DEF CancelJob, cancel_job
<1>5. ASSUME NEW r \in Replicas, NEW j \in Jobs, ReplayQueue(r, j) \/ Dequeue(r, j)
      PROVE  SuccessBacked'
      BY <1>0, <1>5, UnreportedBacked DEF ReplayQueue, Dequeue, tracker
<1>6. ASSUME NEW r \in Replicas, NEW j \in Jobs, ReplayTracker(r, j) PROVE SuccessBacked'
      BY <1>0, <1>6, SetBacked DEF ReplayTracker, replay_job
<1>7. ASSUME NEW j \in Jobs, HandlerStarts(j) PROVE SuccessBacked'
      BY <1>0, <1>r, <1>7, UpdateBacked DEF HandlerStarts, update_status_started
<1>8. ASSUME NEW j \in Jobs, HandlerProgresses(j) PROVE SuccessBacked'
  <2> DEFINE s == IF status[runner[j]][j] \in {"PENDING", "STARTED"} THEN "PROGRESS"
                  ELSE status[runner[j]][j]
  <2>1. s = "SUCCESS" => Over(j)'
        BY <1>0, <1>r DEF SuccessBacked
  <2>2. Update(runner[j], j, s, 0) /\ UNCHANGED stored
        BY <1>8 DEF HandlerProgresses, update_progress
  <2> HIDE DEF s
  <2> QED BY <1>0, <1>r, <2>1, <2>2, UpdateBacked
<1>9. ASSUME NEW j \in Jobs, HandlerSucceeds(j) PROVE SuccessBacked'
  <2>1. Over(j)'
        BY <1>9 DEF HandlerSucceeds, Over, Typed, TypeOK
  <2> QED BY <1>0, <1>r, <1>9, <2>1, UpdateBacked DEF HandlerSucceeds, complete_job
<1>10. CASE WriteHistory
  <2>1. PICK w \in writes :
          /\ writes' = writes \ {w}
          /\ stored' = [stored EXCEPT ![w.job] = [n |-> w.n, status |-> w.status]]
          /\ UNCHANGED status
        BY <1>10 DEF WriteHistory
  <2>2. w.job \in Jobs
        BY DEF Typed, TypeOK
  <2> QED BY <1>0, <2>1, <2>2 DEF SuccessBacked, Typed, TypeOK
<1>11. ASSUME NEW r \in Replicas, Crash(r) PROVE SuccessBacked'
  <2>1. /\ status' = [status EXCEPT ![r] = [j \in Jobs |-> "absent"]]
        /\ writes' \subseteq writes
        /\ UNCHANGED stored
        BY <1>11 DEF Crash
  <2>2. \A q \in Replicas, i \in Jobs : status'[q][i] = "SUCCESS" => Over(i)'
        BY <1>0, <2>1 DEF SuccessBacked, Typed, TypeOK
  <2>3. \A w \in writes' : w.job \in Jobs
        BY <2>1 DEF Typed, TypeOK
  <2> QED BY <1>0, <2>1, <2>2, <2>3 DEF SuccessBacked
<1>12. CASE UNCHANGED vars
       BY <1>0, <1>12, UnreportedBacked DEF vars
<1> QED
    BY <1>1, <1>2, <1>3, <1>4, <1>5, <1>6, <1>7, <1>8, <1>9, <1>10, <1>11, <1>12
       DEF Next, WorkStep

\* A job that the status API of some replica or the durable history shows as
\* successful is over, whatever order its detached snapshot writes take and
\* whatever is cancelled, replayed or crashes.
THEOREM SuccessIsFinalHolds == Spec => []SuccessIsFinal
<1>1. Init => SuccessBacked
      BY DEF Init, SuccessBacked, NoSnapshot
<1>2. Typed /\ SuccessBacked => SuccessIsFinal
      BY DEF SuccessBacked, SuccessIsFinal, Over, get_job_or_history, list_job_history
<1> QED BY <1>1, <1>2, InitTyped, TypedStep, BackedStep, PTL DEF Spec

----------------------------------------------------------------------------
(* Settled jobs are reported.                                              *)

\* What is asked of a tracker while the job is still in the handler's or the
\* queue's hands, so that it says what has come of it when they let it go.
Reporting ==
    /\ replaying = {} /\ faults \in Nat /\ replays \in Nat
    /\ \A r \in Replicas, j \in Jobs : Tracked(r, j) =>
          /\ work[j] \in {"ok", "done"} => status[r][j] = "SUCCESS"
          /\ work[j] \in {"err", "dead"} => status[r][j] = "FAILURE"

\* An operation on an entry leaves the others alone; one on an unknown id, all.
LEMMA UpdateFrame ==
    ASSUME Typed, NEW r \in Replicas, NEW j \in Jobs, NEW s \in Statuses \cup {"absent"}, NEW d,
           Update(r, j, s, d), Tracked(r, j) => s # "absent"
    PROVE  /\ \A i \in Jobs \ {j} : status'[r][i] = status[r][i]
           /\ Tracked(r, j) => status'[r][j] = s
           /\ ~Tracked(r, j) => status'[r][j] = "absent"
BY DEF Update, Set, tracker, Tracked, Typed, TypeOK

\* Every step of a single replica without timeouts, replays and faults tells
\* the tracker before it tells the queue.
LEMMA ReportingStep ==
    ASSUME NEW r, Replicas = {r}, ~Timeouts, MaxReplays = 0, MaxFaults = 0,
           Typed, Reporting, [Next]_vars
    PROVE  Reporting'
<1> USE DEF Typed, TypeOK, Tracked
<1>r. \A j \in Jobs : runner[j] = r
      OBVIOUS
<1>1. ASSUME NEW j \in Jobs, StartIngestion(r, j) PROVE Reporting'
      BY <1>1 DEF StartIngestion, create_job, Set, Reporting, Stages, bounds
<1>2. ASSUME NEW j \in Jobs, EnqueueOk(j) \/ Dequeue(r, j) PROVE Reporting'
      BY <1>2 DEF EnqueueOk, Dequeue, Reporting, Stages, tracker, bounds
<1>3. ASSUME NEW j \in Jobs, EnqueueFails(j) \/ HandlerFails(j) PROVE Reporting'
  <2>1. /\ Update(r, j, "FAILURE", Leaving(r, j))
        /\ \E s \in {"err", "dead"} : work' = [work EXCEPT ![j] = s]
        /\ UNCHANGED <<replaying, faults, replays>>
        BY <1>3, <1>r DEF EnqueueFails, HandlerFails, fail_job, bounds
  <2>2. /\ \A i \in Jobs \ {j} : status'[r][i] = status[r][i]
        /\ status'[r][j] \in {"absent", "FAILURE"}
        BY <2>1, UpdateFrame DEF Statuses, Terminal
  <2> QED BY <2>1, <2>2 DEF Reporting
<1>4. ASSUME NEW j \in Jobs, CancelJob(r, j) PROVE Reporting'
  <2>1. work[j] \notin {"ok", "done", "err", "dead"}
        BY <1>4 DEF CancelJob, IsActive, Active, Reporting
  <2> QED BY <1>4, <2>1 DEF CancelJob, cancel_job, Set, Reporting, queue
<1>5. ASSUME NEW j \in Jobs, ReplayQueue(r, j) \/ ReplayTracker(r, j) PROVE FALSE
      BY <1>5 DEF ReplayQueue, ReplayTracker, Reporting
<1>6. ASSUME NEW j \in Jobs, HandlerStarts(j) \/ HandlerProgresses(j) PROVE Reporting'
  <2>1. /\ \E s \in Statuses \cup {"absent"} : /\ Tracked(r, j) => s # "absent"
                                              /\ Update(r, j, s, 0)
        /\ work[j] \in {"begun", "working"}
        /\ work' = [work EXCEPT ![j] = "working"]
        /\ UNCHANGED <<replaying, faults, replays>>
    <3>1. CASE HandlerStarts(j)
          BY <1>r, <3>1 DEF HandlerStarts, update_status_started, bounds, Statuses, Active
    <3>2. CASE HandlerProgresses(j)
      <4> DEFINE s == IF status[r][j] \in {"PENDING", "STARTED"} THEN "PROGRESS"
                      ELSE status[r][j]
      <4>1. s \in Statuses \cup {"absent"} /\ (Tracked(r, j) => s # "absent")
            BY DEF Statuses, Active
      <4>2. Update(r, j, s, 0) /\ work[j] = "working"
            BY <1>r, <3>2 DEF HandlerProgresses, update_progress
      <4>3. work' = [work EXCEPT ![j] = "working"] /\ UNCHANGED <<replaying, faults, replays>>
            BY <3>2, <4>2 DEF HandlerProgresses, queue, bounds
      <4> HIDE DEF s
      <4> QED BY <4>1, <4>2, <4>3
    <3> QED BY <1>6, <3>1, <3>2
  <2>2. \A i \in Jobs \ {j} : status'[r][i] = status[r][i]
        BY <2>1, UpdateFrame
  <2> QED BY <2>1, <2>2 DEF Reporting
<1>7. ASSUME NEW j \in Jobs, HandlerSucceeds(j) PROVE Reporting'
  <2>1. /\ Update(r, j, "SUCCESS", Leaving(r, j))
        /\ work' = [work EXCEPT ![j] = "ok"]
        /\ UNCHANGED <<replaying, faults, replays>>
        BY <1>7, <1>r DEF HandlerSucceeds, complete_job, bounds
  <2>2. /\ \A i \in Jobs \ {j} : status'[r][i] = status[r][i]
        /\ status'[r][j] \in {"absent", "SUCCESS"}
        BY <2>1, UpdateFrame DEF Statuses, Terminal
  <2> QED BY <2>1, <2>2 DEF Reporting
<1>8. ASSUME NEW j \in Jobs, QueueSettles(j) PROVE Reporting'
      BY <1>8 DEF QueueSettles, AfterFailure, Reporting, tracker, bounds
<1>9. ASSUME NEW j \in Jobs, HandlerTimesOut(j) \/ CompletionLost(j) \/ Crash(r) PROVE FALSE
      BY <1>9 DEF HandlerTimesOut, CompletionLost, Crash, Reporting
<1>10. CASE WriteHistory
       BY <1>10 DEF WriteHistory, Reporting, queue, bounds
<1>11. CASE UNCHANGED vars
       BY <1>11 DEF vars, Reporting
<1> QED
    BY <1>1, <1>2, <1>3, <1>4, <1>5, <1>6, <1>7, <1>8, <1>9, <1>10, <1>11
       DEF Next, WorkStep, Crash, Reporting

\* On one replica, without timeouts, replays and faults, a job the queue is
\* done with is reported as done or failed, whatever is cancelled and however
\* often it is retried (fail_job and complete_job of worker/handler.rs come
\* before JobQueue::complete and JobQueue::fail of worker/pool.rs).
THEOREM SettledJobsAreReported ==
    ASSUME NEW r, Replicas = {r}, ~Timeouts, MaxReplays = 0, MaxFaults = 0
    PROVE  Spec => []SettledJobsReported
<1>1. Init => Reporting
      BY DEF Init, Reporting
<1>2. Typed /\ Reporting /\ [Next]_vars => Reporting'
      BY ReportingStep
<1>3. Reporting => SettledJobsReported
      BY DEF Reporting, SettledJobsReported
<1> QED BY <1>1, <1>2, <1>3, InitTyped, TypedStep, PTL DEF Spec
=============================================================================
