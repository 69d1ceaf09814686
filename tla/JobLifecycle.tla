---------------------------- MODULE JobLifecycle ----------------------------
(***************************************************************************)
(* What the job queue of rag-ingestion promises about one job, whatever    *)
(* crashes: the life of a job as worker/job.rs describes it, one atomic    *)
(* step per change of its status.  JobQueue implements it.                 *)
(***************************************************************************)
EXTENDS Integers

CONSTANTS Jobs, MaxRetries

VARIABLES stage, tries

Stages == {"absent", "waiting", "working", "done", "dead"}

Init ==
    /\ stage = [j \in Jobs |-> "absent"]
    /\ tries = [j \in Jobs |-> 0]

Move(j, from, to) ==
    /\ stage[j] = from
    /\ stage' = [stage EXCEPT ![j] = to]

Submit(j) == Move(j, "absent", "waiting") /\ UNCHANGED tries

Begin(j) ==
    /\ Move(j, "waiting", "working")
    /\ tries[j] < MaxRetries
    /\ tries' = [tries EXCEPT ![j] = @ + 1]

Finish(j) == Move(j, "working", "done") /\ UNCHANGED tries

Retry(j) == tries[j] < MaxRetries /\ Move(j, "working", "waiting") /\ UNCHANGED tries

Bury(j) == tries[j] = MaxRetries /\ Move(j, "working", "dead") /\ UNCHANGED tries

Replay(j) == Move(j, "dead", "waiting") /\ tries' = [tries EXCEPT ![j] = 0]

Next == \E j \in Jobs :
    Submit(j) \/ Begin(j) \/ Finish(j) \/ Retry(j) \/ Bury(j) \/ Replay(j)

Spec == Init /\ [][Next]_<<stage, tries>>
=============================================================================
