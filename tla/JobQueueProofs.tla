--------------------------- MODULE JobQueueProofs ---------------------------
(***************************************************************************)
(* Proofs about JobQueue for every set of jobs, workers and requests,      *)
(* every max_retries and every number of faults and replays.               *)
(***************************************************************************)
EXTENDS JobQueue, TLAPS

USE ConstantsAssumption DEF Procs

\* Giving a stored job a TTL (EXPIRE in complete) keeps the type of the record.
LEMMA ExpireType ==
    ASSUME NEW S, NEW d \in [status : S, attempts : Nat, ttl : {"never", "day"}]
    PROVE  [d EXCEPT !.ttl = "day"] \in [status : S, attempts : Nat, ttl : {"never", "day"}]
OBVIOUS

\* The scan of dequeue stays within the priority levels.
LEMMA LevelType ==
    ASSUME level \in [Workers -> 1..Levels], NEW w \in Workers, NextLevel(w)
    PROVE  level' \in [Workers -> 1..Levels]
BY DEF NextLevel

\* Types and the agreement of a task's hand with its program counter carry
\* over from one step to the next (every action of worker/queue.rs and
\* worker/pool.rs), whether or not workers may be slow.
LEMMA TypeStep ==
    ASSUME TypeOK, LocalOK, [Next]_vars
    PROVE  TypeOK' /\ LocalOK'
<1> USE DEF TypeOK, LocalOK, WorkerPoints, ClientPoints, Goto, Drop, redis, local, history,
            Data, Present, Statuses
<1>1. ASSUME NEW c \in Clients, EnqueueSet(c) PROVE TypeOK' /\ LocalOK'
      BY <1>1 DEF EnqueueSet
<1>2. ASSUME NEW c \in Clients, EnqueueAdd(c) PROVE TypeOK' /\ LocalOK'
      BY <1>2 DEF EnqueueAdd
<1>3. ASSUME NEW c \in Clients, ReplayGet(c) PROVE TypeOK' /\ LocalOK'
      BY <1>3 DEF ReplayGet
<1>4. ASSUME NEW c \in Clients, ReplayRem(c) PROVE TypeOK' /\ LocalOK'
  <2>1. CASE cur[c] \in dlq
    <3>1. Goto(c, "replay_rem", "replay_set") /\ UNCHANGED cur
          BY <1>4, <2>1 DEF ReplayRem
    <3> QED BY <1>4, <3>1 DEF ReplayRem
  <2>2. CASE cur[c] \notin dlq
    <3>1. Goto(c, "replay_rem", "free") /\ Drop(c)
          BY <1>4, <2>2 DEF ReplayRem
    <3> QED BY <1>4, <3>1 DEF ReplayRem
  <2> QED BY <2>1, <2>2
<1>5. ASSUME NEW c \in Clients, ReplaySet(c) PROVE TypeOK' /\ LocalOK'
      BY <1>5 DEF ReplaySet
<1>6. ASSUME NEW c \in Clients, ReplayAdd(c) PROVE TypeOK' /\ LocalOK'
      BY <1>6 DEF ReplayAdd
<1>7. ASSUME NEW w \in Workers, DequeuePop(w) PROVE TypeOK' /\ LocalOK'
  <2>1. CASE pc' = [pc EXCEPT ![w] = "fetch"] /\ UNCHANGED level
    <3>1. PICK j \in Ready(level[w]) : /\ queue' = [queue EXCEPT ![j] = "out"]
                                       /\ cur' = [cur EXCEPT ![w] = j]
          BY <1>7, <2>1 DEF DequeuePop, NextLevel
    <3>2. j \in Jobs
          BY <3>1 DEF Ready
    <3> QED BY <1>7, <2>1, <3>1, <3>2 DEF DequeuePop, NextLevel
  <2>2. CASE UNCHANGED pc
    <3>1. NextLevel(w) /\ UNCHANGED <<redis, pc, cur, att, batch, history>>
          BY <1>7, <2>2 DEF DequeuePop
    <3>2. level' \in [Workers -> 1..Levels]
          BY <3>1, LevelType
    <3> QED BY <3>1, <3>2
  <2> QED BY <1>7, <2>1, <2>2 DEF DequeuePop
<1>8. ASSUME NEW w \in Workers, DequeueFetch(w) PROVE TypeOK' /\ LocalOK'
  <2>1. pc[w] = "fetch" /\ cur[w] \in Jobs
        BY <1>8 DEF DequeueFetch
  <2>2. CASE Present(cur[w])
    <3>1. /\ pc' = [pc EXCEPT ![w] = "claim"]
          /\ att' = [att EXCEPT ![w] = data[cur[w]].attempts]
          /\ level' = [level EXCEPT ![w] = 1]
          /\ cur' = cur
          BY <1>8, <2>1, <2>2 DEF DequeueFetch
    <3> QED BY <1>8, <2>1, <3>1 DEF DequeueFetch
  <2>3. CASE ~Present(cur[w])
    <3>1. /\ pc' = [pc EXCEPT ![w] = "poll"]
          /\ Drop(w)
          /\ NextLevel(w)
          /\ att' = att
          BY <1>8, <2>1, <2>3 DEF DequeueFetch
    <3>2. level' \in [Workers -> 1..Levels]
          BY <3>1, LevelType
    <3>3. UNCHANGED <<data, queue, processing, dlq, batch, phase, runs, faults, replays>>
          BY <1>8 DEF DequeueFetch
    <3> QED BY <2>1, <3>1, <3>2, <3>3
  <2> QED BY <2>2, <2>3
<1>9. ASSUME NEW w \in Workers, DequeueClaim(w) PROVE TypeOK' /\ LocalOK'
      BY <1>9 DEF DequeueClaim
<1>10. ASSUME NEW w \in Workers, DequeueStart(w) PROVE TypeOK' /\ LocalOK'
      BY SMTT(30), <1>10 DEF DequeueStart
<1>11. ASSUME NEW w \in Workers, HandlerReturns(w) PROVE TypeOK' /\ LocalOK'
  <2>1. CASE Goto(w, "run", "complete_set")
        BY <1>11, <2>1 DEF HandlerReturns
  <2>2. CASE Goto(w, "run", "fail_set")
        BY <1>11, <2>2 DEF HandlerReturns
  <2> QED BY <1>11, <2>1, <2>2 DEF HandlerReturns
<1>12. ASSUME NEW w \in Workers, CompleteSet(w) PROVE TypeOK' /\ LocalOK'
      BY <1>12 DEF CompleteSet
<1>13. ASSUME NEW w \in Workers, CompleteExpire(w) PROVE TypeOK' /\ LocalOK'
  <2>1. pc[w] = "complete_expire" /\ cur[w] \in Jobs
        BY <1>13 DEF CompleteExpire
  <2>2. [data[cur[w]] EXCEPT !.ttl = "day"]
            \in [status : Statuses, attempts : Nat, ttl : {"never", "day"}]
        BY <2>1, data[cur[w]] \in [status : Statuses, attempts : Nat, ttl : {"never", "day"}],
           ExpireType
  <2>3. data' \in [Jobs -> [status : Statuses, attempts : Nat, ttl : {"never", "day"}]]
        BY <1>13, <2>1, <2>2 DEF CompleteExpire
  <2>4. UNCHANGED <<queue, processing, dlq, cur, att, level, batch, history>>
        BY <1>13 DEF CompleteExpire
  <2> QED BY <1>13, <2>1, <2>3, <2>4 DEF CompleteExpire
<1>14. ASSUME NEW w \in Workers, CompleteRem(w) PROVE TypeOK' /\ LocalOK'
      BY <1>14 DEF CompleteRem
<1>15. ASSUME NEW w \in Workers, FailSet(w) PROVE TypeOK' /\ LocalOK'
      BY <1>15 DEF FailSet
<1>16. ASSUME NEW w \in Workers, FailRem(w) PROVE TypeOK' /\ LocalOK'
      BY <1>16 DEF FailRem
<1>17. ASSUME NEW w \in Workers, FailAdd(w) PROVE TypeOK' /\ LocalOK'
  <2>1. AfterJob(w) \in {"poll", "reclaim_get"} /\ (batch[w] # {} => AfterJob(w) # "poll")
        BY DEF AfterJob
  <2>2. queue' \in [Jobs -> {"out", "delayed", "ready"}] /\ dlq' \subseteq Jobs
        BY <1>17 DEF FailAdd
  <2> QED BY <1>17, <2>1, <2>2 DEF FailAdd
<1>18. ASSUME NEW w \in Workers, ReclaimClaim(w) PROVE TypeOK' /\ LocalOK'
      BY <1>18 DEF ReclaimClaim, Stale
<1>19. ASSUME NEW w \in Workers, ReclaimGet(w) PROVE TypeOK' /\ LocalOK'
  <2>1. PICK j \in batch[w] :
          /\ batch' = [batch EXCEPT ![w] = @ \ {j}]
          /\ \/ /\ data[j].status = "running"
                /\ pc' = [pc EXCEPT ![w] = "fail_set"]
                /\ cur' = [cur EXCEPT ![w] = j]
                /\ att' = [att EXCEPT ![w] = data[j].attempts]
             \/ /\ data[j].status # "running"
                /\ pc' = [pc EXCEPT ![w] = IF batch[w] = {j} THEN "poll" ELSE @]
                /\ UNCHANGED <<cur, att>>
        BY <1>19 DEF ReclaimGet
  <2>2. CASE data[j].status = "running"
    <3>1. /\ pc' = [pc EXCEPT ![w] = "fail_set"]
          /\ cur' = [cur EXCEPT ![w] = j]
          /\ att' = [att EXCEPT ![w] = data[j].attempts]
          BY <2>1, <2>2
    <3>2. j \in Jobs
          OBVIOUS
    <3> QED BY <1>19, <2>1, <3>1, <3>2 DEF ReclaimGet
  <2>3. CASE data[j].status # "running"
    <3>1. /\ pc' = [pc EXCEPT ![w] = IF batch[w] = {j} THEN "poll" ELSE @]
          /\ UNCHANGED <<cur, att>>
          BY <2>1, <2>3
    <3> QED BY <1>19, <2>1, <3>1 DEF ReclaimGet
  <2> QED BY <2>2, <2>3
<1>20. ASSUME NEW j \in Jobs, BecomeDue(j) PROVE TypeOK' /\ LocalOK'
      BY <1>20 DEF BecomeDue
<1>21. ASSUME NEW j \in Jobs, BecomeStale(j) PROVE TypeOK' /\ LocalOK'
      BY <1>21 DEF BecomeStale
<1>22. ASSUME NEW j \in Jobs, Expire(j) PROVE TypeOK' /\ LocalOK'
      BY <1>22 DEF Expire
<1>23. ASSUME NEW p \in Procs, Fault(p) PROVE TypeOK' /\ LocalOK'
      BY <1>23 DEF Fault
<1>24. ASSUME NEW w \in Workers, Panic(w) PROVE TypeOK' /\ LocalOK'
      BY <1>24 DEF Panic
<1>25. CASE UNCHANGED vars
      BY <1>25 DEF vars
<1> QED
      BY <1>1, <1>2, <1>3, <1>4, <1>5, <1>6, <1>7, <1>8, <1>9, <1>10, <1>11, <1>12,
         <1>13, <1>14, <1>15, <1>16, <1>17, <1>18, <1>19, <1>20, <1>21, <1>22, <1>23,
         <1>24, <1>25 DEF Next, Submit, ClientStep, JobStep

\* The initial state satisfies the invariant.
LEMMA InvInit == Init => Inv
BY DEF Init, Inv, TypeOK, LocalOK, CustodyOK, SingleCustody, Holds, DataOK, HandOK,
       WorkerPoints, ClientPoints, OffSetPoints, Data, Present, Statuses

\* TypeOK holds in every behaviour of the queue, slow workers included.
THEOREM TypeCorrect == Spec => []TypeOK
<1>1. Init => TypeOK /\ LocalOK
      BY InvInit DEF Inv
<1>2. TypeOK /\ LocalOK /\ [Next]_vars => TypeOK' /\ LocalOK'
      BY TypeStep
<1> QED BY <1>1, <1>2, PTL DEF Spec

\* A job that may not be retried has used exactly max_retries attempts.
LEMMA Exhausted ==
    ASSUME NEW n \in Nat, NEW m \in Nat, n <= m, ~(n < m)
    PROVE  n = m
OBVIOUS

\* Custody, stored data and snapshots stay consistent over every step, as long
\* as stale processing entries belong to dead workers.
LEMMA InvStep ==
    ASSUME ~SlowWorkers, Inv, [Next]_vars, TypeOK', LocalOK'
    PROVE  Inv'
<1> USE DEF TypeOK, LocalOK, WorkerPoints, ClientPoints, Goto, Drop, redis, local, history,
            Data, Present
<1> TypeOK /\ LocalOK /\ CustodyOK /\ DataOK /\ HandOK
    BY DEF Inv
<1> SUFFICES CustodyOK' /\ DataOK' /\ HandOK'
    BY DEF Inv
<1>1. ASSUME NEW c \in Clients, EnqueueSet(c) PROVE CustodyOK' /\ DataOK' /\ HandOK'
  <2>1. CustodyOK'
        BY <1>1 DEF EnqueueSet, CustodyOK, SingleCustody, Holds, OffSetPoints
  <2>2. DataOK'
        BY <1>1 DEF EnqueueSet, DataOK, HandOK, CustodyOK, SingleCustody, Holds
  <2>3. HandOK'
        BY <1>1 DEF EnqueueSet, DataOK, HandOK, CustodyOK, SingleCustody, Holds
  <2> QED BY <2>1, <2>2, <2>3
<1>2. ASSUME NEW c \in Clients, EnqueueAdd(c) PROVE CustodyOK' /\ DataOK' /\ HandOK'
  <2>1. CustodyOK'
        BY <1>2 DEF EnqueueAdd, CustodyOK, SingleCustody, Holds, OffSetPoints
  <2>2. DataOK'
        BY <1>2 DEF EnqueueAdd, DataOK, HandOK, CustodyOK, SingleCustody, Holds
  <2>3. HandOK'
        BY <1>2 DEF EnqueueAdd, DataOK, HandOK, CustodyOK, SingleCustody, Holds
  <2> QED BY <2>1, <2>2, <2>3
<1>3. ASSUME NEW c \in Clients, ReplayGet(c) PROVE CustodyOK' /\ DataOK' /\ HandOK'
  <2>1. CustodyOK'
        BY <1>3 DEF ReplayGet, CustodyOK, SingleCustody, Holds, OffSetPoints
  <2>2. DataOK'
        BY <1>3 DEF ReplayGet, DataOK, HandOK, CustodyOK, SingleCustody, Holds
  <2>3. HandOK'
        BY <1>3 DEF ReplayGet, DataOK, HandOK, CustodyOK, SingleCustody, Holds
  <2> QED BY <2>1, <2>2, <2>3
<1>4. ASSUME NEW c \in Clients, ReplayRem(c) PROVE CustodyOK' /\ DataOK' /\ HandOK'
  <2>1. CustodyOK'
    <3>1. CASE cur[c] \in dlq
      <4>1. Goto(c, "replay_rem", "replay_set") /\ UNCHANGED cur /\ dlq' = dlq \ {cur[c]}
            BY <1>4, <3>1 DEF ReplayRem
      <4>2. \A p \in Procs, i \in Jobs : Holds(p, i)' <=> Holds(p, i) \/ (p = c /\ i = cur[c])
            BY <1>4, <4>1 DEF ReplayRem, Holds
      <4> QED
            BY <1>4, <3>1, <4>1, <4>2 DEF ReplayRem, CustodyOK, SingleCustody, OffSetPoints
    <3>2. CASE cur[c] \notin dlq
      <4>1. Goto(c, "replay_rem", "free") /\ Drop(c) /\ UNCHANGED dlq
            BY <1>4, <3>2 DEF ReplayRem
      <4> QED
            BY <1>4, <4>1 DEF ReplayRem, CustodyOK, SingleCustody, Holds, OffSetPoints
    <3> QED BY <3>1, <3>2
  <2>2. DataOK'
        BY <1>4 DEF ReplayRem, DataOK, HandOK, CustodyOK, SingleCustody, Holds
  <2>3. HandOK'
        BY <1>4 DEF ReplayRem, DataOK, HandOK, CustodyOK, SingleCustody, Holds
  <2> QED BY <2>1, <2>2, <2>3
<1>5. ASSUME NEW c \in Clients, ReplaySet(c) PROVE CustodyOK' /\ DataOK' /\ HandOK'
  <2>1. CustodyOK'
        BY <1>5 DEF ReplaySet, CustodyOK, SingleCustody, Holds, OffSetPoints
  <2>2. DataOK'
        BY <1>5 DEF ReplaySet, DataOK, HandOK, CustodyOK, SingleCustody, Holds
  <2>3. HandOK'
        BY <1>5 DEF ReplaySet, DataOK, HandOK, CustodyOK, SingleCustody, Holds
  <2> QED BY <2>1, <2>2, <2>3
<1>6. ASSUME NEW c \in Clients, ReplayAdd(c) PROVE CustodyOK' /\ DataOK' /\ HandOK'
  <2>1. CustodyOK'
        BY <1>6 DEF ReplayAdd, CustodyOK, SingleCustody, Holds, OffSetPoints
  <2>2. DataOK'
        BY <1>6 DEF ReplayAdd, DataOK, HandOK, CustodyOK, SingleCustody, Holds
  <2>3. HandOK'
        BY <1>6 DEF ReplayAdd, DataOK, HandOK, CustodyOK, SingleCustody, Holds
  <2> QED BY <2>1, <2>2, <2>3
<1>7. ASSUME NEW w \in Workers, DequeuePop(w) PROVE CustodyOK' /\ DataOK' /\ HandOK'
  <2>1. CustodyOK'
    <3>1. CASE UNCHANGED <<redis, pc, cur, att, batch, history>>
          BY <3>1 DEF CustodyOK, SingleCustody, Holds, OffSetPoints
    <3>2. ASSUME NEW j \in Jobs, queue[j] = "ready", Goto(w, "poll", "fetch"),
                 queue' = [queue EXCEPT ![j] = "out"], cur' = [cur EXCEPT ![w] = j],
                 UNCHANGED <<data, processing, dlq, att, level, batch, history>>
          PROVE  CustodyOK'
      <4>1. \A p \in Procs : ~Holds(p, j)
            BY <3>2 DEF CustodyOK, SingleCustody
      <4>2. \A p \in Procs, i \in Jobs : Holds(p, i)' <=> Holds(p, i) \/ (p = w /\ i = j)
            BY <3>2 DEF Holds
      <4>3. batch[w] = {} /\ phase[j] # "new" /\ processing[j] = "out" /\ j \notin dlq
            BY <3>2 DEF CustodyOK, SingleCustody
      <4> QED
            BY <3>2, <4>1, <4>2, <4>3 DEF CustodyOK, SingleCustody, OffSetPoints
    <3> QED BY <1>7, <3>1, <3>2 DEF DequeuePop, Ready
  <2>2. DataOK'
        BY <1>7 DEF DequeuePop, Ready, NextLevel, DataOK, HandOK, CustodyOK, SingleCustody, Holds
  <2>3. HandOK'
        BY <1>7 DEF DequeuePop, Ready, NextLevel, DataOK, HandOK, CustodyOK, SingleCustody, Holds
  <2> QED BY <2>1, <2>2, <2>3
<1>8. ASSUME NEW w \in Workers, DequeueFetch(w) PROVE CustodyOK' /\ DataOK' /\ HandOK'
  <2>0. /\ pc[w] = "fetch" /\ cur[w] \in Jobs
        /\ pc' = [pc EXCEPT ![w] = "claim"]
        /\ att' = [att EXCEPT ![w] = data[cur[w]].attempts]
        /\ UNCHANGED <<redis, cur, batch, history>>
        BY <1>8 DEF DequeueFetch, HandOK
  <2>1. CustodyOK'
        BY <2>0 DEF CustodyOK, SingleCustody, Holds, OffSetPoints
  <2>2. DataOK'
        BY <1>8 DEF DequeueFetch, DataOK, HandOK, CustodyOK, SingleCustody, Holds
  <2>3. HandOK'
        BY <2>0 DEF HandOK
  <2> QED BY <2>1, <2>2, <2>3
<1>9. ASSUME NEW w \in Workers, DequeueClaim(w) PROVE CustodyOK' /\ DataOK' /\ HandOK'
  <2>1. CustodyOK'
        BY <1>9 DEF DequeueClaim, CustodyOK, SingleCustody, Holds, OffSetPoints
  <2>2. DataOK'
        BY <1>9 DEF DequeueClaim, DataOK, HandOK, CustodyOK, SingleCustody, Holds
  <2>3. HandOK'
        BY <1>9 DEF DequeueClaim, DataOK, HandOK, CustodyOK, SingleCustody, Holds
  <2> QED BY <2>1, <2>2, <2>3
<1>10. ASSUME NEW w \in Workers, DequeueStart(w) PROVE CustodyOK' /\ DataOK' /\ HandOK'
  <2>1. CustodyOK'
        BY <1>10 DEF DequeueStart, CustodyOK, SingleCustody, Holds, OffSetPoints
  <2>2. DataOK'
        BY <1>10 DEF DequeueStart, DataOK, HandOK, CustodyOK, SingleCustody, Holds
  <2>3. HandOK'
        BY <1>10 DEF DequeueStart, DataOK, HandOK, CustodyOK, SingleCustody, Holds
  <2> QED BY <2>1, <2>2, <2>3
<1>11. ASSUME NEW w \in Workers, HandlerReturns(w) PROVE CustodyOK' /\ DataOK' /\ HandOK'
  <2>1. CustodyOK'
        BY <1>11 DEF HandlerReturns, CustodyOK, SingleCustody, Holds, OffSetPoints
  <2>2. DataOK'
        BY <1>11 DEF HandlerReturns, DataOK, HandOK, CustodyOK, SingleCustody, Holds
  <2>3. HandOK'
        BY <1>11 DEF HandlerReturns, DataOK, HandOK, CustodyOK, SingleCustody, Holds
  <2> QED BY <2>1, <2>2, <2>3
<1>12. ASSUME NEW w \in Workers, CompleteSet(w) PROVE CustodyOK' /\ DataOK' /\ HandOK'
  <2>1. CustodyOK'
        BY <1>12 DEF CompleteSet, CustodyOK, SingleCustody, Holds, OffSetPoints
  <2>2. DataOK'
        BY <1>12 DEF CompleteSet, DataOK, HandOK, CustodyOK, SingleCustody, Holds
  <2>3. HandOK'
        BY <1>12 DEF CompleteSet, DataOK, HandOK, CustodyOK, SingleCustody, Holds
  <2> QED BY <2>1, <2>2, <2>3
<1>13. ASSUME NEW w \in Workers, CompleteExpire(w) PROVE CustodyOK' /\ DataOK' /\ HandOK'
  <2>1. CustodyOK'
        BY <1>13 DEF CompleteExpire, CustodyOK, SingleCustody, Holds, OffSetPoints
  <2>2. DataOK'
        BY <1>13 DEF CompleteExpire, DataOK, HandOK, CustodyOK, SingleCustody, Holds
  <2>3. HandOK'
        BY <1>13 DEF CompleteExpire, DataOK, HandOK, CustodyOK, SingleCustody, Holds
  <2> QED BY <2>1, <2>2, <2>3
<1>14. ASSUME NEW w \in Workers, CompleteRem(w) PROVE CustodyOK' /\ DataOK' /\ HandOK'
  <2>1. CustodyOK'
        BY <1>14 DEF CompleteRem, CustodyOK, SingleCustody, Holds, OffSetPoints
  <2>2. DataOK'
        BY <1>14 DEF CompleteRem, DataOK, HandOK, CustodyOK, SingleCustody, Holds
  <2>3. HandOK'
        BY <1>14 DEF CompleteRem, DataOK, HandOK, CustodyOK, SingleCustody, Holds
  <2> QED BY <2>1, <2>2, <2>3
<1>15. ASSUME NEW w \in Workers, FailSet(w) PROVE CustodyOK' /\ DataOK' /\ HandOK'
  <2>1. CustodyOK'
        BY <1>15 DEF FailSet, CanRetry, CustodyOK, SingleCustody, Holds, OffSetPoints
  <2>2. DataOK'
    <3>1. cur[w] \in Jobs /\ Holds(w, cur[w]) /\ w \in Procs /\ att[w] = runs[cur[w]]
          BY <1>15 DEF FailSet, Holds, HandOK, DataOK
    <3>2. phase[cur[w]] # "new" /\ queue[cur[w]] = "out" /\ cur[w] \notin dlq
          BY <3>1 DEF CustodyOK, SingleCustody
    <3>3. CASE CanRetry(w)
          BY <1>15, <3>1, <3>2, <3>3 DEF FailSet, CanRetry, DataOK
    <3>4. CASE ~CanRetry(w)
      <4>1. runs[cur[w]] <= MaxRetries /\ runs[cur[w]] \in Nat
            BY <3>1 DEF DataOK
      <4>2. runs[cur[w]] = MaxRetries
            BY <3>1, <3>4, <4>1, Exhausted, MaxRetries \in Nat DEF CanRetry
      <4> QED
            BY <1>15, <3>1, <3>2, <3>4, <4>2 DEF FailSet, CanRetry, DataOK
    <3> QED BY <3>3, <3>4
  <2>3. HandOK'
        BY <1>15 DEF FailSet, CanRetry, DataOK, HandOK, CustodyOK, SingleCustody, Holds
  <2> QED BY <2>1, <2>2, <2>3
<1>16. ASSUME NEW w \in Workers, FailRem(w) PROVE CustodyOK' /\ DataOK' /\ HandOK'
  <2>1. CustodyOK'
        BY <1>16 DEF FailRem, CanRetry, CustodyOK, SingleCustody, Holds, OffSetPoints
  <2>2. DataOK'
        BY <1>16 DEF FailRem, CanRetry, DataOK, HandOK, CustodyOK, SingleCustody, Holds
  <2>3. HandOK'
        BY <1>16 DEF FailRem, CanRetry, DataOK, HandOK, CustodyOK, SingleCustody, Holds
  <2> QED BY <2>1, <2>2, <2>3
<1>17. ASSUME NEW w \in Workers, FailAdd(w) PROVE CustodyOK' /\ DataOK' /\ HandOK'
  <2>1. CustodyOK'
    <3>1. cur[w] \in Jobs /\ pc[w] = "fail_add" /\ Holds(w, cur[w]) /\ w \in Procs
          BY <1>17 DEF FailAdd, Holds
    <3>2. \A p \in Procs, i \in Jobs :
             Holds(p, i)' <=> Holds(p, i) /\ ~(p = w /\ i = cur[w] /\ i \notin batch[w])
          BY <1>17, <3>1 DEF FailAdd, Holds
    <3>3. cur[w] \notin batch[w]
          OBVIOUS
    <3> QED
          BY <1>17, <3>1, <3>2, <3>3 DEF FailAdd, CustodyOK, SingleCustody, OffSetPoints
  <2>2. DataOK'
        BY <1>17 DEF FailAdd, CanRetry, AfterJob, DataOK, HandOK, CustodyOK, SingleCustody, Holds
  <2>3. HandOK'
        BY <1>17 DEF FailAdd, CanRetry, AfterJob, DataOK, HandOK, CustodyOK, SingleCustody, Holds
  <2> QED BY <2>1, <2>2, <2>3
<1>18. ASSUME NEW w \in Workers, ReclaimClaim(w) PROVE CustodyOK' /\ DataOK' /\ HandOK'
  <2>1. CustodyOK'
        BY <1>18 DEF ReclaimClaim, Stale, CustodyOK, SingleCustody, Holds, OffSetPoints
  <2>2. DataOK'
        BY <1>18 DEF ReclaimClaim, Stale, DataOK, HandOK, CustodyOK, SingleCustody, Holds
  <2>3. HandOK'
        BY <1>18 DEF ReclaimClaim, Stale, DataOK, HandOK, CustodyOK, SingleCustody, Holds
  <2> QED BY <2>1, <2>2, <2>3
<1>19. ASSUME NEW w \in Workers, ReclaimGet(w) PROVE CustodyOK' /\ DataOK' /\ HandOK'
  <2>1. CustodyOK'
        BY <1>19 DEF ReclaimGet, CustodyOK, SingleCustody, Holds, OffSetPoints
  <2>2. DataOK'
        BY <1>19 DEF ReclaimGet, DataOK, HandOK, CustodyOK, SingleCustody, Holds
  <2>3. HandOK'
        BY SMTT(30), <1>19 DEF ReclaimGet, DataOK, HandOK, CustodyOK, SingleCustody, Holds
  <2> QED BY <2>1, <2>2, <2>3
<1>20. ASSUME NEW j \in Jobs, BecomeDue(j) PROVE CustodyOK' /\ DataOK' /\ HandOK'
  <2>1. CustodyOK'
        BY <1>20 DEF BecomeDue, CustodyOK, SingleCustody, Holds, OffSetPoints
  <2>2. DataOK'
        BY <1>20 DEF BecomeDue, DataOK, HandOK, CustodyOK, SingleCustody, Holds
  <2>3. HandOK'
        BY <1>20 DEF BecomeDue, DataOK, HandOK, CustodyOK, SingleCustody, Holds
  <2> QED BY <2>1, <2>2, <2>3
<1>21. ASSUME NEW j \in Jobs, BecomeStale(j) PROVE CustodyOK' /\ DataOK' /\ HandOK'
  <2>1. CustodyOK'
    <3>1. \A p \in Procs : ~Holds(p, j)
      <4>1. SUFFICES ASSUME NEW p \in Procs, Holds(p, j) PROVE FALSE
            OBVIOUS
      <4>2. cur[p] = j /\ pc[p] \notin OffSetPoints
            BY <1>21, <4>1 DEF BecomeStale, CustodyOK
      <4>3. CASE p \in Workers
            BY <1>21, <4>2, <4>3 DEF BecomeStale, Owned, OwningPoints, OffSetPoints
      <4>4. CASE p \in Clients
            BY <4>1, <4>2, <4>4 DEF Holds, OffSetPoints
      <4> QED BY <4>3, <4>4
    <3>2. queue[j] = "out" /\ j \notin dlq /\ phase[j] # "new"
          BY <1>21 DEF BecomeStale, CustodyOK, SingleCustody
    <3> QED
          BY <1>21, <3>1, <3>2 DEF BecomeStale, CustodyOK, SingleCustody, Holds, OffSetPoints
  <2>2. DataOK'
        BY <1>21 DEF BecomeStale, DataOK, HandOK, CustodyOK, SingleCustody, Holds
  <2>3. HandOK'
        BY <1>21 DEF BecomeStale, DataOK, HandOK, CustodyOK, SingleCustody, Holds
  <2> QED BY <2>1, <2>2, <2>3
<1>22. ASSUME NEW j \in Jobs, Expire(j) PROVE CustodyOK' /\ DataOK' /\ HandOK'
  <2>1. CustodyOK'
        BY <1>22 DEF Expire, CustodyOK, SingleCustody, Holds, OffSetPoints
  <2>2. DataOK'
        BY <1>22 DEF Expire, DataOK, HandOK, CustodyOK, SingleCustody, Holds
  <2>3. HandOK'
        BY <1>22 DEF Expire, DataOK, HandOK, CustodyOK, SingleCustody, Holds
  <2> QED BY <2>1, <2>2, <2>3
<1>23. ASSUME NEW p \in Procs, Fault(p) PROVE CustodyOK' /\ DataOK' /\ HandOK'
  <2>1. CustodyOK'
        BY <1>23 DEF Fault, CustodyOK, SingleCustody, Holds, OffSetPoints
  <2>2. DataOK'
        BY <1>23 DEF Fault, DataOK, HandOK, CustodyOK, SingleCustody, Holds
  <2>3. HandOK'
        BY <1>23 DEF Fault, DataOK, HandOK, CustodyOK, SingleCustody, Holds
  <2> QED BY <2>1, <2>2, <2>3
<1>24. ASSUME NEW w \in Workers, Panic(w) PROVE CustodyOK' /\ DataOK' /\ HandOK'
  <2>1. CustodyOK'
        BY <1>24 DEF Panic, CustodyOK, SingleCustody, Holds, OffSetPoints
  <2>2. DataOK'
        BY <1>24 DEF Panic, DataOK, HandOK, CustodyOK, SingleCustody, Holds
  <2>3. HandOK'
        BY <1>24 DEF Panic, DataOK, HandOK, CustodyOK, SingleCustody, Holds
  <2> QED BY <2>1, <2>2, <2>3
<1>25. CASE UNCHANGED vars
      BY <1>25 DEF vars, CustodyOK, SingleCustody, Holds, DataOK, HandOK
<1> QED
      BY <1>1, <1>2, <1>3, <1>4, <1>5, <1>6, <1>7, <1>8, <1>9, <1>10, <1>11, <1>12, <1>13, <1>14, <1>15, <1>16, <1>17, <1>18, <1>19, <1>20, <1>21, <1>22, <1>23, <1>24, <1>25
         DEF Next, Submit, ClientStep, JobStep

\* The inductive invariant holds in every behaviour without slow workers.
THEOREM InvHolds ==
    ASSUME ~SlowWorkers
    PROVE  Spec => []Inv
<1>1. Inv /\ [Next]_vars => Inv'
  <2> SUFFICES ASSUME Inv, [Next]_vars PROVE Inv'
      OBVIOUS
  <2>1. TypeOK' /\ LocalOK'
        BY TypeStep DEF Inv
  <2> QED BY <2>1, InvStep
<1> QED BY <1>1, InvInit, PTL DEF Spec

\* A job is in one place at a time: queued, processed, dead-lettered or in the
\* hands of a single task, whatever crashes (dequeue, fail, reclaim, replay).
THEOREM CustodyIsSingle ==
    ASSUME ~SlowWorkers
    PROVE  Spec => []SingleCustody
<1>1. Inv => SingleCustody
      BY DEF Inv, CustodyOK
<1> QED BY <1>1, InvHolds, PTL

\* The handler runs a job at most max_retries times before it is buried.
THEOREM RunsAreBounded ==
    ASSUME ~SlowWorkers
    PROVE  Spec => []RunsBounded
<1>1. Inv => RunsBounded
      BY DEF Inv, DataOK, RunsBounded
<1> QED BY <1>1, InvHolds, PTL

\* The dead-letter queue holds only failed jobs without attempts left.
THEOREM DeadLettersAreExhausted ==
    ASSUME ~SlowWorkers
    PROVE  Spec => []DeadLettersExhausted
<1>1. Inv => DeadLettersExhausted
      BY DEF Inv, TypeOK, DataOK, DeadLettersExhausted, Present
<1> QED BY <1>1, InvHolds, PTL

\* Every step of the queue changes the stage of at most one job, as the life
\* cycle allows, or leaves all stages and run counters alone.
LEMMA StageStep ==
    ASSUME Inv, [Next]_vars, Inv'
    PROVE  [Lifecycle!Next]_<<[j \in Jobs |-> Stage(j)], runs>>
<1> DEFINE S == [j \in Jobs |-> Stage(j)]
<1> USE DEF TypeOK, LocalOK, Goto, Drop, redis, local, history, Data, Present
<1> TypeOK /\ LocalOK /\ CustodyOK /\ DataOK /\ HandOK
    BY DEF Inv
<1> SUFFICES ASSUME ~(S' = S /\ runs' = runs) PROVE Lifecycle!Next
    OBVIOUS
<1>0. ASSUME \A k \in Jobs : Stage(k)' = Stage(k) PROVE S' = S
      BY <1>0
<1>1. ASSUME UNCHANGED <<data, phase, runs>> PROVE FALSE
      BY <1>1 DEF Stage
<1>2. ASSUME NEW c \in Clients, EnqueueSet(c) PROVE Lifecycle!Next
  <2>1. PICK i \in Jobs : /\ phase[i] = "new"
                          /\ phase' = [phase EXCEPT ![i] = "submitted"]
                          /\ data' = [data EXCEPT ![i] = Data("pending", 0)]
        BY <1>2 DEF EnqueueSet
  <2>2. S[i] = "absent"
        BY <2>1 DEF Stage, CustodyOK
  <2>3. \A k \in Jobs : Stage(k)' = IF k = i THEN "waiting" ELSE Stage(k)
        BY <2>1 DEF Stage
  <2>4. S' = [S EXCEPT ![i] = "waiting"]
        BY <2>3
  <2>5. UNCHANGED runs
        BY <1>2 DEF EnqueueSet
  <2> QED BY <2>2, <2>4, <2>5 DEF Lifecycle!Next, Lifecycle!Submit, Lifecycle!Move
<1>3. ASSUME NEW c \in Clients, EnqueueAdd(c) PROVE FALSE
  <2>1. cur[c] \in Jobs /\ phase[cur[c]] # "new"
        BY <1>3 DEF EnqueueAdd, CustodyOK, Holds
  <2>2. S' = S /\ runs' = runs
        BY <1>3, <2>1 DEF EnqueueAdd, Stage
  <2> QED BY <2>2
<1>4. ASSUME NEW c \in Clients, ReplaySet(c) PROVE Lifecycle!Next
  <2>1. PICK i \in Jobs : i = cur[c] /\ data[i].status = "failed"
        BY <1>4 DEF ReplaySet, HandOK
  <2>2. \A k \in Jobs : Stage(k)' = IF k = i THEN "waiting" ELSE Stage(k)
        BY <1>4, <2>1 DEF ReplaySet, Stage
  <2>3. S[i] = "dead"
        BY <2>1 DEF Stage
  <2>4. S' = [S EXCEPT ![i] = "waiting"]
        BY <2>2
  <2> QED BY <1>4, <2>1, <2>3, <2>4 DEF ReplaySet, Lifecycle!Next, Lifecycle!Replay, Lifecycle!Move
<1>5. ASSUME NEW w \in Workers, DequeueStart(w) PROVE Lifecycle!Next
  <2>1. PICK i \in Jobs : i = cur[w] /\ data[i].status \in {"pending", "retrying"}
        BY SMTT(30), <1>5 DEF DequeueStart, HandOK
  <2>2. \A k \in Jobs : Stage(k)' = IF k = i THEN "working" ELSE Stage(k)
        BY <1>5, <2>1 DEF DequeueStart, Stage
  <2>3. S[i] = "waiting"
        BY <2>1 DEF Stage
  <2>4. S' = [S EXCEPT ![i] = "working"]
        BY <2>2
  <2>5. runs[i] < MaxRetries /\ runs' = [runs EXCEPT ![i] = @ + 1]
        BY <1>5, <2>1 DEF DataOK, DequeueStart
  <2> QED BY <2>3, <2>4, <2>5 DEF Lifecycle!Next, Lifecycle!Begin, Lifecycle!Move
<1>6. ASSUME NEW w \in Workers, CompleteSet(w) PROVE Lifecycle!Next
  <2>1. PICK i \in Jobs : i = cur[w] /\ data[i].status = "running"
        BY <1>6 DEF CompleteSet, HandOK
  <2>2. \A k \in Jobs : Stage(k)' = IF k = i THEN "done" ELSE Stage(k)
        BY <1>6, <2>1 DEF CompleteSet, Stage
  <2>3. S[i] = "working"
        BY <2>1 DEF Stage
  <2>4. S' = [S EXCEPT ![i] = "done"]
        BY <2>2
  <2> QED BY <1>6, <2>3, <2>4 DEF CompleteSet, Lifecycle!Next, Lifecycle!Finish, Lifecycle!Move
<1>7. ASSUME NEW w \in Workers, CompleteExpire(w) PROVE FALSE
  <2>1. cur[w] \in Jobs
        BY <1>7 DEF CompleteExpire
  <2>2. data'[cur[w]].status = data[cur[w]].status
        BY <1>7, <2>1 DEF CompleteExpire
  <2>3. \A k \in Jobs : Stage(k)' = Stage(k)
        BY <1>7, <2>1, <2>2 DEF CompleteExpire, Stage
  <2> QED BY <1>0, <1>7, <2>3 DEF CompleteExpire
<1>8. ASSUME NEW w \in Workers, FailSet(w) PROVE Lifecycle!Next
  <2>1. PICK i \in Jobs : i = cur[w] /\ data[i].status = "running"
        BY SMTT(30), <1>8 DEF FailSet, HandOK
  <2>2. att[w] = runs[i] /\ runs[i] <= MaxRetries /\ UNCHANGED runs
        BY <1>8, <2>1 DEF FailSet, HandOK, DataOK
  <2>3. S[i] = "working"
        BY <2>1 DEF Stage
  <2>4. CASE CanRetry(w)
    <3>1. \A k \in Jobs : Stage(k)' = IF k = i THEN "waiting" ELSE Stage(k)
          BY <1>8, <2>1, <2>4 DEF FailSet, Stage
    <3>2. S' = [S EXCEPT ![i] = "waiting"]
          BY <3>1
    <3> QED BY <2>2, <2>3, <2>4, <3>2
            DEF CanRetry, Lifecycle!Next, Lifecycle!Retry, Lifecycle!Move
  <2>5. CASE ~CanRetry(w)
    <3>1. \A k \in Jobs : Stage(k)' = IF k = i THEN "dead" ELSE Stage(k)
          BY <1>8, <2>1, <2>5 DEF FailSet, Stage
    <3>2. S' = [S EXCEPT ![i] = "dead"]
          BY <3>1
    <3>3. runs[i] = MaxRetries
          BY <2>2, <2>5, Exhausted, runs[i] \in Nat, MaxRetries \in Nat DEF CanRetry
    <3> QED BY <2>2, <2>3, <3>2, <3>3
            DEF Lifecycle!Next, Lifecycle!Bury, Lifecycle!Move
  <2> QED BY <2>4, <2>5
<1>9. ASSUME NEW i \in Jobs, Expire(i) PROVE FALSE
  <2>1. data[i].status = "completed" /\ phase[i] # "new"
        BY <1>9 DEF Expire, DataOK, CustodyOK
  <2>2. \A k \in Jobs : Stage(k)' = Stage(k)
        BY <1>9, <2>1 DEF Expire, Stage
  <2> QED BY <1>0, <1>9, <2>2 DEF Expire
<1> QED
  <2>1. ASSUME NEW c \in Clients, Submit(c) \/ ClientStep(c) PROVE Lifecycle!Next
        BY <1>1, <1>2, <1>3, <1>4, <2>1
           DEF Submit, ClientStep, ReplayGet, ReplayRem, ReplayAdd
  <2>2. ASSUME NEW w \in Workers, JobStep(w) \/ ReclaimClaim(w) \/ Panic(w)
        PROVE  Lifecycle!Next
        BY <1>1, <1>5, <1>6, <1>7, <1>8, <2>2
           DEF JobStep, DequeuePop, DequeueFetch, DequeueClaim, HandlerReturns,
               CompleteRem, FailRem, FailAdd, ReclaimGet, ReclaimClaim, Panic
  <2>3. ASSUME NEW i \in Jobs, BecomeDue(i) \/ BecomeStale(i) \/ Expire(i)
        PROVE  Lifecycle!Next
        BY <1>1, <1>9, <2>3 DEF BecomeDue, BecomeStale
  <2>4. ASSUME NEW p \in Procs, Fault(p) PROVE Lifecycle!Next
        BY <1>1, <2>4 DEF Fault
  <2>5. CASE UNCHANGED vars
        BY <1>1, <2>5 DEF vars
  <2> QED BY <2>1, <2>2, <2>3, <2>4, <2>5 DEF Next

\* The queue implements JobLifecycle, whatever crashes between two commands.
THEOREM ImplementsLifecycle ==
    ASSUME ~SlowWorkers
    PROVE  Spec => LifecycleSpec
<1>1. Init => Lifecycle!Init
      BY DEF Init, Stage, Data, Lifecycle!Init
<1>2. Inv /\ [Next]_vars /\ Inv' => [Lifecycle!Next]_<<[j \in Jobs |-> Stage(j)], runs>>
      BY StageStep
<1> QED BY <1>1, <1>2, InvHolds, PTL DEF Spec, LifecycleSpec, Lifecycle!Spec

----------------------------------------------------------------------------
(* No accepted job is lost while only workers that run or complete a job    *)
(* can fail: whatever else stops is outside the theorem, because a job that *)
(* is in no Redis set then goes with its task.                              *)


\* The points of a claimed job at which no change of Redis is under way that
\* only the task knows of.
ClaimedPoints == {"run", "complete_set", "complete_expire", "complete_rem"}

\* A running job is in the processing set.
ClaimKept ==
    \A w \in Workers : pc[w] \in {"start", "run", "complete_set"} => processing[cur[w]] # "out"

\* A processing entry without its worker, and a reclaimed one, belongs to a
\* job that was running: reclaim_stuck_processing fails only those.
LeftRunning ==
    \A j \in Jobs :
        (processing[j] # "out" /\ ~Owned(j)) \/ (\E w \in Workers : j \in batch[w])
            => data[j].status \in {"running", "completed", "none"}

NoLoss == NoJobLost /\ ClaimKept /\ LeftRunning

\* A step of p that leaves cur and batch alone and neither begins nor ends at
\* replay_rem takes no job from anyone and gives none to anyone.
LEMMA HoldsKept ==
    ASSUME pc \in [Procs -> WorkerPoints \cup ClientPoints], NEW p \in Procs, NEW to,
           pc' = [pc EXCEPT ![p] = to], pc[p] # "replay_rem", to # "replay_rem",
           UNCHANGED <<cur, batch>>
    PROVE  \A q \in Procs, i \in Jobs : Holds(q, i)' <=> Holds(q, i)
BY DEF Holds

\* A step of p that drops its job leaves the others with what they hold.
LEMMA HoldsDropped ==
    ASSUME pc \in [Procs -> WorkerPoints \cup ClientPoints],
           cur \in [Procs -> Jobs \cup {NoJob}], NEW p \in Procs, NEW to,
           pc' = [pc EXCEPT ![p] = to], cur' = [cur EXCEPT ![p] = NoJob], UNCHANGED batch
    PROVE  \A q \in Procs, i \in Jobs :
               Holds(q, i) /\ ~(q = p /\ i = cur[p]) => Holds(q, i)'
BY DEF Holds

\* Who owns a processing entry has the job in hand.
LEMMA OwnerHolds ==
    ASSUME NEW j \in Jobs, NEW w \in Workers, cur[w] = j, pc[w] \in OwningPoints
    PROVE  Holds(w, j)
BY DEF Holds, OwningPoints

\* The job in a worker's hand is in nobody's batch and in no other hand.
LEMMA InHandAlone ==
    ASSUME SingleCustody, LocalOK, NEW p \in Procs, cur[p] \in Jobs, pc[p] # "replay_rem"
    PROVE  /\ Holds(p, cur[p])
           /\ \A v \in Workers : cur[p] \notin batch[v]
           /\ \A q \in Procs \ {p} : cur[q] = cur[p] => pc[q] = "replay_rem"
           /\ queue[cur[p]] = "out" /\ cur[p] \notin dlq
<1>1. Holds(p, cur[p])
      BY DEF Holds
<1>2. \A v \in Workers : cur[p] \notin batch[v]
  <2>1. SUFFICES ASSUME NEW v \in Workers, cur[p] \in batch[v] PROVE FALSE
        OBVIOUS
  <2>2. v = p
        BY <1>1, <2>1 DEF SingleCustody, Holds
  <2> QED BY <2>1, <2>2 DEF LocalOK
<1>3. \A q \in Procs \ {p} : cur[q] = cur[p] => pc[q] = "replay_rem"
  <2>1. SUFFICES ASSUME NEW q \in Procs \ {p}, cur[q] = cur[p], pc[q] # "replay_rem" PROVE FALSE
        OBVIOUS
  <2>2. Holds(q, cur[p])
        BY <2>1 DEF Holds
  <2> QED BY <1>1, <2>1, <2>2 DEF SingleCustody
<1>4. queue[cur[p]] = "out" /\ cur[p] \notin dlq
      BY <1>1 DEF SingleCustody
<1> QED BY <1>1, <1>2, <1>3, <1>4

\* Every step keeps every accepted job, the entries of running jobs, and the
\* status of the entries their workers left.
LEMMA NoLossStep ==
    ASSUME ~SlowWorkers, FaultPoints \subseteq ClaimedPoints, Inv, Inv', [Next]_vars, NoLoss
    PROVE  NoLoss'
<1> USE DEF Goto, Drop, redis, local, history
<1>a. /\ pc \in [Procs -> WorkerPoints \cup ClientPoints]
      /\ cur \in [Procs -> Jobs \cup {NoJob}]
      /\ batch \in [Workers -> SUBSET Jobs]
      /\ processing \in [Jobs -> {"out", "fresh", "stale"}]
      /\ queue \in [Jobs -> {"out", "delayed", "ready"}]
      /\ data \in [Jobs -> [status : Statuses, attempts : Nat, ttl : {"never", "day"}]]
      /\ dlq \subseteq Jobs
      /\ phase \in [Jobs -> {"new", "submitted", "accepted"}]
      BY DEF Inv, TypeOK
<1>b. SingleCustody /\ LocalOK /\ CustodyOK /\ HandOK
      BY DEF Inv, CustodyOK
<1>c. NoJobLost /\ ClaimKept /\ LeftRunning
      BY DEF NoLoss
<1>1. ASSUME NEW c \in Clients, EnqueueSet(c) PROVE NoLoss'
  <2>a. PICK j \in Jobs :
           /\ phase[j] = "new" /\ phase' = [phase EXCEPT ![j] = "submitted"]
           /\ data' = [data EXCEPT ![j] = Data("pending", 0)] /\ cur' = [cur EXCEPT ![c] = j]
        BY <1>1 DEF EnqueueSet
  <2>b. /\ pc[c] = "free" /\ pc' = [pc EXCEPT ![c] = "enqueue_add"] /\ cur[c] = NoJob
        /\ c \in Procs /\ c \notin Workers
        /\ UNCHANGED <<queue, processing, dlq, batch>>
        BY <1>1, <1>a, <1>b DEF EnqueueSet, LocalOK
  <2>c. processing[j] = "out" /\ \A p \in Procs : ~Holds(p, j)
        BY <1>b, <2>a DEF CustodyOK
  <2>d. \A p \in Procs, i \in Jobs : Holds(p, i) => Holds(p, i)'
        BY <1>a, <2>a, <2>b DEF Holds
  <2>1. NoJobLost'
        BY <1>a, <1>c, <2>a, <2>b, <2>d DEF NoJobLost, Finished, Present, Tracked
  <2>2. ClaimKept'
        BY <1>a, <1>c, <2>a, <2>b DEF ClaimKept
  <2>3. LeftRunning'
    <3>1. \A i \in Jobs : Owned(i)' <=> Owned(i)
          BY <1>a, <2>a, <2>b DEF Owned
    <3>2. \A w \in Workers : j \notin batch[w]
          BY <2>c DEF Holds
    <3> QED BY <1>a, <1>c, <2>a, <2>b, <2>c, <3>1, <3>2 DEF LeftRunning
  <2> QED BY <2>1, <2>2, <2>3 DEF NoLoss
<1>2. ASSUME NEW c \in Clients, EnqueueAdd(c) PROVE NoLoss'
  <2>a. /\ pc[c] = "enqueue_add" /\ pc' = [pc EXCEPT ![c] = "free"]
        /\ queue' = [queue EXCEPT ![cur[c]] = "ready"] /\ cur' = [cur EXCEPT ![c] = NoJob]
        /\ c \in Procs /\ c \notin Workers /\ cur[c] \in Jobs
        /\ UNCHANGED <<data, processing, dlq, batch>>
        BY <1>2, <1>a, <1>b DEF EnqueueAdd, LocalOK
  <2>b. \A q \in Procs, i \in Jobs : Holds(q, i) /\ ~(q = c /\ i = cur[c]) => Holds(q, i)'
        BY <1>a, <2>a, HoldsDropped
  <2>1. NoJobLost'
        BY <1>2, <1>a, <1>c, <2>a, <2>b DEF EnqueueAdd, NoJobLost, Finished, Present, Tracked
  <2>2. ClaimKept'
        BY <1>a, <1>c, <2>a DEF ClaimKept
  <2>3. LeftRunning'
    <3>1. \A i \in Jobs : Owned(i)' <=> Owned(i)
          BY <1>a, <2>a DEF Owned
    <3> QED BY <1>c, <2>a, <3>1 DEF LeftRunning
  <2> QED BY <2>1, <2>2, <2>3 DEF NoLoss
<1>3. ASSUME NEW c \in Clients, ReplayGet(c) PROVE NoLoss'
  <2>a. /\ pc[c] = "free" /\ pc' = [pc EXCEPT ![c] = "replay_rem"] /\ cur[c] = NoJob
        /\ \A p \in Procs \ {c} : cur'[p] = cur[p]
        /\ c \in Procs /\ c \notin Workers
        /\ UNCHANGED <<data, queue, processing, dlq, batch, phase>>
        BY <1>3, <1>a, <1>b DEF ReplayGet, LocalOK
  <2>b. \A p \in Procs, i \in Jobs : Holds(p, i) => Holds(p, i)'
        BY <1>a, <2>a DEF Holds
  <2>1. NoJobLost'
        BY <1>a, <1>c, <2>a, <2>b DEF NoJobLost, Finished, Present, Tracked
  <2>2. ClaimKept'
        BY <1>a, <1>c, <2>a DEF ClaimKept
  <2>3. LeftRunning'
    <3>1. \A i \in Jobs : Owned(i)' <=> Owned(i)
          BY <1>a, <2>a DEF Owned
    <3> QED BY <1>c, <2>a, <3>1 DEF LeftRunning
  <2> QED BY <2>1, <2>2, <2>3 DEF NoLoss
<1>4. ASSUME NEW c \in Clients, ReplayRem(c) PROVE NoLoss'
  <2>a. /\ pc[c] = "replay_rem" /\ dlq' = dlq \ {cur[c]} /\ c \in Procs /\ c \notin Workers
        /\ \A q \in Procs \ {c} : pc'[q] = pc[q] /\ cur'[q] = cur[q]
        /\ UNCHANGED <<data, queue, processing, batch, phase>>
        BY <1>4, <1>a DEF ReplayRem
  <2>b. \A q \in Procs, i \in Jobs : Holds(q, i) => Holds(q, i)'
        BY <2>a DEF Holds
  <2>c. \A i \in dlq \ dlq' : Holds(c, i)'
        BY <1>4, <1>a, <2>a DEF ReplayRem, Holds
  <2>1. NoJobLost'
        BY <1>a, <1>c, <2>a, <2>b, <2>c DEF NoJobLost, Finished, Present, Tracked
  <2>2. ClaimKept'
        BY <1>a, <1>c, <2>a DEF ClaimKept
  <2>3. LeftRunning'
    <3>1. \A i \in Jobs : Owned(i)' <=> Owned(i)
          BY <2>a DEF Owned
    <3> QED BY <1>c, <2>a, <3>1 DEF LeftRunning
  <2> QED BY <2>1, <2>2, <2>3 DEF NoLoss
<1>5. ASSUME NEW c \in Clients, ReplaySet(c) PROVE NoLoss'
  <2>a. /\ pc[c] = "replay_set" /\ pc' = [pc EXCEPT ![c] = "replay_add"]
        /\ cur[c] \in Jobs /\ c \in Procs
        /\ data' = [data EXCEPT ![cur[c]] = Data("pending", 0)] /\ c \notin Workers
        /\ UNCHANGED <<queue, processing, dlq, cur, batch, phase>>
        BY <1>5, <1>a, <1>b DEF ReplaySet, LocalOK
  <2>b. \A q \in Procs, i \in Jobs : Holds(q, i)' <=> Holds(q, i)
        BY <1>a, <2>a, HoldsKept
  <2>c. /\ Holds(c, cur[c])
        /\ \A v \in Workers : cur[c] \notin batch[v]
        /\ \A q \in Procs \ {c} : cur[q] = cur[c] => pc[q] = "replay_rem"
        BY <1>b, <2>a, InHandAlone
  <2>1. NoJobLost'
        BY <1>a, <1>c, <2>a, <2>b, <2>c DEF NoJobLost, Finished, Present, Tracked
  <2>2. ClaimKept'
        BY <1>a, <1>c, <2>a, <2>c DEF ClaimKept
  <2>3. LeftRunning'
    <3>1. \A i \in Jobs : Owned(i)' <=> Owned(i)
          BY <1>a, <2>a DEF Owned
    <3>2. processing[cur[c]] = "out"
          BY <1>b, <2>a, <2>c DEF CustodyOK, OffSetPoints
    <3> QED BY <1>a, <1>c, <2>a, <2>c, <3>1, <3>2 DEF LeftRunning
  <2> QED BY <2>1, <2>2, <2>3 DEF NoLoss
<1>6. ASSUME NEW c \in Clients, ReplayAdd(c) PROVE NoLoss'
  <2>a. /\ pc[c] = "replay_add" /\ pc' = [pc EXCEPT ![c] = "free"]
        /\ queue' = [queue EXCEPT ![cur[c]] = "ready"] /\ cur' = [cur EXCEPT ![c] = NoJob]
        /\ c \in Procs /\ c \notin Workers /\ cur[c] \in Jobs
        /\ UNCHANGED <<data, processing, dlq, batch>>
        BY <1>6, <1>a, <1>b DEF ReplayAdd, LocalOK
  <2>b. \A q \in Procs, i \in Jobs : Holds(q, i) /\ ~(q = c /\ i = cur[c]) => Holds(q, i)'
        BY <1>a, <2>a, HoldsDropped
  <2>1. NoJobLost'
        BY <1>6, <1>a, <1>c, <2>a, <2>b DEF ReplayAdd, NoJobLost, Finished, Present, Tracked
  <2>2. ClaimKept'
        BY <1>a, <1>c, <2>a DEF ClaimKept
  <2>3. LeftRunning'
    <3>1. \A i \in Jobs : Owned(i)' <=> Owned(i)
          BY <1>a, <2>a DEF Owned
    <3> QED BY <1>c, <2>a, <3>1 DEF LeftRunning
  <2> QED BY <2>1, <2>2, <2>3 DEF NoLoss
<1>7. ASSUME NEW w \in Workers, DequeuePop(w) PROVE NoLoss'
  <2>a. /\ pc[w] = "poll" /\ w \in Procs /\ cur[w] = NoJob
        /\ UNCHANGED <<data, processing, dlq, batch, phase>>
        BY <1>7, <1>a, <1>b DEF DequeuePop, LocalOK
  <2>b. /\ \A q \in Procs \ {w} : pc'[q] = pc[q] /\ cur'[q] = cur[q]
        /\ pc'[w] \in {"poll", "fetch"}
        BY <1>7, <1>a, <2>a DEF DequeuePop
  <2>c. \A q \in Procs, i \in Jobs : Holds(q, i) => Holds(q, i)'
        BY <1>a, <2>a, <2>b DEF Holds
  <2>d. \A i \in Jobs : queue'[i] = queue[i] \/ Holds(w, i)'
    <3>1. CASE UNCHANGED queue
          BY <3>1
    <3>2. ASSUME NEW j \in Jobs, Goto(w, "poll", "fetch"),
                 queue' = [queue EXCEPT ![j] = "out"], cur' = [cur EXCEPT ![w] = j]
          PROVE  \A i \in Jobs : queue'[i] = queue[i] \/ Holds(w, i)'
          BY <1>a, <2>a, <3>2 DEF Holds
    <3> QED BY <1>7, <3>1, <3>2 DEF DequeuePop, Ready
  <2>1. NoJobLost'
        BY <1>a, <1>c, <2>a, <2>c, <2>d DEF NoJobLost, Finished, Present, Tracked
  <2>2. ClaimKept'
        BY <1>a, <1>c, <2>a, <2>b DEF ClaimKept
  <2>3. LeftRunning'
    <3>1. \A i \in Jobs : Owned(i)' <=> Owned(i)
          BY <1>a, <2>a, <2>b DEF Owned, OwningPoints
    <3> QED BY <1>c, <2>a, <3>1 DEF LeftRunning
  <2> QED BY <2>1, <2>2, <2>3 DEF NoLoss
<1>8. ASSUME NEW w \in Workers, DequeueFetch(w) PROVE NoLoss'
  <2>a. /\ pc[w] = "fetch" /\ pc' = [pc EXCEPT ![w] = "claim"] /\ w \in Procs
        /\ UNCHANGED <<data, queue, processing, dlq, cur, batch, phase>>
        BY <1>8, <1>a, <1>b DEF DequeueFetch, HandOK, Present
  <2>b. \A q \in Procs, i \in Jobs : Holds(q, i)' <=> Holds(q, i)
        BY <1>a, <2>a, HoldsKept
  <2>1. NoJobLost'
        BY <1>a, <1>c, <2>a, <2>b DEF NoJobLost, Finished, Present, Tracked
  <2>2. ClaimKept'
        BY <1>a, <1>c, <2>a DEF ClaimKept
  <2>3. LeftRunning'
    <3>1. \A i \in Jobs : Owned(i) => Owned(i)'
          BY <1>a, <2>a DEF Owned, OwningPoints
    <3> QED BY <1>a, <1>c, <2>a, <3>1 DEF LeftRunning
  <2> QED BY <2>1, <2>2, <2>3 DEF NoLoss
<1>9. ASSUME NEW w \in Workers, DequeueClaim(w) PROVE NoLoss'
  <2>a. /\ pc[w] = "claim" /\ pc' = [pc EXCEPT ![w] = "start"] /\ cur[w] \in Jobs /\ w \in Procs
        /\ processing' = [processing EXCEPT ![cur[w]] = "fresh"]
        /\ UNCHANGED <<data, queue, dlq, cur, batch, phase>>
        BY <1>9, <1>a, <1>b DEF DequeueClaim, LocalOK
  <2>b. \A q \in Procs, i \in Jobs : Holds(q, i)' <=> Holds(q, i)
        BY <1>a, <2>a, HoldsKept
  <2>c. /\ Holds(w, cur[w])
        /\ \A v \in Workers : cur[w] \notin batch[v]
        /\ \A q \in Procs \ {w} : cur[q] = cur[w] => pc[q] = "replay_rem"
        BY <1>b, <2>a, InHandAlone
  <2>1. NoJobLost'
        BY <1>a, <1>c, <2>a, <2>b, <2>c DEF NoJobLost, Finished, Present, Tracked
  <2>2. ClaimKept'
        BY <1>a, <1>c, <2>a, <2>c DEF ClaimKept
  <2>3. LeftRunning'
    <3>1. \A i \in Jobs : Owned(i) => Owned(i)'
          BY <1>a, <2>a DEF Owned, OwningPoints
    <3>2. Owned(cur[w])'
          BY <1>a, <2>a DEF Owned, OwningPoints
    <3> QED BY <1>a, <1>c, <2>a, <2>c, <3>1, <3>2 DEF LeftRunning, Data
  <2> QED BY <2>1, <2>2, <2>3 DEF NoLoss
<1>10. ASSUME NEW w \in Workers, DequeueStart(w) PROVE NoLoss'
  <2>a. /\ pc[w] = "start" /\ pc' = [pc EXCEPT ![w] = "run"] /\ cur[w] \in Jobs /\ w \in Procs
        /\ data' = [data EXCEPT ![cur[w]] = Data("running", att[w] + 1)]
        /\ UNCHANGED <<queue, processing, dlq, cur, batch, phase>>
        BY <1>10, <1>a, <1>b DEF DequeueStart, LocalOK
  <2>b. \A q \in Procs, i \in Jobs : Holds(q, i)' <=> Holds(q, i)
        BY <1>a, <2>a, HoldsKept
  <2>c. /\ Holds(w, cur[w])
        /\ \A v \in Workers : cur[w] \notin batch[v]
        /\ \A q \in Procs \ {w} : cur[q] = cur[w] => pc[q] = "replay_rem"
        BY <1>b, <2>a, InHandAlone
  <2>1. NoJobLost'
        BY <1>a, <1>c, <2>a, <2>b, <2>c DEF NoJobLost, Finished, Present, Tracked
  <2>2. ClaimKept'
        BY <1>a, <1>c, <2>a, <2>c DEF ClaimKept
  <2>3. LeftRunning'
    <3>1. \A i \in Jobs : Owned(i) => Owned(i)'
          BY <1>a, <2>a DEF Owned, OwningPoints
    <3>2. Owned(cur[w])'
          BY <1>a, <2>a DEF Owned, OwningPoints
    <3> QED BY <1>a, <1>c, <2>a, <2>c, <3>1, <3>2 DEF LeftRunning, Data
  <2> QED BY <2>1, <2>2, <2>3 DEF NoLoss
<1>11. ASSUME NEW w \in Workers, HandlerReturns(w) PROVE NoLoss'
  <2>a. PICK to \in {"complete_set", "fail_set"} : Goto(w, "run", to)
        BY <1>11 DEF HandlerReturns
  <2>b. /\ UNCHANGED <<data, queue, processing, dlq, cur, batch, phase>>
        /\ w \in Procs
        BY <1>11 DEF HandlerReturns
  <2>c. \A q \in Procs, i \in Jobs : Holds(q, i)' <=> Holds(q, i)
        BY <1>a, <2>a, <2>b, HoldsKept
  <2>1. NoJobLost'
        BY <1>a, <1>c, <2>b, <2>c DEF NoJobLost, Finished, Present, Tracked
  <2>2. ClaimKept'
        BY <1>a, <1>c, <2>a, <2>b DEF ClaimKept
  <2>3. LeftRunning'
    <3>1. \A i \in Jobs : Owned(i)' <=> Owned(i)
          BY <1>a, <2>a, <2>b DEF Owned, OwningPoints
    <3> QED BY <1>c, <2>b, <3>1 DEF LeftRunning
  <2> QED BY <2>1, <2>2, <2>3 DEF NoLoss
<1>12. ASSUME NEW w \in Workers, CompleteSet(w) PROVE NoLoss'
  <2>a. /\ pc[w] = "complete_set" /\ pc' = [pc EXCEPT ![w] = "complete_expire"]
        /\ cur[w] \in Jobs /\ w \in Procs
        /\ data' = [data EXCEPT ![cur[w]] = Data("completed", att[w])]
        /\ UNCHANGED <<queue, processing, dlq, cur, batch, phase>>
        BY <1>12, <1>a, <1>b DEF CompleteSet, LocalOK
  <2>b. \A q \in Procs, i \in Jobs : Holds(q, i)' <=> Holds(q, i)
        BY <1>a, <2>a, HoldsKept
  <2>c. /\ Holds(w, cur[w])
        /\ \A v \in Workers : cur[w] \notin batch[v]
        /\ \A q \in Procs \ {w} : cur[q] = cur[w] => pc[q] = "replay_rem"
        BY <1>b, <2>a, InHandAlone
  <2>1. NoJobLost'
        BY <1>a, <1>c, <2>a, <2>b, <2>c DEF NoJobLost, Finished, Present, Tracked
  <2>2. ClaimKept'
        BY <1>a, <1>c, <2>a, <2>c DEF ClaimKept
  <2>3. LeftRunning'
    <3>1. \A i \in Jobs : Owned(i) => Owned(i)'
          BY <1>a, <2>a DEF Owned, OwningPoints
    <3>2. Owned(cur[w])'
          BY <1>a, <2>a DEF Owned, OwningPoints
    <3> QED BY <1>a, <1>c, <2>a, <2>c, <3>1, <3>2 DEF LeftRunning, Data
  <2> QED BY <2>1, <2>2, <2>3 DEF NoLoss
<1>13. ASSUME NEW w \in Workers, CompleteExpire(w) PROVE NoLoss'
  <2>a. /\ pc[w] = "complete_expire" /\ pc' = [pc EXCEPT ![w] = "complete_rem"] /\ cur[w] \in Jobs
        /\ w \in Procs
        /\ UNCHANGED <<queue, processing, dlq, cur, batch, phase>>
        BY <1>13, <1>a, <1>b DEF CompleteExpire, LocalOK
  <2>b. \A q \in Procs, i \in Jobs : Holds(q, i)' <=> Holds(q, i)
        BY <1>a, <2>a, HoldsKept
  <2>c. \A i \in Jobs : data'[i].status = data[i].status
        BY <1>13, <1>a DEF CompleteExpire
  <2>1. NoJobLost'
        BY <1>a, <1>c, <2>a, <2>b, <2>c DEF NoJobLost, Finished, Present, Tracked
  <2>2. ClaimKept'
        BY <1>a, <1>c, <2>a DEF ClaimKept
  <2>3. LeftRunning'
    <3>1. \A i \in Jobs : Owned(i)' <=> Owned(i)
          BY <1>a, <2>a DEF Owned, OwningPoints
    <3> QED BY <1>c, <2>a, <2>c, <3>1 DEF LeftRunning
  <2> QED BY <2>1, <2>2, <2>3 DEF NoLoss
<1>14. ASSUME NEW w \in Workers, CompleteRem(w) PROVE NoLoss'
  <2>a. /\ pc[w] = "complete_rem" /\ pc' = [pc EXCEPT ![w] = "poll"]
        /\ cur[w] \in Jobs /\ w \in Procs
        /\ cur' = [cur EXCEPT ![w] = NoJob]
        /\ processing' = [processing EXCEPT ![cur[w]] = "out"]
        /\ UNCHANGED <<data, queue, dlq, batch, phase>>
        BY <1>14, <1>a, <1>b DEF CompleteRem, LocalOK
  <2>b. \A q \in Procs, i \in Jobs : Holds(q, i) /\ ~(q = w /\ i = cur[w]) => Holds(q, i)'
        BY <1>a, <2>a, HoldsDropped
  <2>c. /\ \A v \in Workers : cur[w] \notin batch[v]
        /\ \A q \in Procs \ {w} : cur[q] = cur[w] => pc[q] = "replay_rem"
        BY <1>b, <2>a, InHandAlone
  <2>d. data[cur[w]].status \in {"completed", "none"}
        BY <1>b, <2>a DEF HandOK
  <2>1. NoJobLost'
        BY <1>a, <1>c, <2>a, <2>b, <2>d DEF NoJobLost, Finished, Present, Tracked
  <2>2. ClaimKept'
        BY <1>a, <1>c, <2>a, <2>c DEF ClaimKept
  <2>3. LeftRunning'
    <3>1. \A i \in Jobs \ {cur[w]} : Owned(i) => Owned(i)'
          BY <1>a, <2>a DEF Owned
    <3> QED BY <1>a, <1>c, <2>a, <2>c, <2>d, <3>1 DEF LeftRunning
  <2> QED BY <2>1, <2>2, <2>3 DEF NoLoss
<1>15. ASSUME NEW w \in Workers, FailSet(w) PROVE NoLoss'
  <2>a. /\ pc[w] = "fail_set" /\ pc' = [pc EXCEPT ![w] = "fail_rem"]
        /\ cur[w] \in Jobs /\ w \in Procs
        /\ data' = [data EXCEPT ![cur[w]] =
                       Data(IF CanRetry(w) THEN "retrying" ELSE "failed", att[w])]
        /\ UNCHANGED <<queue, processing, dlq, cur, batch, phase>>
        BY <1>15, <1>a, <1>b DEF FailSet, LocalOK
  <2>b. \A q \in Procs, i \in Jobs : Holds(q, i)' <=> Holds(q, i)
        BY <1>a, <2>a, HoldsKept
  <2>c. /\ Holds(w, cur[w])
        /\ \A v \in Workers : cur[w] \notin batch[v]
        /\ \A q \in Procs \ {w} : cur[q] = cur[w] => pc[q] = "replay_rem"
        BY <1>b, <2>a, InHandAlone
  <2>1. NoJobLost'
        BY <1>a, <1>c, <2>a, <2>b, <2>c DEF NoJobLost, Finished, Present, Tracked
  <2>2. ClaimKept'
        BY <1>a, <1>c, <2>a, <2>c DEF ClaimKept
  <2>3. LeftRunning'
    <3>1. \A i \in Jobs : Owned(i) => Owned(i)'
          BY <1>a, <2>a DEF Owned, OwningPoints
    <3>2. Owned(cur[w])'
          BY <1>a, <2>a DEF Owned, OwningPoints
    <3> QED BY <1>a, <1>c, <2>a, <2>c, <3>1, <3>2 DEF LeftRunning, Data
  <2> QED BY <2>1, <2>2, <2>3 DEF NoLoss
<1>16. ASSUME NEW w \in Workers, FailRem(w) PROVE NoLoss'
  <2>a. /\ pc[w] = "fail_rem" /\ pc' = [pc EXCEPT ![w] = "fail_add"]
        /\ cur[w] \in Jobs /\ w \in Procs
        /\ processing' = [processing EXCEPT ![cur[w]] = "out"]
        /\ UNCHANGED <<data, queue, dlq, cur, batch, phase>>
        BY <1>16, <1>a, <1>b DEF FailRem, LocalOK
  <2>b. \A q \in Procs, i \in Jobs : Holds(q, i)' <=> Holds(q, i)
        BY <1>a, <2>a, HoldsKept
  <2>c. /\ Holds(w, cur[w])
        /\ \A v \in Workers : cur[w] \notin batch[v]
        /\ \A q \in Procs \ {w} : cur[q] = cur[w] => pc[q] = "replay_rem"
        BY <1>b, <2>a, InHandAlone
  <2>1. NoJobLost'
        BY <1>a, <1>c, <2>a, <2>b, <2>c DEF NoJobLost, Finished, Present, Tracked
  <2>2. ClaimKept'
        BY <1>a, <1>c, <2>a, <2>c DEF ClaimKept
  <2>3. LeftRunning'
    <3>1. \A i \in Jobs \ {cur[w]} : Owned(i) => Owned(i)'
          BY <1>a, <2>a DEF Owned
    <3> QED BY <1>a, <1>c, <2>a, <2>c, <3>1 DEF LeftRunning
  <2> QED BY <2>1, <2>2, <2>3 DEF NoLoss
<1>17. ASSUME NEW w \in Workers, FailAdd(w) PROVE NoLoss'
  <2>a. /\ pc[w] = "fail_add" /\ pc' = [pc EXCEPT ![w] = AfterJob(w)]
        /\ cur[w] \in Jobs /\ w \in Procs
        /\ cur' = [cur EXCEPT ![w] = NoJob]
        /\ UNCHANGED <<data, processing, batch, phase>>
        /\ AfterJob(w) \in {"poll", "reclaim_get"}
        BY <1>17, <1>a, <1>b DEF FailAdd, LocalOK, AfterJob
  <2>b. \A q \in Procs, i \in Jobs : Holds(q, i) /\ ~(q = w /\ i = cur[w]) => Holds(q, i)'
        BY <1>a, <2>a, HoldsDropped
  <2>c. /\ \A v \in Workers : cur[w] \notin batch[v]
        /\ \A q \in Procs \ {w} : cur[q] = cur[w] => pc[q] = "replay_rem"
        BY <1>b, <2>a, InHandAlone
  <2>d. /\ \A i \in Jobs \ {cur[w]} : queue'[i] = queue[i]
        /\ dlq \subseteq dlq'
        /\ queue'[cur[w]] # "out" \/ cur[w] \in dlq'
        BY <1>17, <1>a, <2>a DEF FailAdd
  <2>1. NoJobLost'
        BY <1>a, <1>c, <2>a, <2>b, <2>d DEF NoJobLost, Finished, Present, Tracked
  <2>2. ClaimKept'
        BY <1>a, <1>c, <2>a, <2>c DEF ClaimKept
  <2>3. LeftRunning'
    <3>1. \A i \in Jobs : Owned(i) => Owned(i)'
          BY <1>a, <2>a DEF Owned, OwningPoints
    <3> QED BY <1>a, <1>c, <2>a, <3>1 DEF LeftRunning
  <2> QED BY <2>1, <2>2, <2>3 DEF NoLoss
<1>18. ASSUME NEW w \in Workers, ReclaimClaim(w) PROVE NoLoss'
  <2>a. PICK B \in SUBSET Stale :
           /\ batch' = [batch EXCEPT ![w] = B]
           /\ processing' = [j \in Jobs |-> IF j \in B THEN "out" ELSE processing[j]]
        BY <1>18 DEF ReclaimClaim
  <2>b. /\ pc[w] = "poll" /\ pc' = [pc EXCEPT ![w] = "reclaim_get"] /\ w \in Procs
        /\ batch[w] = {}
        /\ UNCHANGED <<data, queue, dlq, cur, phase>>
        BY <1>18, <1>a, <1>b DEF ReclaimClaim, LocalOK
  <2>c. \A i \in B : i \in Jobs /\ processing[i] = "stale" /\ \A q \in Procs : ~Holds(q, i)
        BY <1>b, <2>a DEF Stale, CustodyOK
  <2>d. /\ \A q \in Procs, i \in Jobs : Holds(q, i) => Holds(q, i)'
        /\ \A i \in B : Holds(w, i)'
        BY <1>a, <2>a, <2>b DEF Holds
  <2>e. \A i \in B, v \in Workers : cur[v] = i => pc[v] \notin OwningPoints
        BY <2>c, OwnerHolds
  <2>1. NoJobLost'
        BY <1>a, <1>c, <2>a, <2>b, <2>d DEF NoJobLost, Finished, Present, Tracked
  <2>2. ClaimKept'
        BY <1>a, <1>b, <1>c, <2>a, <2>b, <2>e DEF ClaimKept, OwningPoints, LocalOK
  <2>3. LeftRunning'
    <3>1. \A i \in Jobs : Owned(i)' <=> Owned(i)
          BY <1>a, <2>b DEF Owned, OwningPoints
    <3>2. \A i \in B : data[i].status \in {"running", "completed", "none"}
          BY <1>c, <2>c, <2>e DEF LeftRunning, Owned
    <3> QED BY <1>a, <1>c, <2>a, <2>b, <3>1, <3>2 DEF LeftRunning
  <2> QED BY <2>1, <2>2, <2>3 DEF NoLoss
<1>19. ASSUME NEW w \in Workers, ReclaimGet(w) PROVE NoLoss'
  <2>a. PICK j \in batch[w] :
           /\ batch' = [batch EXCEPT ![w] = @ \ {j}]
           /\ \/ /\ data[j].status = "running"
                 /\ pc' = [pc EXCEPT ![w] = "fail_set"]
                 /\ cur' = [cur EXCEPT ![w] = j]
              \/ /\ data[j].status # "running"
                 /\ pc' = [pc EXCEPT ![w] = IF batch[w] = {j} THEN "poll" ELSE @]
                 /\ UNCHANGED cur
        BY <1>19 DEF ReclaimGet
  <2>b. /\ pc[w] = "reclaim_get" /\ w \in Procs /\ j \in Jobs /\ cur[w] = NoJob
        /\ UNCHANGED <<data, queue, processing, dlq, phase>>
        BY <1>19, <1>a, <1>b, <2>a DEF ReclaimGet, LocalOK
  <2>c. data[j].status \in {"running", "completed", "none"}
        BY <1>c, <2>a, <2>b DEF LeftRunning
  <2>d. /\ \A q \in Procs, i \in Jobs \ {j} : Holds(q, i) => Holds(q, i)'
        /\ data[j].status = "running" => Holds(w, j)'
        BY <1>a, <2>a, <2>b DEF Holds
  <2>1. NoJobLost'
        BY <1>a, <1>c, <2>b, <2>c, <2>d DEF NoJobLost, Finished, Present, Tracked
  <2>2. ClaimKept'
        BY <1>a, <1>c, <2>a, <2>b DEF ClaimKept
  <2>3. LeftRunning'
    <3>1. \A i \in Jobs : Owned(i) => Owned(i)'
          BY <1>a, <2>a, <2>b DEF Owned, OwningPoints
    <3>2. \A v \in Workers : batch'[v] \subseteq batch[v]
          BY <1>a, <2>a
    <3> QED BY <1>c, <2>b, <3>1, <3>2 DEF LeftRunning
  <2> QED BY <2>1, <2>2, <2>3 DEF NoLoss
<1>20. ASSUME NEW j \in Jobs, BecomeDue(j) PROVE NoLoss'
  <2>a. UNCHANGED <<dlq, pc, cur, batch, phase>>
        BY <1>20 DEF BecomeDue
  <2>b. \A q \in Procs, i \in Jobs : Holds(q, i)' <=> Holds(q, i)
        BY <2>a DEF Holds
  <2>c. /\ \A i \in Jobs : queue[i] # "out" => queue'[i] # "out"
        /\ UNCHANGED <<data, processing>>
        BY <1>20, <1>a DEF BecomeDue
  <2>1. NoJobLost'
        BY <1>c, <2>a, <2>b, <2>c DEF NoJobLost, Finished, Present, Tracked
  <2>2. ClaimKept'
        BY <1>c, <2>a, <2>c, <1>b, <1>a DEF ClaimKept, LocalOK
  <2>3. LeftRunning'
    <3>1. \A i \in Jobs : Owned(i)' <=> Owned(i)
          BY <2>a DEF Owned
    <3> QED BY <1>c, <2>a, <2>c, <3>1 DEF LeftRunning
  <2> QED BY <2>1, <2>2, <2>3 DEF NoLoss
<1>21. ASSUME NEW j \in Jobs, BecomeStale(j) PROVE NoLoss'
  <2>a. UNCHANGED <<dlq, pc, cur, batch, phase>>
        BY <1>21 DEF BecomeStale
  <2>b. \A q \in Procs, i \in Jobs : Holds(q, i)' <=> Holds(q, i)
        BY <2>a DEF Holds
  <2>c. /\ \A i \in Jobs : processing'[i] # "out" <=> processing[i] # "out"
        /\ UNCHANGED <<data, queue>>
        BY <1>21, <1>a DEF BecomeStale
  <2>1. NoJobLost'
        BY <1>c, <2>a, <2>b, <2>c DEF NoJobLost, Finished, Present, Tracked
  <2>2. ClaimKept'
        BY <1>c, <2>a, <2>c, <1>b, <1>a DEF ClaimKept, LocalOK
  <2>3. LeftRunning'
    <3>1. \A i \in Jobs : Owned(i)' <=> Owned(i)
          BY <2>a DEF Owned
    <3> QED BY <1>c, <2>a, <2>c, <3>1 DEF LeftRunning
  <2> QED BY <2>1, <2>2, <2>3 DEF NoLoss
<1>22. ASSUME NEW j \in Jobs, Expire(j) PROVE NoLoss'
  <2>a. UNCHANGED <<dlq, pc, cur, batch, phase>>
        BY <1>22 DEF Expire
  <2>b. \A q \in Procs, i \in Jobs : Holds(q, i)' <=> Holds(q, i)
        BY <2>a DEF Holds
  <2>c. /\ \A i \in Jobs : data'[i] = data[i] \/ data'[i].status = "none"
        /\ UNCHANGED <<queue, processing>>
        BY <1>22, <1>a DEF Expire, Data
  <2>1. NoJobLost'
        BY <1>c, <2>a, <2>b, <2>c DEF NoJobLost, Finished, Present, Tracked
  <2>2. ClaimKept'
        BY <1>c, <2>a, <2>c, <1>b, <1>a DEF ClaimKept, LocalOK
  <2>3. LeftRunning'
    <3>1. \A i \in Jobs : Owned(i)' <=> Owned(i)
          BY <2>a DEF Owned
    <3> QED BY <1>c, <2>a, <2>c, <3>1 DEF LeftRunning
  <2> QED BY <2>1, <2>2, <2>3 DEF NoLoss
<1>23. ASSUME NEW p \in Procs, Fault(p) PROVE NoLoss'
  <2>a. /\ pc[p] \in ClaimedPoints /\ p \in Workers
        /\ pc' = [pc EXCEPT ![p] = "poll"] /\ cur' = [cur EXCEPT ![p] = NoJob]
        /\ UNCHANGED <<data, queue, processing, dlq, phase>>
        BY <1>23, <1>b DEF Fault, ClaimedPoints, LocalOK, ClientPoints
  <2>b. batch[p] = {} /\ cur[p] \in Jobs /\ UNCHANGED batch
    <3>1. batch[p] = {} /\ cur[p] \in Jobs
          BY <1>a, <1>b, <2>a DEF LocalOK, ClaimedPoints
    <3> QED BY <1>23, <1>a, <2>a, <3>1 DEF Fault
  <2>c. \A q \in Procs, i \in Jobs : Holds(q, i) /\ ~(q = p /\ i = cur[p]) => Holds(q, i)'
        BY <1>a, <2>a, <2>b, HoldsDropped
  <2>d. /\ processing[cur[p]] # "out" \/ data[cur[p]].status \in {"completed", "none"}
        /\ data[cur[p]].status \in {"running", "completed", "none"}
        BY <1>b, <1>c, <2>a DEF HandOK, ClaimKept, ClaimedPoints
  <2>1. NoJobLost'
        BY <1>a, <1>c, <2>a, <2>b, <2>c, <2>d DEF NoJobLost, Finished, Present, Tracked
  <2>2. ClaimKept'
        BY <1>a, <1>c, <2>a DEF ClaimKept
  <2>3. LeftRunning'
    <3>1. \A i \in Jobs \ {cur[p]} : Owned(i) => Owned(i)'
          BY <1>a, <2>a DEF Owned
    <3> QED BY <1>c, <2>a, <2>b, <2>d, <3>1 DEF LeftRunning
  <2> QED BY <2>1, <2>2, <2>3 DEF NoLoss
<1>24. ASSUME NEW w \in Workers, Panic(w) PROVE NoLoss'
  <2>a. /\ pc[w] = "run" /\ cur[w] \in Jobs /\ w \in Procs
        /\ pc' = [pc EXCEPT ![w] = "dead"] /\ cur' = [cur EXCEPT ![w] = NoJob]
        /\ UNCHANGED <<data, queue, processing, dlq, batch, phase>>
        BY <1>24, <1>a, <1>b DEF Panic, LocalOK
  <2>b. \A q \in Procs, i \in Jobs : Holds(q, i) /\ ~(q = w /\ i = cur[w]) => Holds(q, i)'
        BY <1>a, <2>a, HoldsDropped
  <2>c. processing[cur[w]] # "out" /\ data[cur[w]].status = "running"
        BY <1>b, <1>c, <2>a DEF HandOK, ClaimKept
  <2>1. NoJobLost'
        BY <1>a, <1>c, <2>a, <2>b, <2>c DEF NoJobLost, Finished, Present, Tracked
  <2>2. ClaimKept'
        BY <1>a, <1>c, <2>a DEF ClaimKept
  <2>3. LeftRunning'
    <3>1. \A i \in Jobs \ {cur[w]} : Owned(i) => Owned(i)'
          BY <1>a, <2>a DEF Owned
    <3> QED BY <1>c, <2>a, <2>c, <3>1 DEF LeftRunning
  <2> QED BY <2>1, <2>2, <2>3 DEF NoLoss
<1>25. CASE UNCHANGED vars
      BY <1>25, <1>c DEF vars, NoLoss, NoJobLost, Finished, Present, Tracked, Holds, ClaimKept,
                         LeftRunning, Owned
<1> QED
      BY <1>1, <1>2, <1>3, <1>4, <1>5, <1>6, <1>7, <1>8, <1>9, <1>10, <1>11, <1>12,
         <1>13, <1>14, <1>15, <1>16, <1>17, <1>18, <1>19, <1>20, <1>21, <1>22, <1>23,
         <1>24, <1>25 DEF Next, Submit, ClientStep, JobStep

\* An accepted job is completed or still known to Redis or to a live task, for
\* any number of crashes and panics of workers that run or complete their job.
THEOREM NoJobIsLost ==
    ASSUME ~SlowWorkers, FaultPoints \subseteq ClaimedPoints
    PROVE  Spec => []NoJobLost
<1>1. Init => NoLoss
      BY DEF Init, NoLoss, NoJobLost, ClaimKept, LeftRunning
<1>2. Inv /\ Inv' /\ [Next]_vars /\ NoLoss => NoLoss'
      BY NoLossStep
<1>3. NoLoss => NoJobLost
      BY DEF NoLoss
<1> QED BY <1>1, <1>2, <1>3, InvHolds, PTL DEF Spec
=============================================================================
