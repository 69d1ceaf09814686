-------------------------- MODULE OrchestratorProofs -------------------------
(***************************************************************************)
(* Proofs about what the orchestrator keeps in Redis: the answer cache, for *)
(* any documents, keys, requests, listeners, times to live, changes and     *)
(* failures, the token usage, for any keys, queries, flushes, limits and    *)
(* faults, and the conversation sessions, for any sessions, calls, limits   *)
(* and faults.                                                              *)
(***************************************************************************)
EXTENDS AnswerCache, UsageMeter, SessionMemory, FiniteSetTheorems, SequenceTheorems, TLAPS

----------------------------------------------------------------------------
(* The answer cache.                                                       *)

\* Every step preserves type correctness.
LEMMA TypeOKStep ==
    ASSUME Inv, [Next]_vars
    PROVE  TypeOK'
<1> USE ConstantsAssumption DEF Inv, TypeOK, Uncited, NoExpiry, docVars, redis,
        requestVars, listenerVars, history, Cited, Nothing, Live, Invalidating
<1>1. ASSUME NEW d \in Docs, Delete(d) PROVE TypeOK'
      BY <1>1 DEF Delete
<1>2. ASSUME NEW d \in Docs, RequestReindex(d) PROVE TypeOK'
      BY <1>2 DEF RequestReindex, Deliver
<1>3. ASSUME NEW d \in Docs, Reindexed(d) PROVE TypeOK'
      BY <1>3 DEF Reindexed
<1>4. ASSUME NEW docs \in SUBSET Docs, PublishDeleted(docs) PROVE TypeOK'
      BY <1>4 DEF PublishDeleted, Deliver
<1>5. ASSUME NEW docs \in SUBSET Docs, PublishFails(docs) PROVE TypeOK'
      BY <1>5 DEF PublishFails
<1>6. ASSUME NEW r \in Requests, cache_check(r) PROVE TypeOK'
      BY <1>6 DEF cache_check
<1>7. ASSUME NEW r \in Requests, NEW docs \in SUBSET Docs, Retrieve(r, docs) PROVE TypeOK'
      BY <1>7 DEF Retrieve
<1>8. ASSUME NEW r \in Requests, Generate(r) PROVE TypeOK'
  <2>1. CASE Leave(r)
        BY <1>8, <2>1 DEF Generate, Leave
  <2>2. CASE pc' = [pc EXCEPT ![r] = "setex"] /\ UNCHANGED <<seen, todo, added, clean>>
        BY <1>8, <2>2 DEF Generate
  <2> QED BY <1>8, <2>1, <2>2 DEF Generate
<1>9. ASSUME NEW r \in Requests, SetEx(r) PROVE TypeOK'
      BY <1>9 DEF SetEx
<1>10. ASSUME NEW r \in Requests, Stored(r) PROVE TypeOK'
      BY <1>10 DEF Stored, Leave
<1>11. ASSUME NEW r \in Requests, NEW d \in Docs, SAdd(r, d) PROVE TypeOK'
      BY SMTT(30), <1>11 DEF SAdd
<1>12. ASSUME NEW r \in Requests, NEW d \in Docs, Renew(r, d) PROVE TypeOK'
      BY <1>12 DEF Renew
<1>13. ASSUME NEW r \in Requests, SetFails(r) PROVE TypeOK'
      BY <1>13 DEF SetFails, Leave
<1>14. ASSUME NEW l \in Listeners, Connect(l) PROVE TypeOK'
      BY <1>14 DEF Connect
<1>15. ASSUME NEW l \in Listeners, HandleMessage(l) PROVE TypeOK'
      BY <1>15 DEF HandleMessage
<1>16. ASSUME NEW l \in Listeners, NEW d \in Docs, ReadIndex(l, d) PROVE TypeOK'
      BY <1>16 DEF ReadIndex, Disturb
<1>17. ASSUME NEW l \in Listeners, NEW d \in Docs, NoneListed(l, d) PROVE TypeOK'
      BY <1>17 DEF NoneListed, NextDocument, Disturb
<1>18. ASSUME NEW l \in Listeners, DeleteAnswers(l) PROVE TypeOK'
      BY <1>18 DEF DeleteAnswers
<1>19. ASSUME NEW l \in Listeners, NEW d \in Docs, DeleteIndex(l, d) PROVE TypeOK'
      BY <1>19 DEF DeleteIndex, NextDocument
<1>20. ASSUME NEW l \in Listeners, NEW d \in Docs, InvalidationFails(l, d) PROVE TypeOK'
      BY <1>20 DEF InvalidationFails, NextDocument, Invalidating
<1>21. ASSUME NEW l \in Listeners, Disconnect(l) PROVE TypeOK'
      BY <1>21 DEF Disconnect
<1>22. ASSUME Tick PROVE TypeOK'
      BY <1>22 DEF Tick, Aged
<1>23. CASE UNCHANGED vars
      BY <1>23 DEF vars
<1> QED BY <1>1, <1>2, <1>3, <1>4, <1>5, <1>6, <1>7, <1>8,
           <1>9, <1>10, <1>11, <1>12, <1>13, <1>14, <1>15, <1>16,
           <1>17, <1>18, <1>19, <1>20, <1>21, <1>22, <1>23 DEF Next, RequestStep

\* Every step keeps the locals of each task in order.
LEMMA LocalOKStep ==
    ASSUME Inv, [Next]_vars
    PROVE  LocalOK'
<1> USE ConstantsAssumption DEF Inv, TypeOK, LocalOK, Uncited, NoExpiry, docVars, redis,
        requestVars, listenerVars, history, Cited, Nothing, Live, Invalidating
<1>1. ASSUME NEW d \in Docs, Delete(d) PROVE LocalOK'
      BY <1>1 DEF Delete
<1>2. ASSUME NEW d \in Docs, RequestReindex(d) PROVE LocalOK'
      BY <1>2 DEF RequestReindex, Deliver
<1>3. ASSUME NEW d \in Docs, Reindexed(d) PROVE LocalOK'
      BY <1>3 DEF Reindexed
<1>4. ASSUME NEW docs \in SUBSET Docs, PublishDeleted(docs) PROVE LocalOK'
      BY <1>4 DEF PublishDeleted, Deliver
<1>5. ASSUME NEW docs \in SUBSET Docs, PublishFails(docs) PROVE LocalOK'
      BY <1>5 DEF PublishFails
<1>6. ASSUME NEW r \in Requests, cache_check(r) PROVE LocalOK'
      BY <1>6 DEF cache_check
<1>7. ASSUME NEW r \in Requests, NEW docs \in SUBSET Docs, Retrieve(r, docs) PROVE LocalOK'
      BY SMTT(30), <1>7 DEF Retrieve
<1>8. ASSUME NEW r \in Requests, Generate(r) PROVE LocalOK'
  <2>1. CASE Leave(r)
        BY <1>8, <2>1 DEF Generate, Leave
  <2>2. CASE pc' = [pc EXCEPT ![r] = "setex"] /\ UNCHANGED <<seen, todo, added, clean>>
        BY <1>8, <2>2 DEF Generate
  <2> QED BY <1>8, <2>1, <2>2 DEF Generate
<1>9. ASSUME NEW r \in Requests, SetEx(r) PROVE LocalOK'
      BY <1>9 DEF SetEx
<1>10. ASSUME NEW r \in Requests, Stored(r) PROVE LocalOK'
      BY <1>10 DEF Stored, Leave
<1>11. ASSUME NEW r \in Requests, NEW d \in Docs, SAdd(r, d) PROVE LocalOK'
      BY <1>11 DEF SAdd
<1>12. ASSUME NEW r \in Requests, NEW d \in Docs, Renew(r, d) PROVE LocalOK'
      BY SMTT(30), <1>12 DEF Renew
<1>13. ASSUME NEW r \in Requests, SetFails(r) PROVE LocalOK'
      BY <1>13 DEF SetFails, Leave
<1>14. ASSUME NEW l \in Listeners, Connect(l) PROVE LocalOK'
      BY <1>14 DEF Connect
<1>15. ASSUME NEW l \in Listeners, HandleMessage(l) PROVE LocalOK'
      BY <1>15 DEF HandleMessage
<1>16. ASSUME NEW l \in Listeners, NEW d \in Docs, ReadIndex(l, d) PROVE LocalOK'
      BY SMTT(30), <1>16 DEF ReadIndex, Disturb
<1>17. ASSUME NEW l \in Listeners, NEW d \in Docs, NoneListed(l, d) PROVE LocalOK'
      BY <1>17 DEF NoneListed, NextDocument, Disturb
<1>18. ASSUME NEW l \in Listeners, DeleteAnswers(l) PROVE LocalOK'
      BY <1>18 DEF DeleteAnswers
<1>19. ASSUME NEW l \in Listeners, NEW d \in Docs, DeleteIndex(l, d) PROVE LocalOK'
      BY <1>19 DEF DeleteIndex, NextDocument
<1>20. ASSUME NEW l \in Listeners, NEW d \in Docs, InvalidationFails(l, d) PROVE LocalOK'
      BY <1>20 DEF InvalidationFails, NextDocument, Invalidating
<1>21. ASSUME NEW l \in Listeners, Disconnect(l) PROVE LocalOK'
      BY <1>21 DEF Disconnect
<1>22. ASSUME Tick PROVE LocalOK'
      BY <1>22 DEF Tick, Aged
<1>23. CASE UNCHANGED vars
      BY <1>23 DEF vars
<1> QED BY <1>1, <1>2, <1>3, <1>4, <1>5, <1>6, <1>7, <1>8,
           <1>9, <1>10, <1>11, <1>12, <1>13, <1>14, <1>15, <1>16,
           <1>17, <1>18, <1>19, <1>20, <1>21, <1>22, <1>23 DEF Next, RequestStep

\* Every step keeps the histories below the versions.
LEMMA DataOKStep ==
    ASSUME Inv, [Next]_vars
    PROVE  DataOK'
<1> USE ConstantsAssumption DEF Inv, TypeOK, DataOK, Uncited, NoExpiry, docVars, redis,
        requestVars, listenerVars, history, Cited, Nothing, Live, Invalidating
<1>1. ASSUME NEW d \in Docs, Delete(d) PROVE DataOK'
      BY <1>1 DEF Delete
<1>2. ASSUME NEW d \in Docs, RequestReindex(d) PROVE DataOK'
      BY <1>2 DEF RequestReindex, Deliver
<1>3. ASSUME NEW d \in Docs, Reindexed(d) PROVE DataOK'
      BY <1>3 DEF Reindexed
<1>4. ASSUME NEW docs \in SUBSET Docs, PublishDeleted(docs) PROVE DataOK'
      BY <1>4 DEF PublishDeleted, Deliver
<1>5. ASSUME NEW docs \in SUBSET Docs, PublishFails(docs) PROVE DataOK'
      BY <1>5 DEF PublishFails
<1>6. ASSUME NEW r \in Requests, cache_check(r) PROVE DataOK'
      BY <1>6 DEF cache_check
<1>7. ASSUME NEW r \in Requests, NEW docs \in SUBSET Docs, Retrieve(r, docs) PROVE DataOK'
      BY <1>7 DEF Retrieve
<1>8. ASSUME NEW r \in Requests, Generate(r) PROVE DataOK'
  <2>1. CASE Leave(r)
        BY <1>8, <2>1 DEF Generate, Leave
  <2>2. CASE pc' = [pc EXCEPT ![r] = "setex"] /\ UNCHANGED <<seen, todo, added, clean>>
        BY <1>8, <2>2 DEF Generate
  <2> QED BY <1>8, <2>1, <2>2 DEF Generate
<1>9. ASSUME NEW r \in Requests, SetEx(r) PROVE DataOK'
      BY <1>9 DEF SetEx
<1>10. ASSUME NEW r \in Requests, Stored(r) PROVE DataOK'
      BY <1>10 DEF Stored, Leave
<1>11. ASSUME NEW r \in Requests, NEW d \in Docs, SAdd(r, d) PROVE DataOK'
      BY <1>11 DEF SAdd
<1>12. ASSUME NEW r \in Requests, NEW d \in Docs, Renew(r, d) PROVE DataOK'
      BY <1>12 DEF Renew
<1>13. ASSUME NEW r \in Requests, SetFails(r) PROVE DataOK'
      BY <1>13 DEF SetFails, Leave
<1>14. ASSUME NEW l \in Listeners, Connect(l) PROVE DataOK'
      BY <1>14 DEF Connect
<1>15. ASSUME NEW l \in Listeners, HandleMessage(l) PROVE DataOK'
      BY <1>15 DEF HandleMessage
<1>16. ASSUME NEW l \in Listeners, NEW d \in Docs, ReadIndex(l, d) PROVE DataOK'
      BY <1>16 DEF ReadIndex, Disturb
<1>17. ASSUME NEW l \in Listeners, NEW d \in Docs, NoneListed(l, d) PROVE DataOK'
      BY <1>17 DEF NoneListed, NextDocument, Disturb
<1>18. ASSUME NEW l \in Listeners, DeleteAnswers(l) PROVE DataOK'
      BY <1>18 DEF DeleteAnswers
<1>19. ASSUME NEW l \in Listeners, NEW d \in Docs, DeleteIndex(l, d) PROVE DataOK'
      BY <1>19 DEF DeleteIndex, NextDocument
<1>20. ASSUME NEW l \in Listeners, NEW d \in Docs, InvalidationFails(l, d) PROVE DataOK'
      BY <1>20 DEF InvalidationFails, NextDocument, Invalidating
<1>21. ASSUME NEW l \in Listeners, Disconnect(l) PROVE DataOK'
      BY <1>21 DEF Disconnect
<1>22. ASSUME Tick PROVE DataOK'
      BY <1>22 DEF Tick, Aged
<1>23. CASE UNCHANGED vars
      BY <1>23 DEF vars
<1> QED BY <1>1, <1>2, <1>3, <1>4, <1>5, <1>6, <1>7, <1>8,
           <1>9, <1>10, <1>11, <1>12, <1>13, <1>14, <1>15, <1>16,
           <1>17, <1>18, <1>19, <1>20, <1>21, <1>22, <1>23 DEF Next, RequestStep

\* Every step keeps what is known of an undisturbed request; the steps that
\* begin an invalidation, or lose an index, disturb whom they concern.
LEMMA CleanOKStep ==
    ASSUME Inv, [Next]_vars
    PROVE  CleanOK'
<1> USE ConstantsAssumption DEF Inv, TypeOK, CleanOK, Uncited, NoExpiry, docVars, redis,
        requestVars, listenerVars, history, Cited, Nothing, Live, Invalidating
<1>1. ASSUME NEW d \in Docs, Delete(d) PROVE CleanOK'
      BY <1>1 DEF Delete
<1>2. ASSUME NEW d \in Docs, RequestReindex(d) PROVE CleanOK'
      BY <1>2 DEF RequestReindex, Deliver
<1>3. ASSUME NEW d \in Docs, Reindexed(d) PROVE CleanOK'
      BY <1>3 DEF Reindexed
<1>4. ASSUME NEW docs \in SUBSET Docs, PublishDeleted(docs) PROVE CleanOK'
      BY <1>4 DEF PublishDeleted, Deliver
<1>5. ASSUME NEW docs \in SUBSET Docs, PublishFails(docs) PROVE CleanOK'
      BY <1>5 DEF PublishFails
<1>6. ASSUME NEW r \in Requests, cache_check(r) PROVE CleanOK'
  <2>1. Cited(seen[r]) = {}
        BY <1>6 DEF cache_check, LocalOK
  <2>2. ASSUME NEW q \in clean', NEW d \in Cited(seen[q])
        PROVE  q \in clean /\ q # r /\ pc'[q] = pc[q]
        BY <1>6, <2>1, <2>2 DEF cache_check
  <2> QED BY <1>6, <2>2 DEF cache_check
<1>7. ASSUME NEW r \in Requests, NEW docs \in SUBSET Docs, Retrieve(r, docs) PROVE CleanOK'
  <2>1. /\ clean' \subseteq clean /\ pc[r] = "retrieval"
        /\ UNCHANGED <<version, redis, pc, todo, added, listenerVars, told>>
        /\ seen' = [seen EXCEPT ![r] =
                      [d \in Docs |-> IF d \in docs THEN version[d] ELSE seen[r][d]]]
        BY <1>7 DEF Retrieve
  <2>2. ASSUME NEW q \in clean', NEW d \in Docs, seen'[q][d] # Uncited
        PROVE  seen'[q][d] >= told[d] /\ \A l \in Listeners : ~Invalidating(l, d)
    <3>1. CASE q # r \/ d \notin docs
          BY <2>1, <2>2, <3>1
    <3>2. CASE q = r /\ d \in docs
      <4>1. \A l \in Listeners : ~Invalidating(l, d)
            BY <1>7, <2>2, <3>2 DEF Retrieve
      <4>2. seen'[q][d] = version[d]
            BY <2>1, <3>2
      <4> QED BY <4>1, <4>2 DEF DataOK
    <3> QED BY <3>1, <3>2
  <2>3. ASSUME NEW q \in clean', pc[q] \in {"sadd", "expire"}
        PROVE  q \in clean /\ seen'[q] = seen[q]
        BY <2>1, <2>3
  <2> QED BY <2>1, <2>2, <2>3
<1>8. ASSUME NEW r \in Requests, Generate(r) PROVE CleanOK'
  <2>1. CASE Leave(r)
        BY <1>8, <2>1 DEF Generate, Leave
  <2>2. CASE pc' = [pc EXCEPT ![r] = "setex"] /\ UNCHANGED <<seen, todo, added, clean>>
        BY <1>8, <2>2 DEF Generate
  <2> QED BY <1>8, <2>1, <2>2 DEF Generate
<1>9. ASSUME NEW r \in Requests, SetEx(r) PROVE CleanOK'
  <2>1. ASSUME NEW q \in clean', q # r PROVE q \in clean /\ Query[q] # Query[r]
        BY <1>9, <2>1 DEF SetEx
  <2>2. /\ answer' = [answer EXCEPT ![Query[r]] = seen[r]]
        /\ left' = [left EXCEPT ![Query[r]] = Ttl]
        /\ pc' = [pc EXCEPT ![r] = "sadd"]
        /\ todo' = [todo EXCEPT ![r] = Cited(seen[r])]
        /\ clean' \subseteq clean
        /\ UNCHANGED <<index, indexLeft, seen, added, listenerVars, told>>
        BY <1>9 DEF SetEx
  <2>3. ASSUME NEW q \in clean', q # r, pc'[q] \in {"sadd", "expire"}, left'[Query[q]] > 0
        PROVE  /\ answer'[Query[q]] = seen[q]
               /\ \A e \in Cited(seen[q]) \ todo'[q] : Query[q] \in index[e]
               /\ \A e \in Cited(seen[q]) \ (todo'[q] \cup added[q]) :
                       indexLeft[e] >= left'[Query[q]]
        BY <2>1, <2>2, <2>3
  <2>4. answer'[Query[r]] = seen[r] /\ Cited(seen[r]) \ todo'[r] = {}
        BY <2>2
  <2> QED BY <2>2, <2>3, <2>4
<1>10. ASSUME NEW r \in Requests, Stored(r) PROVE CleanOK'
      BY <1>10 DEF Stored, Leave
<1>11. ASSUME NEW r \in Requests, NEW d \in Docs, SAdd(r, d) PROVE CleanOK'
  <2>1. UNCHANGED <<answer, left, seen, listenerVars, history>>
        BY <1>11 DEF SAdd
  <2>2. ASSUME NEW q \in clean, pc'[q] \in {"sadd", "expire"}, Live(Query[q])
        PROVE  /\ answer[Query[q]] = seen[q]
               /\ \A e \in Cited(seen[q]) \ todo'[q] : Query[q] \in index'[e]
               /\ \A e \in Cited(seen[q]) \ (todo'[q] \cup added'[q]) :
                       indexLeft'[e] >= left[Query[q]]
    <3>1. CASE q = r
          BY <1>11, <2>2, <3>1 DEF SAdd, LocalOK
    <3>2. CASE q # r
          BY SMTT(30), <1>11, <2>2, <3>2 DEF SAdd
    <3> QED BY <3>1, <3>2
  <2> QED BY <2>1, <2>2
<1>12. ASSUME NEW r \in Requests, NEW d \in Docs, Renew(r, d) PROVE CleanOK'
  <2>1. UNCHANGED <<answer, left, seen, listenerVars, history>>
        BY <1>12 DEF Renew
  <2>2. ASSUME NEW q \in clean, pc'[q] \in {"sadd", "expire"}, Live(Query[q])
        PROVE  /\ answer[Query[q]] = seen[q]
               /\ \A e \in Cited(seen[q]) \ todo'[q] : Query[q] \in index'[e]
               /\ \A e \in Cited(seen[q]) \ (todo'[q] \cup added'[q]) :
                       indexLeft'[e] >= left[Query[q]]
    <3>1. CASE q = r
          BY SMTT(30), <1>12, <2>2, <3>1 DEF Renew, LocalOK
    <3>2. CASE q # r
          BY SMTT(30), <1>12, <2>2, <3>2 DEF Renew
    <3> QED BY <3>1, <3>2
  <2> QED BY <2>1, <2>2
<1>13. ASSUME NEW r \in Requests, SetFails(r) PROVE CleanOK'
      BY <1>13 DEF SetFails, Leave
<1>14. ASSUME NEW l \in Listeners, Connect(l) PROVE CleanOK'
      BY <1>14 DEF Connect
<1>15. ASSUME NEW l \in Listeners, HandleMessage(l) PROVE CleanOK'
      BY <1>15 DEF HandleMessage
<1>16. ASSUME NEW l \in Listeners, NEW d \in Docs, ReadIndex(l, d) PROVE CleanOK'
      BY SMTT(30), <1>16 DEF ReadIndex, Disturb
<1>17. ASSUME NEW l \in Listeners, NEW d \in Docs, NoneListed(l, d) PROVE CleanOK'
      BY SMTT(30), <1>17 DEF NoneListed, NextDocument, Disturb
<1>18. ASSUME NEW l \in Listeners, DeleteAnswers(l) PROVE CleanOK'
      BY <1>18 DEF DeleteAnswers
<1>19. ASSUME NEW l \in Listeners, NEW d \in Docs, DeleteIndex(l, d) PROVE CleanOK'
  <2>1. /\ index' = [index EXCEPT ![d] = {}]
        /\ indexLeft' = [indexLeft EXCEPT ![d] = 0]
        /\ \A e \in Docs \ {d} : told'[e] = told[e]
        /\ UNCHANGED <<answer, left, requestVars, clean>>
        BY <1>19 DEF DeleteIndex
  <2>2. \A q \in clean : d \notin Cited(seen[q])
        BY <1>19 DEF DeleteIndex
  <2>3. \A i \in Listeners, e \in Docs : Invalidating(i, e)' => Invalidating(i, e)
        BY <1>19 DEF DeleteIndex, NextDocument
  <2>4. ASSUME NEW q \in clean, NEW e \in Docs, e \in Cited(seen[q])
        PROVE  /\ \A i \in Listeners : ~Invalidating(i, e)'
               /\ index'[e] = index[e] /\ indexLeft'[e] = indexLeft[e]
               /\ told'[e] = told[e]
    <3>1. e # d
          BY <2>2, <2>4
    <3>2. \A i \in Listeners : ~Invalidating(i, e)
          BY <2>4
    <3> QED BY <2>1, <2>3, <3>1, <3>2
  <2> QED BY SMTT(30), <2>1, <2>4
<1>20. ASSUME NEW l \in Listeners, NEW d \in Docs, InvalidationFails(l, d) PROVE CleanOK'
      BY <1>20 DEF InvalidationFails, NextDocument, Invalidating
<1>21. ASSUME NEW l \in Listeners, Disconnect(l) PROVE CleanOK'
      BY <1>21 DEF Disconnect
<1>22. ASSUME Tick PROVE CleanOK'
  <2>1. /\ clean' = {r \in clean : \A d \in added[r] : indexLeft[d] # 1}
        /\ UNCHANGED <<docVars, requestVars, listenerVars, told>>
        BY <1>22 DEF Tick
  <2>2. ASSUME NEW q \in clean', pc[q] \in {"sadd", "expire"}, left'[Query[q]] > 0
        PROVE  /\ answer'[Query[q]] = seen[q]
               /\ \A e \in Cited(seen[q]) \ todo[q] : Query[q] \in index'[e]
               /\ \A e \in Cited(seen[q]) \ (todo[q] \cup added[q]) :
                       indexLeft'[e] >= left'[Query[q]]
    <3>1. /\ left[Query[q]] > 1 /\ left'[Query[q]] = left[Query[q]] - 1
          /\ answer'[Query[q]] = answer[Query[q]]
          BY <1>22, <2>1, <2>2 DEF Tick, Aged
    <3>0. answer[Query[q]] = seen[q]
          BY <2>1, <2>2, <3>1
    <3>2. ASSUME NEW e \in Docs, e \in Cited(seen[q]), e \notin todo[q]
          PROVE  /\ Query[q] \in index'[e]
                 /\ e \notin added[q] => indexLeft'[e] >= left'[Query[q]]
      <4>0. /\ \A f \in Cited(seen[q]) \ todo[q] : Query[q] \in index[f]
            /\ \A f \in Cited(seen[q]) \ (todo[q] \cup added[q]) :
                    indexLeft[f] >= left[Query[q]]
        <5>1. CleanOK /\ q \in clean /\ Live(Query[q])
              BY <2>1, <2>2, <3>1
        <5> HIDE DEF Cited, Inv, TypeOK
        <5> QED BY <2>2, <5>1
      <4>1. /\ Query[q] \in index[e]
            /\ e \notin added[q] => indexLeft[e] >= left[Query[q]]
            BY <3>2, <4>0
      <4>2. indexLeft[e] \in Nat /\ indexLeft[e] # 0 /\ indexLeft[e] # 1
            BY <2>1, <2>2, <3>1, <3>2, <4>1 DEF DataOK
      <4>3. index'[e] = index[e] /\ indexLeft'[e] \in {indexLeft[e], indexLeft[e] - 1}
            BY <1>22, <4>2 DEF Tick, Aged
      <4> QED BY <3>1, <4>1, <4>2, <4>3
    <3> QED BY <3>0, <3>1, <3>2
  <2> QED BY <2>1, <2>2
<1>23. CASE UNCHANGED vars
      BY <1>23 DEF vars
<1> QED BY <1>1, <1>2, <1>3, <1>4, <1>5, <1>6, <1>7, <1>8,
           <1>9, <1>10, <1>11, <1>12, <1>13, <1>14, <1>15, <1>16,
           <1>17, <1>18, <1>19, <1>20, <1>21, <1>22, <1>23 DEF Next, RequestStep

\* Every step keeps an undisturbed answer listed, or removes it.
LEMMA SoundOKStep ==
    ASSUME Inv, [Next]_vars
    PROVE  SoundOK'
<1> USE ConstantsAssumption DEF Inv, TypeOK, SoundOK, Uncited, NoExpiry, docVars, redis,
        requestVars, listenerVars, history, Cited, Nothing, Live, Invalidating
<1>1. ASSUME NEW d \in Docs, Delete(d) PROVE SoundOK'
      BY <1>1 DEF Delete
<1>2. ASSUME NEW d \in Docs, RequestReindex(d) PROVE SoundOK'
      BY <1>2 DEF RequestReindex, Deliver
<1>3. ASSUME NEW d \in Docs, Reindexed(d) PROVE SoundOK'
      BY <1>3 DEF Reindexed
<1>4. ASSUME NEW docs \in SUBSET Docs, PublishDeleted(docs) PROVE SoundOK'
      BY <1>4 DEF PublishDeleted, Deliver
<1>5. ASSUME NEW docs \in SUBSET Docs, PublishFails(docs) PROVE SoundOK'
      BY <1>5 DEF PublishFails
<1>6. ASSUME NEW r \in Requests, cache_check(r) PROVE SoundOK'
      BY <1>6 DEF cache_check
<1>7. ASSUME NEW r \in Requests, NEW docs \in SUBSET Docs, Retrieve(r, docs) PROVE SoundOK'
      BY <1>7 DEF Retrieve
<1>8. ASSUME NEW r \in Requests, Generate(r) PROVE SoundOK'
  <2>1. CASE Leave(r)
        BY <1>8, <2>1 DEF Generate, Leave
  <2>2. CASE pc' = [pc EXCEPT ![r] = "setex"] /\ UNCHANGED <<seen, todo, added, clean>>
        BY <1>8, <2>2 DEF Generate
  <2> QED BY <1>8, <2>1, <2>2 DEF Generate
<1>9. ASSUME NEW r \in Requests, SetEx(r) PROVE SoundOK'
      BY <1>9 DEF SetEx
<1>10. ASSUME NEW r \in Requests, Stored(r) PROVE SoundOK'
  <2> SUFFICES ASSUME NEW k \in sound', Live(k), NEW d \in Cited(answer[k])
               PROVE  /\ k \in index[d] /\ indexLeft[d] >= left[k]
                      /\ answer[k][d] >= told[d]
                      /\ \A l \in Listeners : Invalidating(l, d) => lpc[l] = "keys" /\ k \in found[l]
      BY <1>10 DEF Stored, Leave
  <2>1. CASE k \in sound
        BY <2>1
  <2>2. CASE k \notin sound
    <3>1. k = Query[r] /\ r \in clean /\ pc[r] = "sadd" /\ todo[r] = {}
          BY <1>10, <2>2 DEF Stored
    <3>2. answer[k] = seen[r] /\ added[r] = {}
          BY <3>1 DEF CleanOK, LocalOK
    <3>3. d \in Docs /\ d \in Cited(seen[r]) /\ d \notin todo[r] \cup added[r]
          BY <3>1, <3>2
    <3>4. /\ \A l \in Listeners : ~Invalidating(l, d)
          /\ seen[r][d] >= told[d]
          BY <3>1, <3>3 DEF CleanOK
    <3>5. k \in index[d] /\ indexLeft[d] >= left[k]
      <4> HIDE DEF Cited
      <4> QED BY <3>1, <3>3 DEF CleanOK
    <3> HIDE DEF Invalidating
    <3> QED BY <3>2, <3>4, <3>5
  <2> QED BY <2>1, <2>2
<1>11. ASSUME NEW r \in Requests, NEW d \in Docs, SAdd(r, d) PROVE SoundOK'
      BY <1>11 DEF SAdd
<1>12. ASSUME NEW r \in Requests, NEW d \in Docs, Renew(r, d) PROVE SoundOK'
      BY <1>12 DEF Renew
<1>13. ASSUME NEW r \in Requests, SetFails(r) PROVE SoundOK'
      BY <1>13 DEF SetFails, Leave
<1>14. ASSUME NEW l \in Listeners, Connect(l) PROVE SoundOK'
      BY <1>14 DEF Connect
<1>15. ASSUME NEW l \in Listeners, HandleMessage(l) PROVE SoundOK'
      BY <1>15 DEF HandleMessage
<1>16. ASSUME NEW l \in Listeners, NEW d \in Docs, ReadIndex(l, d) PROVE SoundOK'
      BY SMTT(30), <1>16 DEF ReadIndex, Disturb
<1>17. ASSUME NEW l \in Listeners, NEW d \in Docs, NoneListed(l, d) PROVE SoundOK'
      BY <1>17 DEF NoneListed, NextDocument, Disturb
<1>18. ASSUME NEW l \in Listeners, DeleteAnswers(l) PROVE SoundOK'
      BY <1>18 DEF DeleteAnswers
<1>19. ASSUME NEW l \in Listeners, NEW d \in Docs, DeleteIndex(l, d) PROVE SoundOK'
      BY <1>19 DEF DeleteIndex, NextDocument
<1>20. ASSUME NEW l \in Listeners, NEW d \in Docs, InvalidationFails(l, d) PROVE SoundOK'
      BY <1>20 DEF InvalidationFails, NextDocument, Invalidating
<1>21. ASSUME NEW l \in Listeners, Disconnect(l) PROVE SoundOK'
      BY <1>21 DEF Disconnect
<1>22. ASSUME Tick PROVE SoundOK'
      BY <1>22 DEF Tick, Aged
<1>23. CASE UNCHANGED vars
      BY <1>23 DEF vars
<1> QED BY <1>1, <1>2, <1>3, <1>4, <1>5, <1>6, <1>7, <1>8,
           <1>9, <1>10, <1>11, <1>12, <1>13, <1>14, <1>15, <1>16,
           <1>17, <1>18, <1>19, <1>20, <1>21, <1>22, <1>23 DEF Next, RequestStep

\* Nothing is cached, asked or known at the start.
LEMMA InvInit == Init => Inv
BY ConstantsAssumption DEF Init, Inv, TypeOK, LocalOK, DataOK, CleanOK, SoundOK, Uncited,
   NoExpiry, Nothing, Cited, Invalidating

\* The inductive invariant: an answer that no invalidation disturbed stays listed
\* in Redis under its documents for as long as it lives.
THEOREM InvHolds == Spec => []Inv
<1>1. Inv /\ [Next]_vars => Inv'
      BY TypeOKStep, LocalOKStep, DataOKStep, CleanOKStep, SoundOKStep DEF Inv
<1> QED BY InvInit, <1>1, PTL DEF Spec

\* Type correctness of the cache, its requests and its listeners.
THEOREM TypeCorrect == Spec => []TypeOK
<1>1. Inv => TypeOK
      BY DEF Inv
<1> QED BY InvHolds, <1>1, PTL

\* The index finds every live answer that was stored undisturbed.
THEOREM IndexFinds == Spec => []Reachable
<1>1. Inv => Reachable
      BY DEF Inv, SoundOK, Reachable
<1> QED BY InvHolds, <1>1, PTL

\* No such answer was built from a version replaced before the last full
\* invalidation of its document.
THEOREM InvalidationEffective == Spec => []NotOlderThanTold
<1>1. Inv => NotOlderThanTold
      BY DEF Inv, SoundOK, NotOlderThanTold
<1> QED BY InvHolds, <1>1, PTL

----------------------------------------------------------------------------
(* The token usage.                                                        *)

\* The states of a flush and of a query.
FlushStates ==
    [at : {"idle", "scan", "delete"}, rest : SUBSET UsageKeys, open : SUBSET UsageKeys,
     got : Tally, doomed : SUBSET UsageKeys, broken : BOOLEAN]
MeterStates ==
    [at : {"idle", "check", "run", "refused", "prompt", "done"}, rest : SUBSET UsageKeys,
     seen : Tally, start : Tally, missed : BOOLEAN]

\* The types, and what the stages of a flush say of its keys.
CountersOK ==
    /\ counter \in Tally /\ present \subseteq UsageKeys /\ billed \in Tally /\ used \in Tally
    /\ lossy \subseteq UsageKeys /\ doubled \subseteq UsageKeys
FlushesOK == flush \in [Flushers -> FlushStates]
MetersOK == query \in [Meters -> MeterStates]
HeldOK ==
    \A f \in Flushers :
        /\ flush[f].at = "idle" => Held(f) = {}
        /\ flush[f].at = "delete" => flush[f].open = {}
        /\ flush[f].rest \cap Held(f) = {} /\ flush[f].open \cap flush[f].doomed = {}

UsageTypeOK == CountersOK /\ FlushesOK /\ MetersOK /\ HeldOK

\* Flush f has yet to commit key k, or has committed it and will delete it.
Reading(f, k) == flush[f].at = "scan" /\ k \in Held(f)
Dropping(f, k) == flush[f].at = "delete" /\ k \in Held(f)

\* What the table and the counter hold of key k, and what they will hold if a
\* flush goes on: no less than was recorded.
NothingLost ==
    \A k \in UsageKeys \ lossy :
        /\ billed[k] + counter[k] >= used[k]
        /\ \A f \in Flushers :
            /\ Reading(f, k) => billed[k] + flush[f].got[k] >= used[k]
            /\ Reading(f, k) /\ k \in flush[f].doomed /\ flush[f].broken => flush[f].got[k] = 0
            /\ Dropping(f, k) => billed[k] >= used[k]

\* And no more: only one flush holds the key.
NothingTwice ==
    \A k \in UsageKeys \ doubled :
        /\ \A f, g \in Flushers : k \in Held(f) /\ k \in Held(g) => f = g
        /\ (\A f \in Flushers : ~Dropping(f, k)) => billed[k] + counter[k] <= used[k]
        /\ \A f \in Flushers :
            /\ Reading(f, k) => billed[k] + flush[f].got[k] <= used[k]
            /\ Dropping(f, k) =>
                /\ billed[k] <= used[k]
                /\ billed[k] + counter[k] <= used[k] + flush[f].got[k]

\* What a check has counted of a key, and what it will count of it, is no less
\* than was recorded when it began.
ChecksOK ==
    /\ \A k \in UsageKeys \ present : counter[k] = 0
    /\ \A r \in Meters : query[r].at = "check" /\ ~query[r].missed =>
        \A k \in UsageKeys \ lossy :
            query[r].seen[k] + (IF k \in query[r].rest THEN counter[k] ELSE 0)
                >= query[r].start[k]

UsageInv == UsageTypeOK /\ NothingLost /\ NothingTwice /\ ChecksOK

\* Counts stay counts.
LEMMA TallyUpdate ==
    ASSUME NEW t \in Tally, NEW k \in UsageKeys, NEW n \in Nat
    PROVE  [t EXCEPT ![k] = n] \in Tally
BY DEF Tally

\* The count of a key.
LEMMA TallyAt == ASSUME NEW t \in Tally, NEW k \in UsageKeys PROVE t[k] \in Nat
BY DEF Tally

\* A flush that has not begun.
LEMMA NoTokensType == NoTokens \in Tally /\ IdleFlush \in FlushStates
BY DEF NoTokens, Tally, IdleFlush, FlushStates

\* What a query records.
LEMMA TokensType == \A n \in TokenCounts : n \in Nat
BY UsageAssumption

\* The counters, the table and the histories keep their types.
LEMMA CountersStep ==
    ASSUME UsageTypeOK, [UsageNext]_countVars
    PROVE  CountersOK'
<1> USE DEF UsageTypeOK, CountersOK
<1>1. ASSUME NEW r \in Meters, CheckQuota(r) \/ CountFails(r) \/ Decide(r) \/ QueryEnds(r)
      PROVE  CountersOK'
  BY <1>1 DEF CheckQuota, CountFails, Decide, QueryEnds
<1>2. ASSUME NEW r \in Meters, NEW k \in UsageKeys, CountKey(r, k) PROVE CountersOK'
  BY <1>2 DEF CountKey
<1>3. ASSUME NEW r \in Meters, NEW k \in UsageKeys, NEW n \in TokenCounts,
             RecordPrompt(r, k, n) \/ RecordCompletion(r, k, n)
      PROVE  CountersOK'
  <2>1. counter[k] + n \in Nat /\ used[k] + n \in Nat
    BY TallyAt, TokensType
  <2> QED
    BY <1>3, <2>1, TallyUpdate DEF RecordPrompt, RecordCompletion, Increment
<1>4. ASSUME NEW f \in Flushers, NEW k \in UsageKeys, FlushKey(f, k) PROVE CountersOK'
  <2>1. [counter EXCEPT ![k] = 0] \in Tally
    BY TallyUpdate
  <2>2. FlushesOK
    OBVIOUS
  <2> QED
    BY <1>4, <2>1, <2>2
       DEF FlushKey, ReadKey, ReadFails, AddToRow, RowFails, DeleteCounter, DropFails, Vanish,
           FlushesOK, FlushStates
<1>5. ASSUME NEW f \in Flushers, CommitFlush(f) PROVE CountersOK'
  <2>1. ASSUME NEW k \in UsageKeys PROVE billed[k] \in Nat /\ billed[k] + flush[f].got[k] \in Nat
    BY TallyAt DEF FlushesOK, FlushStates
  <2> QED
    BY <1>5, <2>1 DEF CommitFlush, Tally
<1>6. ASSUME NEW f \in Flushers, StartFlush(f) \/ FlushStops(f) PROVE CountersOK'
  BY <1>6 DEF StartFlush, FlushStops, FlushesOK, FlushStates
<1>7. ASSUME NEW k \in UsageKeys, ExpireKey(k) PROVE CountersOK'
  BY <1>7, TallyUpdate DEF ExpireKey, Vanish
<1>8. CASE UNCHANGED countVars
  BY <1>8 DEF countVars
<1> QED
  BY <1>1, <1>2, <1>3, <1>4, <1>5, <1>6, <1>7, <1>8 DEF UsageNext

\* The queries keep theirs.
LEMMA MetersStep ==
    ASSUME UsageTypeOK, [UsageNext]_countVars
    PROVE  MetersOK'
<1> USE DEF UsageTypeOK, MetersOK
<1>1. ASSUME NEW r \in Meters, CheckQuota(r) PROVE MetersOK'
  <2>1. CASE tokenLimit = NoLimit
    BY <1>1, <2>1 DEF CheckQuota, MeterStates
  <2>2. CASE tokenLimit # NoLimit
    <3>1. PICK keys \in SUBSET UsageKeys :
            query' = [query EXCEPT ![r] = [at |-> "check", rest |-> keys, seen |-> billed,
                                           start |-> used, missed |-> FALSE]]
      BY <1>1, <2>2 DEF CheckQuota
    <3>2. [at |-> "check", rest |-> keys, seen |-> billed, start |-> used, missed |-> FALSE]
            \in MeterStates
      BY DEF MeterStates, CountersOK
    <3> QED
      BY <3>1, <3>2
  <2> QED
    BY <2>1, <2>2
<1>2. ASSUME NEW r \in Meters, CountFails(r) \/ Decide(r) \/ QueryEnds(r) PROVE MetersOK'
  BY <1>2 DEF CountFails, Decide, QueryEnds, MeterStates
<1>3. ASSUME NEW r \in Meters, NEW k \in UsageKeys, CountKey(r, k) PROVE MetersOK'
  <2>1. query[r].seen[k] + counter[k] \in Nat
    BY TallyAt DEF MeterStates, CountersOK
  <2>2. [query[r].seen EXCEPT ![k] = query[r].seen[k] + counter[k]] \in Tally
    BY <2>1, TallyUpdate DEF MeterStates
  <2> QED
    BY <1>3, <2>2 DEF CountKey, MeterStates
<1>4. ASSUME NEW r \in Meters, NEW k \in UsageKeys, NEW n \in TokenCounts,
             RecordPrompt(r, k, n) \/ RecordCompletion(r, k, n)
      PROVE  MetersOK'
  BY <1>4 DEF RecordPrompt, RecordCompletion, MeterStates
<1>5. ASSUME NEW f \in Flushers, NEW k \in UsageKeys, FlushKey(f, k) PROVE MetersOK'
  <2>1. CASE UNCHANGED query
    BY <2>1
  <2>2. CASE Vanish(k)
    BY <2>2 DEF Vanish, MeterStates
  <2> QED
    BY <1>5, <2>1, <2>2
       DEF FlushKey, ReadKey, ReadFails, AddToRow, RowFails, DeleteCounter, DropFails
<1>6. ASSUME NEW f \in Flushers, StartFlush(f) \/ CommitFlush(f) \/ FlushStops(f) PROVE MetersOK'
  BY <1>6 DEF StartFlush, CommitFlush, FlushStops
<1>7. ASSUME NEW k \in UsageKeys, ExpireKey(k) PROVE MetersOK'
  BY <1>7 DEF ExpireKey, Vanish, MeterStates
<1>8. CASE UNCHANGED countVars
  BY <1>8 DEF countVars
<1> QED
  BY <1>1, <1>2, <1>3, <1>4, <1>5, <1>6, <1>7, <1>8 DEF UsageNext

\* A flush keeps its type, and holds a key in one of its stages only.
LEMMA FlushesStep ==
    ASSUME UsageTypeOK, [UsageNext]_countVars
    PROVE  FlushesOK' /\ HeldOK'
<1> USE DEF UsageTypeOK, FlushesOK, HeldOK, Held
<1>1. ASSUME UNCHANGED flush PROVE FlushesOK' /\ HeldOK'
  BY <1>1
<1>2. ASSUME NEW f \in Flushers, NEW k \in UsageKeys, ReadKey(f, k) PROVE FlushesOK' /\ HeldOK'
  <2>1. [flush[f].got EXCEPT ![k] = 0] \in Tally
    BY TallyUpdate DEF FlushStates
  <2>2. [flush[f].got EXCEPT ![k] = counter[k]] \in Tally
    BY TallyUpdate, TallyAt DEF FlushStates, CountersOK
  <2>3. FlushesOK'
    BY <1>2, <2>1, <2>2 DEF ReadKey, FlushStates
  <2>4. HeldOK'
    BY <1>2 DEF ReadKey, Scanning, FlushStates
  <2> QED
    BY <2>3, <2>4
<1>3. ASSUME NEW f \in Flushers, NEW k \in UsageKeys, ReadFails(f, k) PROVE FlushesOK' /\ HeldOK'
  BY <1>3 DEF ReadFails, Scanning, FlushStates
<1>4. ASSUME NEW f \in Flushers, NEW k \in UsageKeys, AddToRow(f, k) PROVE FlushesOK' /\ HeldOK'
  <2>1. CASE flush[f].broken
    <3> DEFINE next == [flush[f] EXCEPT !.open = {}, !.doomed = flush[f].doomed]
    <3>0. flush' = [flush EXCEPT ![f] = next]
      BY <1>4, <2>1, Zenon DEF AddToRow
    <3>1. next \in FlushStates
      BY DEF FlushStates
    <3>2. FlushesOK'
      BY <3>0, <3>1
    <3>3. HeldOK'
      BY <3>0 DEF FlushStates
    <3> QED
      BY <3>2, <3>3
  <2>2. CASE ~flush[f].broken
    <3>1. FlushesOK'
      BY <1>4, <2>2 DEF AddToRow, FlushStates
    <3>2. HeldOK'
      BY <1>4, <2>2 DEF AddToRow, FlushStates
    <3> QED
      BY <3>1, <3>2
  <2> QED
    BY <2>1, <2>2
<1>5. ASSUME NEW f \in Flushers, NEW k \in UsageKeys, RowFails(f, k) PROVE FlushesOK' /\ HeldOK'
  BY <1>5 DEF RowFails, FlushStates
<1>6. ASSUME NEW f \in Flushers, NEW k \in UsageKeys, DeleteCounter(f, k) \/ DropFails(f, k)
      PROVE  FlushesOK' /\ HeldOK'
  <2>1. Forget(f, k)
    BY <1>6 DEF DeleteCounter, DropFails
  <2>2. CASE flush[f].doomed = {k}
    BY <2>1, <2>2, NoTokensType DEF Forget, IdleFlush
  <2>3. CASE flush[f].doomed # {k}
    <3>1. flush' = [flush EXCEPT ![f] = [flush[f] EXCEPT !.doomed = @ \ {k}]]
      BY <2>1, <2>3 DEF Forget
    <3>2. [flush[f] EXCEPT !.doomed = @ \ {k}] \in FlushStates
      BY DEF FlushStates
    <3>3. FlushesOK'
      BY <3>1, <3>2
    <3>4. HeldOK'
      BY <3>1 DEF FlushStates
    <3> QED
      BY <3>3, <3>4
  <2> QED
    BY <2>2, <2>3
<1>7. ASSUME NEW f \in Flushers, StartFlush(f) PROVE FlushesOK' /\ HeldOK'
  <2>1. PICK keys \in SUBSET UsageKeys :
          flush' = [flush EXCEPT ![f] = [IdleFlush EXCEPT !.at = "scan", !.rest = keys]]
    BY <1>7 DEF StartFlush
  <2>2. [IdleFlush EXCEPT !.at = "scan", !.rest = keys] \in FlushStates
    BY NoTokensType DEF FlushStates
  <2>3. FlushesOK'
    BY <2>1, <2>2
  <2>4. HeldOK'
    BY <2>1 DEF IdleFlush
  <2> QED
    BY <2>3, <2>4
<1>8. ASSUME NEW f \in Flushers, CommitFlush(f) PROVE FlushesOK' /\ HeldOK'
  <2>1. FlushesOK'
    BY <1>8, NoTokensType DEF CommitFlush, FlushStates
  <2>2. HeldOK'
    BY <1>8 DEF CommitFlush, FlushStates, IdleFlush
  <2> QED
    BY <2>1, <2>2
<1>9. ASSUME NEW f \in Flushers, FlushStops(f) PROVE FlushesOK' /\ HeldOK'
  BY <1>9, NoTokensType DEF FlushStops, IdleFlush
<1> QED
  BY <1>1, <1>2, <1>3, <1>4, <1>5, <1>6, <1>7, <1>8, <1>9
     DEF UsageNext, FlushKey, CheckQuota, CountKey, CountFails, Decide, QueryEnds, RecordPrompt,
         RecordCompletion, ExpireKey, countVars

\* The numbers a step computes with.
LEMMA Numbers ==
    ASSUME UsageTypeOK
    PROVE  /\ \A k \in UsageKeys : counter[k] \in Nat /\ billed[k] \in Nat /\ used[k] \in Nat
           /\ \A f \in Flushers, k \in UsageKeys : flush[f].got[k] \in Nat
           /\ \A r \in Meters, k \in UsageKeys :
                query[r].seen[k] \in Nat /\ query[r].start[k] \in Nat
BY TallyAt DEF UsageTypeOK, CountersOK, FlushesOK, MetersOK, FlushStates, MeterStates

\* No step loses a token of a key that is not in lossy: a flush deletes a
\* counter only behind the row that took it.
LEMMA LostStep ==
    ASSUME UsageTypeOK, NothingLost, [UsageNext]_countVars
    PROVE  NothingLost'
<1> USE Numbers DEF UsageTypeOK, CountersOK, FlushesOK, FlushStates, NothingLost, Reading, Dropping, Held
<1>1. ASSUME UNCHANGED <<counter, billed, used, flush, lossy>> PROVE NothingLost'
  BY <1>1
<1>2. ASSUME NEW r \in Meters, NEW k \in UsageKeys, NEW n \in TokenCounts,
             RecordPrompt(r, k, n) \/ RecordCompletion(r, k, n)
      PROVE  NothingLost'
  <2>1. Increment(k, n) /\ UNCHANGED <<billed, flush>>
    BY <1>2 DEF RecordPrompt, RecordCompletion
  <2>2. n \in Nat
    BY TokensType
  <2>3. ASSUME NEW j \in UsageKeys
        PROVE /\ counter'[j] = IF j = k THEN counter[j] + n ELSE counter[j]
              /\ used'[j] = IF j = k THEN used[j] + n ELSE used[j]
    BY <2>1 DEF Increment, Tally
  <2>4. lossy \subseteq lossy' /\ (k \notin lossy' => ~HeldByAny(k))
    BY <2>1 DEF Increment
  <2> QED
    BY <2>1, <2>2, <2>3, <2>4 DEF HeldByAny
<1>3. ASSUME NEW f \in Flushers, NEW k \in UsageKeys, ReadKey(f, k) PROVE NothingLost'
  <2>1. \A g \in Flushers : g # f => flush'[g] = flush[g]
    BY <1>3 DEF ReadKey
  <2>2. flush[f].at = "scan" /\ flush'[f].at = "scan" /\ flush'[f].broken = flush[f].broken
    BY <1>3 DEF ReadKey, Scanning
  <2>3. \A j \in UsageKeys : j # k =>
            /\ flush'[f].got[j] = flush[f].got[j]
            /\ j \in flush'[f].open => j \in flush[f].open
            /\ j \in flush'[f].doomed <=> j \in flush[f].doomed
    BY <1>3 DEF ReadKey, Tally
  <2>4. /\ k \in flush'[f].open => flush'[f].got[k] = counter[k]
        /\ k \in flush'[f].doomed /\ k \notin flush[f].doomed =>
               counter[k] = 0 /\ flush'[f].got[k] = 0
        /\ k \notin flush[f].doomed
    BY <1>3 DEF ReadKey, Scanning, Tally, HeldOK
  <2>5. UNCHANGED <<counter, billed, used, lossy>>
    BY <1>3 DEF ReadKey
  <2> QED
    BY <2>1, <2>2, <2>3, <2>4, <2>5
<1>4. ASSUME NEW f \in Flushers, NEW k \in UsageKeys, ReadFails(f, k) PROVE NothingLost'
  BY <1>4 DEF ReadFails
<1>5. ASSUME NEW f \in Flushers, NEW k \in UsageKeys, AddToRow(f, k) PROVE NothingLost'
  BY <1>5 DEF AddToRow
<1>6. ASSUME NEW f \in Flushers, NEW k \in UsageKeys, RowFails(f, k) PROVE NothingLost'
  BY <1>6 DEF RowFails
<1>7. ASSUME NEW f \in Flushers, NEW k \in UsageKeys, DeleteCounter(f, k) PROVE NothingLost'
  BY <1>7 DEF DeleteCounter, Vanish, Forget, IdleFlush, Tally
<1>8. ASSUME NEW f \in Flushers, NEW k \in UsageKeys, DropFails(f, k) PROVE NothingLost'
  BY <1>8 DEF DropFails, Forget, IdleFlush
<1>9. ASSUME NEW f \in Flushers, StartFlush(f) PROVE NothingLost'
  BY <1>9 DEF StartFlush, IdleFlush
<1>10. ASSUME NEW f \in Flushers, CommitFlush(f) PROVE NothingLost'
  BY <1>10 DEF CommitFlush, IdleFlush
<1>11. ASSUME NEW f \in Flushers, FlushStops(f) PROVE NothingLost'
  BY <1>11 DEF FlushStops, IdleFlush
<1>12. ASSUME NEW k \in UsageKeys, ExpireKey(k) PROVE NothingLost'
  BY <1>12 DEF ExpireKey, Vanish, Tally
<1> QED
  BY <1>1, <1>2, <1>3, <1>4, <1>5, <1>6, <1>7, <1>8, <1>9, <1>10, <1>11, <1>12
     DEF UsageNext, FlushKey, CheckQuota, CountKey, CountFails, Decide, QueryEnds, countVars

\* No step bills a token of a key twice that is not in doubled.
LEMMA TwiceStep ==
    ASSUME UsageTypeOK, NothingTwice, [UsageNext]_countVars
    PROVE  NothingTwice'
<1> USE Numbers DEF UsageTypeOK, CountersOK, FlushesOK, FlushStates, NothingTwice, Reading, Dropping, Held
<1>1. ASSUME UNCHANGED <<counter, billed, used, flush, doubled>> PROVE NothingTwice'
  BY <1>1
<1>2. ASSUME NEW r \in Meters, NEW k \in UsageKeys, NEW n \in TokenCounts,
             RecordPrompt(r, k, n) \/ RecordCompletion(r, k, n)
      PROVE  NothingTwice'
  <2>1. Increment(k, n) /\ UNCHANGED <<billed, flush, doubled>>
    BY <1>2 DEF RecordPrompt, RecordCompletion
  <2>2. n \in Nat
    BY TokensType
  <2>3. ASSUME NEW j \in UsageKeys
        PROVE /\ counter'[j] = IF j = k THEN counter[j] + n ELSE counter[j]
              /\ used'[j] = IF j = k THEN used[j] + n ELSE used[j]
    BY <2>1 DEF Increment, Tally
  <2> QED
    BY <2>1, <2>2, <2>3
<1>3. ASSUME NEW f \in Flushers, NEW k \in UsageKeys, ReadKey(f, k) PROVE NothingTwice'
  <2>1. \A g \in Flushers : g # f => flush'[g] = flush[g]
    BY <1>3 DEF ReadKey
  <2>2. flush[f].at = "scan" /\ flush'[f].at = "scan" /\ flush'[f].broken = flush[f].broken
    BY <1>3 DEF ReadKey, Scanning
  <2>3. \A j \in UsageKeys : j # k =>
            /\ flush'[f].got[j] = flush[f].got[j]
            /\ j \in flush'[f].open => j \in flush[f].open
            /\ j \in flush'[f].doomed <=> j \in flush[f].doomed
    BY <1>3 DEF ReadKey, Tally
  <2>4. k \in Held(f)' => flush'[f].got[k] = counter[k] /\ (HeldByAny(k) => k \in doubled')
    BY <1>3 DEF ReadKey, Scanning, Tally, HeldOK
  <2>5. UNCHANGED <<counter, billed, used>> /\ doubled \subseteq doubled'
    BY <1>3 DEF ReadKey
  <2> QED
    BY <2>1, <2>2, <2>3, <2>4, <2>5 DEF HeldByAny
<1>4. ASSUME NEW f \in Flushers, NEW k \in UsageKeys, ReadFails(f, k) PROVE NothingTwice'
  BY <1>4 DEF ReadFails
<1>5. ASSUME NEW f \in Flushers, NEW k \in UsageKeys, AddToRow(f, k) PROVE NothingTwice'
  BY <1>5 DEF AddToRow
<1>6. ASSUME NEW f \in Flushers, NEW k \in UsageKeys, RowFails(f, k) PROVE NothingTwice'
  BY <1>6 DEF RowFails
<1>7. ASSUME NEW f \in Flushers, NEW k \in UsageKeys, DeleteCounter(f, k) PROVE NothingTwice'
  <2>1. \A g \in Flushers : g # f => flush'[g] = flush[g]
    BY <1>7 DEF DeleteCounter, Forget
  <2>2. flush[f].at = "delete" /\ k \in Held(f) /\ k \notin Held(f)'
    BY <1>7 DEF DeleteCounter, Forget, IdleFlush, HeldOK
  <2>3. \A j \in UsageKeys : j # k =>
            /\ j \in Held(f)' <=> j \in Held(f)
            /\ j \in Held(f) => flush'[f].at = "delete" /\ flush'[f].got[j] = flush[f].got[j]
    BY <1>7 DEF DeleteCounter, Forget, IdleFlush, HeldOK
  <2>4. counter'[k] = 0 /\ \A j \in UsageKeys : j # k => counter'[j] = counter[j]
    BY <1>7 DEF DeleteCounter, Vanish, Tally
  <2>5. UNCHANGED <<billed, used, doubled>>
    BY <1>7 DEF DeleteCounter
  <2> QED
    BY <2>1, <2>2, <2>3, <2>4, <2>5
<1>8. ASSUME NEW f \in Flushers, NEW k \in UsageKeys, DropFails(f, k) PROVE NothingTwice'
  <2>1. \A g \in Flushers : g # f => flush'[g] = flush[g]
    BY <1>8 DEF DropFails, Forget
  <2>2. \A j \in UsageKeys : j # k =>
            /\ j \in Held(f)' <=> j \in Held(f)
            /\ Dropping(f, j)' <=> Dropping(f, j)
            /\ j \in Held(f) => flush'[f].got[j] = flush[f].got[j]
    BY <1>8 DEF DropFails, Forget, IdleFlush, HeldOK
  <2>3. flush[f].at = "delete" /\ flush'[f].at # "scan"
    BY <1>8 DEF DropFails, Forget, IdleFlush
  <2>4. UNCHANGED <<counter, billed, used>> /\ doubled' = doubled \cup {k}
    BY <1>8 DEF DropFails
  <2> QED
    BY <2>1, <2>2, <2>3, <2>4
<1>9. ASSUME NEW f \in Flushers, StartFlush(f) PROVE NothingTwice'
  BY <1>9 DEF StartFlush, IdleFlush
<1>10. ASSUME NEW f \in Flushers, CommitFlush(f) PROVE NothingTwice'
  BY <1>10 DEF CommitFlush, IdleFlush
<1>11. ASSUME NEW f \in Flushers, FlushStops(f) PROVE NothingTwice'
  <2>1. \A g \in Flushers : g # f => flush'[g] = flush[g]
    BY <1>11 DEF FlushStops
  <2>2. Held(f)' = {} /\ flush'[f].at = "idle"
    BY <1>11 DEF FlushStops, IdleFlush
  <2>3. UNCHANGED <<counter, billed, used>> /\ doubled \subseteq doubled'
    BY <1>11 DEF FlushStops
  <2>4. \A k \in UsageKeys : Dropping(f, k) => k \in doubled'
    BY <1>11 DEF FlushStops, HeldOK
  <2> QED
    BY <2>1, <2>2, <2>3, <2>4
<1>12. ASSUME NEW k \in UsageKeys, ExpireKey(k) PROVE NothingTwice'
  BY <1>12 DEF ExpireKey, Vanish, Tally
<1> QED
  BY <1>1, <1>2, <1>3, <1>4, <1>5, <1>6, <1>7, <1>8, <1>9, <1>10, <1>11, <1>12
     DEF UsageNext, FlushKey, CheckQuota, CountKey, CountFails, Decide, QueryEnds, countVars

\* A check counts no less than what was recorded when it began.
LEMMA ChecksStep ==
    ASSUME UsageTypeOK, NothingLost, ChecksOK, [UsageNext]_countVars
    PROVE  ChecksOK'
<1> USE Numbers DEF UsageTypeOK, CountersOK, MetersOK, MeterStates, ChecksOK
<1>1. ASSUME UNCHANGED <<counter, present, query>>, lossy \subseteq lossy' PROVE ChecksOK'
  BY <1>1
<1>2. ASSUME NEW r \in Meters, NEW k \in UsageKeys, NEW n \in TokenCounts,
             RecordPrompt(r, k, n) \/ RecordCompletion(r, k, n)
      PROVE  ChecksOK'
  <2>1. /\ Increment(k, n)
        /\ query'[r].at # "check" /\ \A q \in Meters : q # r => query'[q] = query[q]
    BY <1>2 DEF RecordPrompt, RecordCompletion
  <2>2. n \in Nat
    BY TokensType
  <2>3. ASSUME NEW j \in UsageKeys
        PROVE counter'[j] = IF j = k THEN counter[j] + n ELSE counter[j]
    BY <2>1 DEF Increment, Tally
  <2>4. lossy \subseteq lossy' /\ present' = present \cup {k}
    BY <2>1 DEF Increment
  <2> QED
    BY <2>1, <2>2, <2>3, <2>4
<1>3. ASSUME NEW r \in Meters, CheckQuota(r) PROVE ChecksOK'
  BY <1>3 DEF CheckQuota, NothingLost
<1>4. ASSUME NEW r \in Meters, NEW k \in UsageKeys, CountKey(r, k) PROVE ChecksOK'
  BY <1>4 DEF CountKey, Tally
<1>5. ASSUME NEW r \in Meters, CountFails(r) \/ Decide(r) \/ QueryEnds(r) PROVE ChecksOK'
  BY <1>5 DEF CountFails, Decide, QueryEnds
<1>6. ASSUME NEW k \in UsageKeys, Vanish(k), lossy \subseteq lossy' PROVE ChecksOK'
  BY <1>6 DEF Vanish, Tally
<1>7. ASSUME NEW f \in Flushers, NEW k \in UsageKeys, FlushKey(f, k) PROVE ChecksOK'
  BY <1>1, <1>6, <1>7
     DEF FlushKey, ReadKey, ReadFails, AddToRow, RowFails, DeleteCounter, DropFails
<1>8. ASSUME NEW k \in UsageKeys, ExpireKey(k) PROVE ChecksOK'
  BY <1>6, <1>8 DEF ExpireKey
<1> QED
  BY <1>1, <1>2, <1>3, <1>4, <1>5, <1>7, <1>8
     DEF UsageNext, StartFlush, CommitFlush, FlushStops, countVars

\* The types, and the three balances between the counters of Redis, the rows of
\* the table, the flushes and the checks, are an inductive invariant.
THEOREM UsageInductive == UsageSpec => []UsageInv
<1>1. UsageInit => UsageInv
  BY NoTokensType
     DEF UsageInit, UsageInv, UsageTypeOK, CountersOK, FlushesOK, MetersOK, HeldOK, Held, MeterStates,
         IdleFlush, IdleMeter, NoTokens, NothingLost, NothingTwice, ChecksOK, Reading, Dropping
<1>2. UsageInv /\ [UsageNext]_countVars => UsageInv'
  BY CountersStep, MetersStep, FlushesStep, LostStep, TwiceStep, ChecksStep
     DEF UsageInv, UsageTypeOK
<1> QED
  BY <1>1, <1>2, PTL DEF UsageSpec

\* No token is lost or billed twice, and a quota check counts all that was
\* recorded when it began, outside the windows that the code leaves open: for
\* every number of keys, queries and flushes, any limit and number of faults.
THEOREM UsageIsTruthful == UsageSpec => []UsageTruthful
<1>1. UsageInv => UsageTruthful
  <2> SUFFICES ASSUME UsageInv PROVE UsageTruthful
    OBVIOUS
  <2>1. UsageCounted
    BY DEF UsageInv, UsageCounted, NothingLost, NothingTwice, HeldByAny, Dropping
  <2>2. ChecksSeeAll
    BY Numbers DEF UsageInv, ChecksSeeAll, ChecksOK
  <2> QED
    BY <2>1, <2>2 DEF UsageTruthful
<1> QED
  BY <1>1, UsageInductive, PTL

----------------------------------------------------------------------------
(* The conversation sessions.                                              *)

\* What a session holds, and what a call does.
SessionValues ==
    [live : BOOLEAN, messages : Seq(SessionCallers), total : Nat, updated : Nat]
VisitStates ==
    [at : {"idle", "sadd", "list", "read", "drop", "srem", "write", "end"},
     op : {"none", "create", "delete", "add", "clear"}, id : SUBSET Sessions,
     copy : SessionValues, stale : BOOLEAN, unread : SUBSET Sessions,
     ages : SUBSET (Sessions \X Nat), surplus : SUBSET Sessions]

\* The types.
SessionsOK ==
    /\ session \in [Sessions -> SessionValues]
    /\ sent \in [Sessions -> Seq(SessionCallers)]
    /\ now \in Nat
VisitsOK == visit \in [SessionCallers -> VisitStates]
HistoriesOK ==
    /\ owned \subseteq Sessions /\ born \subseteq Sessions
    /\ forgotten \subseteq born /\ contested \subseteq uncounted
    /\ \A s \in Sessions \ born : ~session[s].live /\ sent[s] = <<>>

\* What the stage of a call says of the rest of it.
VisitOK(v) ==
    /\ v.at \in {"idle", "end"} => v.op = "none" /\ v.id = {}
    /\ v.at \in {"sadd", "list", "read"} => v.op = "create"
    /\ v.at \in {"drop", "srem"} => v.op \in {"create", "delete"}
    /\ v.at = "write" => v.op \in {"add", "clear"}
    /\ v.id \subseteq born
    /\ v.at = "srem" => v.unread \subseteq forgotten
    /\ IsFiniteSet(v.ages)
StagesOK == \A c \in SessionCallers : VisitOK(visit[c])

SessTypeOK == SessionsOK /\ VisitsOK /\ HistoriesOK /\ StagesOK

\* A copy that is not stale is what Redis holds.
CopiesHold ==
    \A c \in SessionCallers : visit[c].at = "write" /\ ~visit[c].stale =>
        \A s \in visit[c].id : session[s].live /\ visit[c].copy = session[s]

\* The calls that create, the sessions they have drawn, those of them that have
\* listed the sessions of the user, and the sessions that the limit counts.
Creating == {c \in SessionCallers : visit[c].op = "create"}
Drawn(C) == UNION {visit[c].id : c \in C}
Listed == {c \in Creating : visit[c].at \in {"read", "drop", "srem"}}
Counted == {s \in Sessions \ uncounted : session[s].live}

OwnedHold == Counted \subseteq owned \cup Drawn({c \in SessionCallers : visit[c].at = "sadd"})

\* The call v has still to read or has read S; or keeps no more of it than it may.
Covers(v, S) ==
    IF v.at = "read"
    THEN S \subseteq v.unread \cup {a[1] : a \in v.ages}
    ELSE Cardinality(S \ v.surplus) <= MaxPerUser

\* Of any calls that have listed, the last one to do so has seen what all of them
\* have drawn; what the other calls have drawn they will see to themselves.
Watched(X) == Counted \ Drawn(Creating \ X)
LimitHolds ==
    \A X \in SUBSET Listed :
        \/ Cardinality(Watched(X)) <= MaxPerUser
        \/ \E c \in X : Covers(visit[c], Watched(X))

SessionInv ==
    SessTypeOK /\ CopiesHold /\ MessagesKept /\ DeletedIsForgotten /\ OwnedHold /\ LimitHolds

\* The constants, as the proofs use them.
LEMMA SessionNumbers ==
    /\ MaxPerUser \in Nat /\ MaxPerUser > 0 /\ MaxMessages \in Nat /\ MaxMessages > 0
    /\ IsFiniteSet(Sessions)
BY SessionAssumption

\* The last messages are messages; all of them when they are few, and of more the
\* last max_messages (_enforce_message_limit).
LEMMA LastType ==
    ASSUME NEW S, NEW m \in Seq(S)
    PROVE  /\ LastMessages(m) \in Seq(S)
           /\ Len(m) <= MaxMessages => LastMessages(m) = m
           /\ Len(m) > MaxMessages =>
                /\ Len(LastMessages(m)) = MaxMessages
                /\ \A i \in 1..MaxMessages : LastMessages(m)[i] = m[Len(m) - MaxMessages + i]
<1>1. Len(m) \in Nat /\ \A i \in 1..Len(m) : m[i] \in S
  BY LenProperties
<1>2. CASE Len(m) <= MaxMessages
  <2>1. LastMessages(m) = SubSeq(m, 1, Len(m))
    <3>1. ~(Len(m) > MaxMessages)
      BY <1>1, <1>2, SessionNumbers
    <3> QED
      BY <3>1 DEF LastMessages
  <2>2. SubSeq(m, 1, Len(m)) = m
    BY SubSeqFull
  <2>3. ~(Len(m) > MaxMessages) /\ LastMessages(m) = m
    BY <1>1, <1>2, <2>1, <2>2, SessionNumbers
  <2> QED
    BY <1>2, <2>3
<1>3. CASE Len(m) > MaxMessages
  <2> DEFINE a == Len(m) - MaxMessages + 1
             b == Len(m)
  <2>1. LastMessages(m) = SubSeq(m, a, b)
    BY <1>3 DEF LastMessages
  <2>2. a \in Int /\ b \in Int /\ a >= 1 /\ a <= b /\ b - a + 1 = MaxMessages
    BY <1>1, <1>3, SessionNumbers
  <2>3. \A i \in a..b : m[i] \in S
    BY <1>1, <2>2
  <2>6. \A i \in 1..MaxMessages : a + i - 1 = Len(m) - MaxMessages + i
    BY <1>1, SessionNumbers
  <2> HIDE DEF a, b
  <2>4. /\ SubSeq(m, a, b) \in Seq(S) /\ Len(SubSeq(m, a, b)) = MaxMessages
        /\ \A i \in 1..MaxMessages : SubSeq(m, a, b)[i] = m[a + i - 1]
    <3>1. /\ SubSeq(m, a, b) \in Seq(S)
          /\ Len(SubSeq(m, a, b)) = IF a <= b THEN b - a + 1 ELSE 0
          /\ \A i \in 1 .. b - a + 1 : SubSeq(m, a, b)[i] = m[a + i - 1]
      BY <2>2, <2>3, SubSeqProperties
    <3> QED
      BY <2>2, <3>1
  <2> QED
    BY <1>1, <1>3, <2>1, <2>4, <2>6, SessionNumbers
<1> QED
  BY <1>1, <1>2, <1>3, SessionNumbers

\* To forget all but the last messages before one is added changes nothing of what is
\* left after it: the copies that were cut lose nothing against the whole history.
LEMMA LastOfLast ==
    ASSUME NEW S, NEW m \in Seq(S), NEW x \in S
    PROVE  LastMessages(Append(LastMessages(m), x)) = LastMessages(Append(m, x))
<1> DEFINE k == LastMessages(m)
           u == Append(k, x)
           w == Append(m, x)
<1>1. /\ k \in Seq(S) /\ Len(m) \in Nat
      /\ Len(m) <= MaxMessages => k = m
      /\ Len(m) > MaxMessages =>
           /\ Len(k) = MaxMessages
           /\ \A i \in 1..MaxMessages : k[i] = m[Len(m) - MaxMessages + i]
  BY LastType, LenProperties
<1>2. CASE Len(m) <= MaxMessages
  BY <1>1, <1>2
<1>3. CASE Len(m) > MaxMessages
  <2> HIDE DEF k
  <2>1. /\ u \in Seq(S) /\ Len(u) = MaxMessages + 1
        /\ \A i \in 1..MaxMessages : u[i] = k[i]
        /\ u[MaxMessages + 1] = x
    BY <1>1, <1>3, SessionNumbers
  <2>2. /\ w \in Seq(S) /\ Len(w) = Len(m) + 1
        /\ \A i \in 1..Len(m) : w[i] = m[i]
        /\ w[Len(m) + 1] = x
    BY <1>1, <1>3
  <2> HIDE DEF u, w
  <2>3. /\ LastMessages(u) \in Seq(S) /\ Len(LastMessages(u)) = MaxMessages
        /\ \A i \in 1..MaxMessages : LastMessages(u)[i] = u[Len(u) - MaxMessages + i]
    BY <2>1, LastType, SessionNumbers
  <2>4. /\ LastMessages(w) \in Seq(S) /\ Len(LastMessages(w)) = MaxMessages
        /\ \A i \in 1..MaxMessages : LastMessages(w)[i] = w[Len(w) - MaxMessages + i]
    <3>1. Len(w) > MaxMessages
      BY <1>1, <1>3, <2>2, SessionNumbers
    <3> QED
      BY <2>2, <3>1, LastType
  <2>5. ASSUME NEW i \in 1..MaxMessages
        PROVE  LastMessages(u)[i] = LastMessages(w)[i]
    <3>1. LastMessages(u)[i] = u[1 + i] /\ LastMessages(w)[i] = w[Len(m) + 1 - MaxMessages + i]
      BY <1>1, <2>1, <2>2, <2>3, <2>4, SessionNumbers
    <3>2. CASE i = MaxMessages
      <4>1. 1 + i = MaxMessages + 1 /\ Len(m) + 1 - MaxMessages + i = Len(m) + 1
        BY <1>1, <3>2, SessionNumbers
      <4> QED
        BY <2>1, <2>2, <3>1, <4>1
    <3>3. CASE i # MaxMessages
      <4>1. 1 + i \in 1..MaxMessages /\ Len(m) + 1 - MaxMessages + i \in 1..Len(m)
        BY <1>1, <1>3, <3>3, SessionNumbers
      <4>2. u[1 + i] = k[1 + i] /\ w[Len(m) + 1 - MaxMessages + i] = m[Len(m) + 1 - MaxMessages + i]
        BY <2>1, <2>2, <4>1
      <4>3. k[1 + i] = m[Len(m) - MaxMessages + (1 + i)]
        BY <1>1, <1>3, <4>1
      <4>4. Len(m) - MaxMessages + (1 + i) = Len(m) + 1 - MaxMessages + i
        BY <1>1, SessionNumbers
      <4> QED
        BY <3>1, <4>2, <4>3, <4>4
    <3> QED
      BY <3>2, <3>3
  <2>6. LastMessages(u) = LastMessages(w)
    BY <2>3, <2>4, <2>5, SeqEqual
  <2> QED
    BY <2>6 DEF u, w, k
<1> QED
  BY <1>1, <1>2, <1>3, SessionNumbers

\* The types of the values that are constants.
LEMMA VisitTypes ==
    /\ GoneSession \in SessionValues /\ NoVisit \in VisitStates /\ SessionEnded \in VisitStates
    /\ \A t \in Nat : NewSession(t) \in SessionValues
<1>1. <<>> \in Seq(SessionCallers)
  OBVIOUS
<1>2. GoneSession \in SessionValues /\ \A t \in Nat : NewSession(t) \in SessionValues
  BY <1>1 DEF GoneSession, NewSession, SessionValues
<1>3. NoVisit \in VisitStates
  BY <1>2 DEF NoVisit, VisitStates
<1> QED
  BY <1>2, <1>3 DEF SessionEnded, VisitStates

\* A session that is written keeps the types.
LEMMA PutTypes ==
    ASSUME SessionsOK, VisitsOK, NEW c \in SessionCallers, NEW s \in Sessions,
           NEW v \in SessionValues, NEW next \in VisitStates, Put(c, s, v, next)
    PROVE  session' \in [Sessions -> SessionValues] /\ VisitsOK'
<1>1. \A d \in SessionCallers : [visit[d] EXCEPT !.stale = TRUE] \in VisitStates
  BY DEF VisitsOK, VisitStates
<1> QED
  BY <1>1 DEF Put, SessionsOK, VisitsOK

\* A call that moves keeps the types.
LEMMA ToTypes ==
    ASSUME VisitsOK, NEW c \in SessionCallers, NEW v \in VisitStates, To(c, v)
    PROVE  VisitsOK'
BY DEF To, VisitsOK

\* So do the two ends of delete_session.
LEMMA AfterDropType ==
    ASSUME VisitsOK, NEW c \in SessionCallers, NEW s
    PROVE  /\ AfterDrop(c, s) \in VisitStates
           /\ [AfterDrop(c, s) EXCEPT !.unread = {}] \in VisitStates
BY VisitTypes DEF AfterDrop, VisitsOK, VisitStates

\* The copy with a message more, as it is written back.
LEMMA CopyTypes ==
    ASSUME SessionsOK, VisitsOK, NEW c \in SessionCallers, NEW t \in Nat
    PROVE  LET copy == visit[c].copy
               longer == [copy EXCEPT !.messages = LastMessages(Append(copy.messages, c)),
                                      !.total = copy.total + 1]
               cleared == [copy EXCEPT !.messages = <<>>, !.total = 0]
           IN /\ longer \in SessionValues /\ cleared \in SessionValues
              /\ [longer EXCEPT !.updated = t] \in SessionValues
              /\ [cleared EXCEPT !.updated = t] \in SessionValues
<1>1. visit[c].copy \in SessionValues
  BY DEF VisitsOK, VisitStates
<1>2. visit[c].copy.messages \in Seq(SessionCallers) /\ visit[c].copy.total \in Nat
  BY <1>1 DEF SessionValues
<1>3. Append(visit[c].copy.messages, c) \in Seq(SessionCallers)
  BY <1>2
<1>4. LastMessages(Append(visit[c].copy.messages, c)) \in Seq(SessionCallers)
  BY <1>3, LastType
<1> DEFINE copy == visit[c].copy
           m == LastMessages(Append(copy.messages, c))
           longer == [copy EXCEPT !.messages = m, !.total = copy.total + 1]
           cleared == [copy EXCEPT !.messages = <<>>, !.total = 0]
<1>5. <<>> \in Seq(SessionCallers) /\ copy.total + 1 \in Nat
  BY <1>2
<1> HIDE DEF m
<1>6. m \in Seq(SessionCallers)
  BY <1>4 DEF m
<1>7. longer \in SessionValues /\ cleared \in SessionValues
  BY <1>1, <1>5, <1>6 DEF SessionValues
<1> HIDE DEF longer, cleared
<1>8. [longer EXCEPT !.updated = t] \in SessionValues /\ [cleared EXCEPT !.updated = t] \in SessionValues
  BY <1>7 DEF SessionValues
<1> QED
  BY <1>7, <1>8 DEF longer, cleared, m

\* Every step preserves the types of the sessions and of the calls.
LEMMA SessionsStep ==
    ASSUME SessTypeOK, [SessionNext]_sessionVars
    PROVE  SessionsOK' /\ VisitsOK'
<1> USE DEF SessTypeOK
<1>0. now + 1 \in Nat /\ NewSession(now + 1) \in SessionValues
  BY VisitTypes DEF SessionsOK
<1>1. ASSUME NEW c \in SessionCallers, NEW s \in Sessions, CreateSession(c, s)
      PROVE  SessionsOK' /\ VisitsOK'
  <2>1. [NoVisit EXCEPT !.at = "sadd", !.op = "create", !.id = {s}] \in VisitStates
    BY VisitTypes DEF VisitStates
  <2>2. session' \in [Sessions -> SessionValues] /\ VisitsOK'
    BY <1>0, <1>1, <2>1, PutTypes DEF CreateSession
  <2> QED
    BY <1>0, <1>1, <2>2 DEF CreateSession, SessionsOK
<1>2. ASSUME NEW c \in SessionCallers, AddToUser(c) \/ ListSessions(c)
      PROVE  SessionsOK' /\ VisitsOK'
  <2>1. /\ [visit[c] EXCEPT !.at = "list"] \in VisitStates
        /\ [visit[c] EXCEPT !.at = "read", !.unread = owned] \in VisitStates
    BY DEF VisitsOK, VisitStates, HistoriesOK
  <2> QED
    BY <1>2, <2>1, ToTypes DEF AddToUser, ListSessions, SessionsOK
<1>3. ASSUME NEW c \in SessionCallers, NEW s \in Sessions, ReadListed(c, s)
      PROVE  SessionsOK' /\ VisitsOK'
  <2>1. session[s].updated \in Nat
    BY DEF SessionsOK, SessionValues
  <2> DEFINE ages == IF session[s].live THEN visit[c].ages \cup {<<s, session[s].updated>>}
                     ELSE visit[c].ages
  <2>2. visit[c] \in VisitStates /\ ages \in SUBSET (Sessions \X Nat)
    BY <2>1 DEF VisitsOK, VisitStates
  <2>3. To(c, [visit[c] EXCEPT !.unread = visit[c].unread \ {s}, !.ages = ages])
    BY <1>3 DEF ReadListed
  <2> HIDE DEF ages
  <2>4. [visit[c] EXCEPT !.unread = visit[c].unread \ {s}, !.ages = ages] \in VisitStates
    BY <2>2 DEF VisitStates
  <2> QED
    BY <1>3, <2>3, <2>4, ToTypes DEF ReadListed, SessionsOK
<1>4. ASSUME NEW c \in SessionCallers, EnforceLimit(c) PROVE SessionsOK' /\ VisitsOK'
  <2>1. PICK kept \in SUBSET visit[c].ages :
            LET surplus == {a[1] : a \in visit[c].ages \ kept}
            IN To(c, IF surplus = {} THEN SessionEnded
                     ELSE [visit[c] EXCEPT !.at = "drop", !.ages = {}, !.surplus = surplus])
    BY <1>4 DEF EnforceLimit
  <2> DEFINE surplus == {a[1] : a \in visit[c].ages \ kept}
  <2>2. surplus \in SUBSET Sessions
    <3>1. \A a \in visit[c].ages : a[1] \in Sessions
      BY DEF VisitsOK, VisitStates
    <3> QED
      BY <3>1
  <2>3. To(c, IF surplus = {} THEN SessionEnded
              ELSE [visit[c] EXCEPT !.at = "drop", !.ages = {}, !.surplus = surplus])
    BY <2>1
  <2> HIDE DEF surplus
  <2>5. [visit[c] EXCEPT !.at = "drop", !.ages = {}, !.surplus = surplus] \in VisitStates
    <3>1. visit[c] \in VisitStates
      BY DEF VisitsOK
    <3> QED
      BY <2>2, <3>1 DEF VisitStates
  <2>4. VisitsOK'
    BY <2>3, <2>5, VisitTypes, ToTypes
  <2> QED
    BY <1>4, <2>4 DEF EnforceLimit, SessionsOK
<1>5. ASSUME NEW c \in SessionCallers, NEW s \in Sessions, DeleteSession(c, s)
      PROVE  SessionsOK' /\ VisitsOK'
  BY <1>5, VisitTypes DEF DeleteSession, To, SessionsOK, VisitsOK, VisitStates
<1>6. ASSUME NEW c \in SessionCallers, NEW s \in Sessions, DropSession(c, s)
      PROVE  SessionsOK' /\ VisitsOK'
  <2>1. [visit[c] EXCEPT !.at = "srem", !.unread = {s}] \in VisitStates
    BY DEF VisitsOK, VisitStates
  <2>2. CASE session[s].live
    <3>1. Put(c, s, GoneSession, [visit[c] EXCEPT !.at = "srem", !.unread = {s}])
      BY <1>6, <2>2 DEF DropSession
    <3>2. session' \in [Sessions -> SessionValues] /\ VisitsOK'
      BY <2>1, <3>1, PutTypes, VisitTypes
    <3> QED
      BY <1>6, <3>2 DEF DropSession, SessionsOK
  <2>3. CASE ~session[s].live
    BY <1>6, <2>3, AfterDropType DEF DropSession, To, SessionsOK, VisitsOK
  <2> QED
    BY <2>2, <2>3
<1>7. ASSUME NEW c \in SessionCallers, NEW s \in Sessions, RemoveFromUser(c, s)
      PROVE  SessionsOK' /\ VisitsOK'
  BY <1>7, AfterDropType DEF RemoveFromUser, To, SessionsOK, VisitsOK
<1>8. ASSUME NEW c \in SessionCallers, NEW s \in Sessions, NEW op \in {"add", "clear"},
             ReadSession(c, op, s)
      PROVE  SessionsOK' /\ VisitsOK'
  <2>1. /\ session[s] \in SessionValues
        /\ [NoVisit EXCEPT !.at = "write", !.op = op, !.id = {s}, !.copy = session[s]] \in VisitStates
    BY VisitTypes DEF SessionsOK, VisitStates
  <2> QED
    BY <1>8, <2>1, VisitTypes, ToTypes DEF ReadSession, SessionsOK
<1>9. ASSUME NEW c \in SessionCallers, NEW s \in Sessions, AddMessage(c, s) \/ ClearSession(c, s)
      PROVE  SessionsOK' /\ VisitsOK'
  <2> DEFINE copy == visit[c].copy
             longer == [copy EXCEPT !.messages = LastMessages(Append(copy.messages, c)),
                                    !.total = copy.total + 1]
             cleared == [copy EXCEPT !.messages = <<>>, !.total = 0]
  <2>1. /\ [longer EXCEPT !.updated = now + 1] \in SessionValues
        /\ [cleared EXCEPT !.updated = now + 1] \in SessionValues
    BY <1>0, CopyTypes
  <2>2. Append(sent[s], c) \in Seq(SessionCallers) /\ <<>> \in Seq(SessionCallers)
    BY DEF SessionsOK
  <2>3. \/ Save(c, s, longer, Append(sent[s], c))
        \/ Save(c, s, cleared, <<>>)
    BY <1>9 DEF AddMessage, ClearSession
  <2> HIDE DEF longer, cleared
  <2>4. ASSUME NEW v, NEW m \in Seq(SessionCallers), [v EXCEPT !.updated = now + 1] \in SessionValues,
               Save(c, s, v, m)
        PROVE  SessionsOK' /\ VisitsOK'
    <3>1. session' \in [Sessions -> SessionValues] /\ VisitsOK'
      BY <2>4, PutTypes, VisitTypes DEF Save
    <3> QED
      BY <1>0, <2>4, <3>1 DEF Save, SessionsOK
  <2> QED
    BY <2>1, <2>2, <2>3, <2>4
<1>10. ASSUME NEW c \in SessionCallers, CallStops(c) PROVE SessionsOK' /\ VisitsOK'
  BY <1>10, VisitTypes DEF CallStops, To, SessionsOK, VisitsOK
<1>11. ASSUME NEW s \in Sessions, ExpireSession(s) PROVE SessionsOK' /\ VisitsOK'
  <2>1. \A d \in SessionCallers : [visit[d] EXCEPT !.stale = TRUE] \in VisitStates
    BY DEF VisitsOK, VisitStates
  <2> QED
    BY <1>11, <2>1, VisitTypes DEF ExpireSession, SessionsOK, VisitsOK
<1>12. CASE ExpireUserSet \/ UNCHANGED sessionVars
  BY <1>12 DEF ExpireUserSet, sessionVars, SessionsOK, VisitsOK
<1> QED
  BY <1>1, <1>2, <1>3, <1>4, <1>5, <1>6, <1>7, <1>8, <1>9, <1>10, <1>11, <1>12
     DEF SessionNext, SessionStep

\* A step of call c that leaves v of it; the others may learn that their copy is stale.
SameCall(d) ==
    /\ visit'[d].at = visit[d].at /\ visit'[d].op = visit[d].op /\ visit'[d].id = visit[d].id
    /\ visit'[d].copy = visit[d].copy /\ visit'[d].unread = visit[d].unread
    /\ visit'[d].ages = visit[d].ages /\ visit'[d].surplus = visit[d].surplus
    /\ visit[d].stale => visit'[d].stale
Moves(c, v) == visit'[c] = v /\ \A d \in SessionCallers \ {c} : SameCall(d)

\* A step that writes no session moves one call only.
LEMMA ToMoves ==
    ASSUME VisitsOK, NEW c \in SessionCallers, NEW v, To(c, v)
    PROVE  Moves(c, v)
BY DEF To, Moves, SameCall, VisitsOK

\* A step that writes session s moves one call, and tells the others that hold s.
LEMMA PutMoves ==
    ASSUME SessionsOK, VisitsOK, NEW c \in SessionCallers, NEW s \in Sessions, NEW v, NEW next,
           Put(c, s, v, next)
    PROVE  /\ Moves(c, next)
           /\ session'[s] = v /\ \A o \in Sessions \ {s} : session'[o] = session[o]
           /\ \A d \in SessionCallers \ {c} : s \in visit[d].id => visit'[d].stale
<1>1. \A d \in SessionCallers : visit[d] \in VisitStates
  BY DEF VisitsOK
<1>2. \A d \in SessionCallers :
        LET x == [visit[d] EXCEPT !.stale = TRUE]
        IN /\ x.at = visit[d].at /\ x.op = visit[d].op /\ x.id = visit[d].id
           /\ x.copy = visit[d].copy /\ x.unread = visit[d].unread
           /\ x.ages = visit[d].ages /\ x.surplus = visit[d].surplus /\ x.stale = TRUE
  BY <1>1 DEF VisitStates
<1>3. \A d \in SessionCallers :
        visit'[d] = IF d = c THEN next
                    ELSE IF s \in visit[d].id THEN [visit[d] EXCEPT !.stale = TRUE] ELSE visit[d]
  BY DEF Put
<1>4. Moves(c, next)
  BY <1>2, <1>3 DEF Moves, SameCall
<1>5. \A d \in SessionCallers \ {c} : s \in visit[d].id => visit'[d].stale
  BY <1>2, <1>3
<1>6. session'[s] = v /\ \A o \in Sessions \ {s} : session'[o] = session[o]
  BY DEF Put, SessionsOK
<1> QED
  BY <1>4, <1>5, <1>6

\* A call moves, the sessions do not.
LEMMA QuietKeeps ==
    ASSUME SessionInv, NEW c \in SessionCallers, NEW v, Moves(c, v), VisitOK(v),
           UNCHANGED <<session, sent, born, contested, forgotten>>,
           v.at = "write" /\ ~v.stale => \A s \in v.id : session[s].live /\ v.copy = session[s],
           owned' \subseteq Sessions, uncounted \subseteq uncounted'
    PROVE  StagesOK' /\ HistoriesOK' /\ CopiesHold' /\ MessagesKept' /\ DeletedIsForgotten'
<1>1. StagesOK'
  <2> SUFFICES ASSUME NEW d \in SessionCallers PROVE VisitOK(visit[d])'
    BY DEF StagesOK
  <2>1. CASE d = c
    BY <2>1 DEF Moves, VisitOK
  <2>2. CASE d # c
    BY <2>2 DEF Moves, SameCall, VisitOK, SessionInv, SessTypeOK, StagesOK
  <2> QED
    BY <2>1, <2>2
<1>2. HistoriesOK'
  BY DEF SessionInv, SessTypeOK, HistoriesOK
<1>3. CopiesHold'
  BY DEF Moves, SameCall, SessionInv, CopiesHold
<1>4. MessagesKept' /\ DeletedIsForgotten'
  BY DEF SessionInv, MessagesKept, DeletedIsForgotten
<1> QED
  BY <1>1, <1>2, <1>3, <1>4

\* A session changes, and the calls that hold a copy of it learn so.
LEMMA CopiesKeep ==
    ASSUME VisitsOK, CopiesHold, NEW s \in Sessions, NEW d \in SessionCallers, SameCall(d),
           s \in visit[d].id => visit'[d].stale,
           \A o \in Sessions \ {s} : session'[o] = session[o]
    PROVE  visit'[d].at = "write" /\ ~visit'[d].stale =>
               \A o \in visit'[d].id : session'[o].live /\ visit'[d].copy = session'[o]
<1>1. visit[d].id \subseteq Sessions
  BY DEF VisitsOK, VisitStates
<1> SUFFICES ASSUME visit'[d].at = "write", ~visit'[d].stale, NEW o \in visit'[d].id
             PROVE  session'[o].live /\ visit'[d].copy = session'[o]
  OBVIOUS
<1>2. o \in visit[d].id /\ o # s /\ o \in Sessions
  BY <1>1 DEF SameCall
<1> QED
  BY <1>2 DEF SameCall, CopiesHold

\* create_session draws a session that nobody holds, with no messages.
LEMMA CreateKeeps ==
    ASSUME SessionInv, NEW c \in SessionCallers, NEW s \in Sessions, CreateSession(c, s)
    PROVE  StagesOK' /\ HistoriesOK' /\ CopiesHold' /\ MessagesKept' /\ DeletedIsForgotten'
<1> DEFINE next == [NoVisit EXCEPT !.at = "sadd", !.op = "create", !.id = {s}]
<1>0. SessionsOK /\ VisitsOK /\ HistoriesOK /\ StagesOK
  BY DEF SessionInv, SessTypeOK
<1>1. /\ s \notin born /\ Put(c, s, NewSession(now + 1), next)
      /\ born' = born \cup {s}
      /\ UNCHANGED <<owned, sent, contested, forgotten, uncounted>>
  BY DEF CreateSession
<1>2. /\ Moves(c, next)
      /\ session'[s] = NewSession(now + 1) /\ \A o \in Sessions \ {s} : session'[o] = session[o]
      /\ \A d \in SessionCallers \ {c} : s \in visit[d].id => visit'[d].stale
  BY <1>0, <1>1, PutMoves
<1>3. /\ next.at = "sadd" /\ next.op = "create" /\ next.id = {s} /\ next.ages = {}
  BY DEF NoVisit
<1> HIDE DEF next
<1>4. StagesOK'
  <2> SUFFICES ASSUME NEW d \in SessionCallers PROVE VisitOK(visit[d])'
    BY DEF StagesOK
  <2>1. CASE d = c
    BY <1>1, <1>2, <1>3, <2>1, FS_EmptySet DEF Moves, VisitOK
  <2>2. CASE d # c
    BY <1>0, <1>1, <1>2, <2>2 DEF Moves, SameCall, VisitOK, StagesOK
  <2> QED
    BY <2>1, <2>2
<1>5. HistoriesOK'
  BY <1>0, <1>1, <1>2 DEF HistoriesOK
<1>6. CopiesHold'
  <2>1. visit'[c].at # "write"
    BY <1>2, <1>3 DEF Moves
  <2> QED
    BY <1>0, <1>2, <2>1, CopiesKeep DEF Moves, SessionInv, CopiesHold
<1>7. MessagesKept'
  <2>1. sent[s] = <<>>
    BY <1>0, <1>1 DEF HistoriesOK
  <2>2. LastMessages(<<>>) = <<>> /\ Len(<<>>) = 0
    <3>1. <<>> \in Seq(SessionCallers) /\ Len(<<>>) = 0 /\ 0 <= MaxMessages
      BY SessionNumbers
    <3> QED
      BY <3>1, LastType
  <2>3. session'[s].messages = <<>> /\ session'[s].total = 0
    BY <1>2 DEF NewSession
  <2> QED
    BY <1>1, <1>2, <2>1, <2>2, <2>3 DEF SessionInv, MessagesKept
<1>8. DeletedIsForgotten'
  BY <1>0, <1>1, <1>2 DEF SessionInv, DeletedIsForgotten, HistoriesOK
<1> QED
  BY <1>4, <1>5, <1>6, <1>7, <1>8

\* DEL of a session that lives.
LEMMA DropKeeps ==
    ASSUME SessionInv, NEW c \in SessionCallers, NEW s \in Sessions, DropSession(c, s),
           session[s].live
    PROVE  StagesOK' /\ HistoriesOK' /\ CopiesHold' /\ MessagesKept' /\ DeletedIsForgotten'
<1> DEFINE next == [visit[c] EXCEPT !.at = "srem", !.unread = {s}]
<1>0. SessionsOK /\ VisitsOK /\ HistoriesOK /\ StagesOK
  BY DEF SessionInv, SessTypeOK
<1>1. /\ visit[c].at = "drop" /\ Put(c, s, GoneSession, next)
      /\ forgotten' = forgotten \cup {s}
      /\ UNCHANGED <<owned, born, sent, contested, uncounted>>
  BY DEF DropSession, Reached
<1>2. /\ Moves(c, next)
      /\ session'[s] = GoneSession /\ \A o \in Sessions \ {s} : session'[o] = session[o]
      /\ \A d \in SessionCallers \ {c} : s \in visit[d].id => visit'[d].stale
  BY <1>0, <1>1, PutMoves
<1>3. /\ next.at = "srem" /\ next.op = visit[c].op /\ next.id = visit[c].id
      /\ next.unread = {s} /\ next.ages = visit[c].ages
  BY <1>0 DEF VisitsOK, VisitStates
<1> HIDE DEF next
<1>4. s \in born /\ ~GoneSession.live
  BY <1>0 DEF HistoriesOK, GoneSession
<1>5. StagesOK'
  <2> SUFFICES ASSUME NEW d \in SessionCallers PROVE VisitOK(visit[d])'
    BY DEF StagesOK
  <2>1. CASE d = c
    BY <1>0, <1>1, <1>2, <1>3, <2>1 DEF Moves, VisitOK, StagesOK
  <2>2. CASE d # c
    BY <1>0, <1>1, <1>2, <2>2 DEF Moves, SameCall, VisitOK, StagesOK
  <2> QED
    BY <2>1, <2>2
<1>6. HistoriesOK'
  BY <1>0, <1>1, <1>2, <1>4 DEF HistoriesOK
<1>7. CopiesHold'
  <2>1. visit'[c].at # "write"
    BY <1>2, <1>3 DEF Moves
  <2> QED
    BY <1>0, <1>2, <2>1, CopiesKeep DEF Moves, SessionInv, CopiesHold
<1>8. MessagesKept' /\ DeletedIsForgotten'
  <2>1. ~session'[s].live
    BY <1>2, <1>4
  <2>2. \A o \in Sessions : session'[o].live => o # s /\ session'[o] = session[o]
    BY <1>2, <2>1
  <2>3. MessagesKept'
    BY <1>1, <2>2 DEF SessionInv, MessagesKept
  <2>4. DeletedIsForgotten'
    BY <1>0, <1>1, <2>2 DEF SessionInv, DeletedIsForgotten, HistoriesOK
  <2> QED
    BY <2>3, <2>4
<1> QED
  BY <1>5, <1>6, <1>7, <1>8

\* The key of a session expires: who holds a copy of it is told.
LEMMA ExpireKeeps ==
    ASSUME SessionInv, NEW s \in Sessions, ExpireSession(s)
    PROVE  StagesOK' /\ HistoriesOK' /\ CopiesHold' /\ MessagesKept' /\ DeletedIsForgotten'
<1>0. SessionsOK /\ VisitsOK /\ HistoriesOK /\ StagesOK
  BY DEF SessionInv, SessTypeOK
<1>1. UNCHANGED <<owned, born, sent, contested, forgotten, uncounted>>
  BY DEF ExpireSession
<1>2. session'[s] = GoneSession /\ \A o \in Sessions \ {s} : session'[o] = session[o]
  BY <1>0 DEF ExpireSession, SessionsOK
<1>3. \A d \in SessionCallers :
        /\ SameCall(d)
        /\ s \in visit[d].id => visit'[d].stale
  BY <1>0 DEF ExpireSession, SameCall, VisitsOK, VisitStates
<1>4. ~GoneSession.live
  BY DEF GoneSession
<1>5. StagesOK'
  BY <1>0, <1>1, <1>3 DEF SameCall, VisitOK, StagesOK
<1>6. HistoriesOK'
  BY <1>0, <1>1, <1>2, <1>4 DEF HistoriesOK
<1>7. CopiesHold'
  BY <1>0, <1>2, <1>3, CopiesKeep DEF SessionInv, CopiesHold
<1>8. MessagesKept' /\ DeletedIsForgotten'
  <2>1. ~session'[s].live
    BY <1>2, <1>4
  <2>2. \A o \in Sessions : session'[o].live => o # s /\ session'[o] = session[o]
    BY <1>2, <2>1
  <2>3. MessagesKept'
    BY <1>1, <2>2 DEF SessionInv, MessagesKept
  <2>4. DeletedIsForgotten'
    BY <1>0, <1>1, <2>2 DEF SessionInv, DeletedIsForgotten, HistoriesOK
  <2> QED
    BY <2>3, <2>4
<1> QED
  BY <1>5, <1>6, <1>7, <1>8

\* SET of a copy with messages m: what the history says of it holds if the copy was
\* not stale, and else the session is contested.
LEMMA SaveKeeps ==
    ASSUME SessionInv, NEW c \in SessionCallers, NEW s \in Sessions, NEW value, NEW m,
           visit[c].at = "write", s \in visit[c].id, Save(c, s, value, m),
           value.live = visit[c].copy.live,
           [value EXCEPT !.updated = now + 1].live = value.live,
           [value EXCEPT !.updated = now + 1].messages = value.messages,
           [value EXCEPT !.updated = now + 1].total = value.total,
           ~visit[c].stale /\ s \notin contested =>
               value.messages = LastMessages(m) /\ value.total = Len(m)
    PROVE  /\ StagesOK' /\ HistoriesOK' /\ CopiesHold' /\ MessagesKept' /\ DeletedIsForgotten'
           /\ Counted' \subseteq Counted
<1> DEFINE new == [value EXCEPT !.updated = now + 1]
<1>0. SessionsOK /\ VisitsOK /\ HistoriesOK /\ StagesOK
  BY DEF SessionInv, SessTypeOK
<1>1. /\ Put(c, s, new, SessionEnded)
      /\ sent' = [sent EXCEPT ![s] = m]
      /\ contested' = IF visit[c].stale THEN contested \cup {s} ELSE contested
      /\ uncounted' = IF visit[c].stale THEN uncounted \cup {s} ELSE uncounted
      /\ UNCHANGED <<owned, born, forgotten>>
  BY DEF Save
<1>2. /\ Moves(c, SessionEnded)
      /\ session'[s] = new /\ \A o \in Sessions \ {s} : session'[o] = session[o]
      /\ \A d \in SessionCallers \ {c} : s \in visit[d].id => visit'[d].stale
  BY <1>0, <1>1, PutMoves
<1>3. new.live = visit[c].copy.live /\ new.messages = value.messages /\ new.total = value.total
  OBVIOUS
<1> HIDE DEF new
<1>4. /\ SessionEnded.at = "end" /\ SessionEnded.op = "none" /\ SessionEnded.id = {}
      /\ SessionEnded.ages = {}
  BY DEF SessionEnded, NoVisit
<1>5. ~visit[c].stale => session[s].live /\ visit[c].copy = session[s]
  BY DEF SessionInv, CopiesHold
<1>6. s \in born
  BY <1>0 DEF StagesOK, VisitOK
<1>7. /\ sent'[s] = m /\ \A o \in Sessions \ {s} : sent'[o] = sent[o]
  BY <1>0, <1>1 DEF SessionsOK
<1>8. StagesOK'
  <2> SUFFICES ASSUME NEW d \in SessionCallers PROVE VisitOK(visit[d])'
    BY DEF StagesOK
  <2>1. CASE d = c
    BY <1>2, <1>4, <2>1, FS_EmptySet DEF Moves, VisitOK
  <2>2. CASE d # c
    BY <1>0, <1>1, <1>2, <2>2 DEF Moves, SameCall, VisitOK, StagesOK
  <2> QED
    BY <2>1, <2>2
<1>9. HistoriesOK'
  <2>1. \A o \in Sessions \ born' : o # s /\ session'[o] = session[o] /\ sent'[o] = sent[o]
    BY <1>1, <1>2, <1>6, <1>7
  <2> QED
    BY <1>0, <1>1, <2>1 DEF HistoriesOK
<1>10. CopiesHold'
  <2>1. visit'[c].at # "write"
    BY <1>2, <1>4 DEF Moves
  <2> QED
    BY <1>0, <1>2, <2>1, CopiesKeep DEF Moves, SessionInv, CopiesHold
<1>11. MessagesKept'
  <2> SUFFICES ASSUME NEW o \in Sessions \ contested', session'[o].live
               PROVE  session'[o].messages = LastMessages(sent'[o]) /\ session'[o].total = Len(sent'[o])
    BY DEF MessagesKept
  <2>1. CASE o = s
    <3>1. ~visit[c].stale /\ s \notin contested
      BY <1>1, <2>1
    <3> QED
      BY <1>2, <1>3, <1>7, <2>1, <3>1
  <2>2. CASE o # s
    BY <1>1, <1>2, <1>7, <2>2 DEF SessionInv, MessagesKept
  <2> QED
    BY <2>1, <2>2
<1>12. DeletedIsForgotten'
  <2> SUFFICES ASSUME NEW o \in forgotten', o \notin contested', session'[o].live PROVE FALSE
    BY DEF DeletedIsForgotten
  <2>1. o \in Sessions /\ o \in forgotten /\ o \notin contested
    BY <1>0, <1>1 DEF HistoriesOK
  <2>2. ~session[o].live
    BY <2>1 DEF SessionInv, DeletedIsForgotten
  <2> QED
    BY <1>1, <1>2, <1>5, <2>1, <2>2
<1>13. Counted' \subseteq Counted
  <2> SUFFICES ASSUME NEW o \in Sessions \ uncounted', session'[o].live
               PROVE  o \notin uncounted /\ session[o].live
    BY DEF Counted
  <2> QED
    BY <1>1, <1>2, <1>5
<1> QED
  BY <1>8, <1>9, <1>10, <1>11, <1>12, <1>13

\* add_message and clear_session write such a copy.
LEMMA WriteKeeps ==
    ASSUME SessionInv, NEW c \in SessionCallers, NEW s \in Sessions,
           AddMessage(c, s) \/ ClearSession(c, s)
    PROVE  /\ StagesOK' /\ HistoriesOK' /\ CopiesHold' /\ MessagesKept' /\ DeletedIsForgotten'
           /\ Counted' \subseteq Counted
           /\ owned' = owned /\ visit[c].at = "write"
           /\ Moves(c, SessionEnded)
<1> DEFINE copy == visit[c].copy
           k == LastMessages(Append(copy.messages, c))
           longer == [copy EXCEPT !.messages = k, !.total = copy.total + 1]
           cleared == [copy EXCEPT !.messages = <<>>, !.total = 0]
<1>0. SessionsOK /\ VisitsOK /\ copy \in SessionValues /\ now + 1 \in Nat
  BY DEF SessionInv, SessTypeOK, SessionsOK, VisitsOK, VisitStates
<1>1. /\ visit[c].at = "write" /\ s \in visit[c].id
      /\ \/ Save(c, s, longer, Append(sent[s], c))
         \/ Save(c, s, cleared, <<>>)
  BY DEF AddMessage, ClearSession, Reached
<1>2. longer \in SessionValues /\ cleared \in SessionValues
  BY <1>0, CopyTypes
<1> HIDE DEF k
<1>3. /\ longer.live = copy.live /\ longer.messages = k /\ longer.total = copy.total + 1
      /\ cleared.live = copy.live /\ cleared.messages = <<>> /\ cleared.total = 0
  BY <1>0 DEF SessionValues
<1> HIDE DEF longer, cleared
<1>4. \A v \in SessionValues :
          /\ [v EXCEPT !.updated = now + 1].live = v.live
          /\ [v EXCEPT !.updated = now + 1].messages = v.messages
          /\ [v EXCEPT !.updated = now + 1].total = v.total
  BY DEF SessionValues
<1>5. ASSUME Save(c, s, longer, Append(sent[s], c))
      PROVE  /\ StagesOK' /\ HistoriesOK' /\ CopiesHold' /\ MessagesKept' /\ DeletedIsForgotten'
             /\ Counted' \subseteq Counted
  <2>1. ASSUME ~visit[c].stale, s \notin contested
        PROVE  k = LastMessages(Append(sent[s], c)) /\ copy.total + 1 = Len(Append(sent[s], c))
    <3>1. session[s].live /\ copy = session[s]
      BY <1>1, <2>1 DEF SessionInv, CopiesHold
    <3>2. copy.messages = LastMessages(sent[s]) /\ copy.total = Len(sent[s])
      BY <2>1, <3>1 DEF SessionInv, MessagesKept
    <3>3. sent[s] \in Seq(SessionCallers)
      BY <1>0 DEF SessionsOK
    <3>4. k = LastMessages(Append(sent[s], c))
      BY <3>2, <3>3, LastOfLast DEF k
    <3> QED
      BY <3>2, <3>3, <3>4
  <2>2. /\ visit[c].at = "write" /\ s \in visit[c].id
        /\ longer.live = visit[c].copy.live
        /\ [longer EXCEPT !.updated = now + 1].live = longer.live
        /\ [longer EXCEPT !.updated = now + 1].messages = longer.messages
        /\ [longer EXCEPT !.updated = now + 1].total = longer.total
        /\ ~visit[c].stale /\ s \notin contested =>
              /\ longer.messages = LastMessages(Append(sent[s], c))
              /\ longer.total = Len(Append(sent[s], c))
    BY <1>1, <1>2, <1>3, <1>4, <2>1
  <2> QED
    BY <1>5, <2>2, SaveKeeps
<1>6. ASSUME Save(c, s, cleared, <<>>)
      PROVE  /\ StagesOK' /\ HistoriesOK' /\ CopiesHold' /\ MessagesKept' /\ DeletedIsForgotten'
             /\ Counted' \subseteq Counted
  <2>1. <<>> = LastMessages(<<>>) /\ 0 = Len(<<>>)
    <3>1. <<>> \in Seq(SessionCallers) /\ Len(<<>>) = 0 /\ 0 <= MaxMessages
      BY SessionNumbers
    <3> QED
      BY <3>1, LastType
  <2>2. /\ visit[c].at = "write" /\ s \in visit[c].id
        /\ cleared.live = visit[c].copy.live
        /\ [cleared EXCEPT !.updated = now + 1].live = cleared.live
        /\ [cleared EXCEPT !.updated = now + 1].messages = cleared.messages
        /\ [cleared EXCEPT !.updated = now + 1].total = cleared.total
        /\ ~visit[c].stale /\ s \notin contested =>
              /\ cleared.messages = LastMessages(<<>>)
              /\ cleared.total = Len(<<>>)
    BY <1>1, <1>2, <1>3, <1>4, <2>1
  <2> QED
    BY <1>6, <2>2, SaveKeeps
<1>7. PICK v : Put(c, s, v, SessionEnded)
  BY <1>1 DEF Save
<1>8. Moves(c, SessionEnded)
  BY <1>0, <1>7, PutMoves
<1>9. owned' = owned
  BY <1>1 DEF Save
<1> QED
  BY <1>1, <1>5, <1>6, <1>8, <1>9

\* What is read, or kept, of a set is read, or kept, of its subsets.
LEMMA CoversLess ==
    ASSUME NEW v, NEW S \in SUBSET Sessions, NEW T \in SUBSET S
    PROVE  /\ Covers(v, S) => Covers(v, T)
           /\ Cardinality(S) <= MaxPerUser => Cardinality(T) <= MaxPerUser
<1>1. ASSUME NEW A \in SUBSET Sessions, NEW B \in SUBSET A, Cardinality(A) <= MaxPerUser
      PROVE  Cardinality(B) <= MaxPerUser
  <2>1. IsFiniteSet(A)
    BY SessionNumbers, FS_Subset
  <2>2. IsFiniteSet(B) /\ Cardinality(B) <= Cardinality(A)
    BY <2>1, FS_Subset
  <2>3. Cardinality(A) \in Nat /\ Cardinality(B) \in Nat
    BY <2>1, <2>2, FS_CardinalityType
  <2> QED
    BY <1>1, <2>2, <2>3, SessionNumbers
<1>2. S \ v.surplus \in SUBSET Sessions /\ T \ v.surplus \in SUBSET (S \ v.surplus)
  OBVIOUS
<1>3. Cardinality(S \ v.surplus) <= MaxPerUser => Cardinality(T \ v.surplus) <= MaxPerUser
  BY <1>1, <1>2
<1> QED
  BY <1>1, <1>3 DEF Covers

\* What Y watches after a step, X did before it, when every other call that creates goes
\* on or what it drew is counted no more.
LEMMA WatchedLess ==
    ASSUME NEW X, NEW Y, Counted' \subseteq Counted,
           \A d \in Creating \ Y :
               \/ d \in Creating' \ X /\ visit'[d].id = visit[d].id
               \/ visit[d].id \cap Counted' = {}
    PROVE  Watched(X)' \subseteq Watched(Y)
<1> SUFFICES ASSUME NEW s \in Counted', s \notin Drawn(Creating \ X)', s \in Drawn(Creating \ Y)
             PROVE  FALSE
  BY DEF Watched
<1>1. PICK d \in Creating \ Y : s \in visit[d].id
  BY DEF Drawn
<1>2. d \in Creating' \ X /\ s \in visit'[d].id
  BY <1>1
<1> QED
  BY <1>2 DEF Drawn

\* What is watched is counted.
LEMMA WatchedOf ==
    ASSUME NEW X
    PROVE  Watched(X) \subseteq Counted /\ Watched(X) \subseteq Sessions
BY DEF Watched, Counted

\* LimitHolds is preserved when no more is watched and no call covers less.
LEMMA LimitGoes ==
    ASSUME LimitHolds, Listed' \subseteq Listed,
           \A X \in SUBSET Listed' : Watched(X)' \subseteq Watched(X),
           \A d \in Listed' : \A S \in SUBSET Counted' : Covers(visit[d], S) => Covers(visit'[d], S)
    PROVE  LimitHolds'
<1> SUFFICES ASSUME NEW X \in SUBSET Listed'
             PROVE  \/ Cardinality(Watched(X)') <= MaxPerUser
                    \/ \E c \in X : Covers(visit'[c], Watched(X)')
  BY DEF LimitHolds
<1> DEFINE S == Watched(X)
           T == Watched(X)'
<1>1. T \in SUBSET S /\ S \in SUBSET Sessions /\ T \in SUBSET Counted'
  <2>1. T \subseteq Counted'
    BY DEF Watched
  <2> QED
    BY <2>1, WatchedOf
<1>2. Cardinality(S) <= MaxPerUser \/ \E c \in X : Covers(visit[c], S)
  BY DEF LimitHolds
<1> HIDE DEF S, T
<1>3. CASE Cardinality(S) <= MaxPerUser
  BY <1>1, <1>3, CoversLess DEF T
<1>4. ASSUME NEW c \in X, Covers(visit[c], S)
      PROVE  Covers(visit'[c], T)
  <2>1. Covers(visit[c], T)
    BY <1>1, <1>4, CoversLess
  <2> QED
    BY <1>1, <2>1
<1> QED
  BY <1>2, <1>3, <1>4 DEF T

\* The fields of a call that the limit depends on.
LEMMA SameCovers ==
    ASSUME NEW d, SameCall(d)
    PROVE  /\ \A S : Covers(visit[d], S) <=> Covers(visit'[d], S)
           /\ d \in SessionCallers => (d \in Listed' <=> d \in Listed)
           /\ d \in SessionCallers => (d \in Creating' <=> d \in Creating)
BY DEF SameCall, Covers, Listed, Creating

\* No call does anything.
LEMMA StillLimit ==
    ASSUME LimitHolds, Counted' \subseteq Counted, \A d \in SessionCallers : SameCall(d)
    PROVE  LimitHolds'
<1>1. Listed \subseteq Creating /\ Creating \subseteq SessionCallers
      /\ Listed' \subseteq Creating' /\ Creating' \subseteq SessionCallers
  BY DEF Listed, Creating
<1>2. Listed' \subseteq Listed
  BY <1>1, SameCovers
<1>3. \A X \in SUBSET Listed' : Watched(X)' \subseteq Watched(X)
  <2> TAKE X \in SUBSET Listed'
  <2>1. \A d \in Creating \ X : d \in Creating' \ X /\ visit'[d].id = visit[d].id
    BY <1>1, SameCovers DEF SameCall
  <2> QED
    BY <2>1, WatchedLess
<1>4. \A d \in Listed' : \A S \in SUBSET Counted' : Covers(visit[d], S) => Covers(visit'[d], S)
  BY <1>1, SameCovers
<1> QED
  BY <1>2, <1>3, <1>4, LimitGoes

\* A call goes on.
LEMMA GoesOnLimit ==
    ASSUME LimitHolds, Counted' \subseteq Counted, NEW c \in SessionCallers, NEW v, Moves(c, v),
           v.op = visit[c].op, v.id = visit[c].id,
           v.at \in {"read", "drop", "srem"} => visit[c].at \in {"read", "drop", "srem"},
           c \in Listed => \A S \in SUBSET Counted' : Covers(visit[c], S) => Covers(v, S)
    PROVE  LimitHolds'
<1>1. Listed \subseteq Creating /\ Creating \subseteq SessionCallers
      /\ Listed' \subseteq Creating' /\ Creating' \subseteq SessionCallers
  BY DEF Listed, Creating
<1>2. visit'[c] = v /\ \A d \in SessionCallers \ {c} : SameCall(d)
  BY DEF Moves
<1>3. (c \in Creating' <=> c \in Creating) /\ (c \in Listed' => c \in Listed)
  BY <1>2 DEF Listed, Creating
<1>4. \A d \in SessionCallers : (d \in Creating' <=> d \in Creating) /\ visit'[d].id = visit[d].id
  BY <1>2, <1>3, SameCovers DEF SameCall
<1>5. Listed' \subseteq Listed
  BY <1>1, <1>2, <1>3, SameCovers
<1>6. \A X \in SUBSET Listed' : Watched(X)' \subseteq Watched(X)
  <2> TAKE X \in SUBSET Listed'
  <2>1. \A d \in Creating \ X : d \in Creating' \ X /\ visit'[d].id = visit[d].id
    BY <1>1, <1>4
  <2> QED
    BY <2>1, WatchedLess
<1>7. \A d \in Listed' : \A S \in SUBSET Counted' : Covers(visit[d], S) => Covers(visit'[d], S)
  BY <1>1, <1>2, <1>5, SameCovers
<1> QED
  BY <1>5, <1>6, <1>7, LimitGoes

\* A call that is not, or no longer, one that creates.
LEMMA EndsLimit ==
    ASSUME LimitHolds, Counted' \subseteq Counted, NEW c \in SessionCallers, NEW v, Moves(c, v),
           v.op # "create",
           c \in Creating =>
               \/ visit[c].id \cap Counted' = {}
               \/ /\ c \in Listed
                  /\ \A S \in SUBSET Counted' : Covers(visit[c], S) => Cardinality(S) <= MaxPerUser
    PROVE  LimitHolds'
<1>1. Listed \subseteq Creating /\ Creating \subseteq SessionCallers
      /\ Listed' \subseteq Creating' /\ Creating' \subseteq SessionCallers
  BY DEF Listed, Creating
<1>2. visit'[c] = v /\ \A d \in SessionCallers \ {c} : SameCall(d)
  BY DEF Moves
<1>3. c \notin Creating' /\ c \notin Listed'
  BY <1>1, <1>2 DEF Creating
<1>4. \A d \in SessionCallers \ {c} :
        /\ (d \in Creating' <=> d \in Creating) /\ visit'[d].id = visit[d].id
        /\ (d \in Listed' <=> d \in Listed)
        /\ \A S : Covers(visit[d], S) <=> Covers(visit'[d], S)
  BY <1>2, SameCovers DEF SameCall
<1>5. Listed' \subseteq Listed
  BY <1>1, <1>3, <1>4
<1>6. CASE c \in Creating => visit[c].id \cap Counted' = {}
  <2>1. \A X \in SUBSET Listed' : Watched(X)' \subseteq Watched(X)
    <3> TAKE X \in SUBSET Listed'
    <3>1. \A d \in Creating \ X :
            \/ d \in Creating' \ X /\ visit'[d].id = visit[d].id
            \/ visit[d].id \cap Counted' = {}
      BY <1>1, <1>4, <1>6
    <3> QED
      BY <3>1, WatchedLess
  <2>2. \A d \in Listed' : \A S \in SUBSET Counted' : Covers(visit[d], S) => Covers(visit'[d], S)
    BY <1>1, <1>3, <1>4
  <2> QED
    BY <1>5, <2>1, <2>2, LimitGoes
<1>7. CASE /\ c \in Listed
           /\ \A S \in SUBSET Counted' : Covers(visit[c], S) => Cardinality(S) <= MaxPerUser
  <2> SUFFICES ASSUME NEW X \in SUBSET Listed'
               PROVE  \/ Cardinality(Watched(X)') <= MaxPerUser
                      \/ \E d \in X : Covers(visit'[d], Watched(X)')
    BY DEF LimitHolds
  <2> DEFINE Y == X \cup {c}
             S == Watched(Y)
             T == Watched(X)'
  <2>1. Y \in SUBSET Listed
    BY <1>5, <1>7
  <2>2. T \in SUBSET S
    <3>1. \A d \in Creating \ Y : d \in Creating' \ X /\ visit'[d].id = visit[d].id
      BY <1>1, <1>4
    <3> HIDE DEF Y
    <3> QED
      BY <3>1, WatchedLess
  <2>3. S \in SUBSET Sessions /\ T \in SUBSET Counted'
    <3>1. T \subseteq Counted'
      BY DEF Watched
    <3> QED
      BY <3>1, WatchedOf
  <2>4. Cardinality(S) <= MaxPerUser \/ \E d \in Y : Covers(visit[d], S)
    <3> HIDE DEF Y
    <3> QED
      BY <2>1 DEF LimitHolds
  <2> HIDE DEF S, T
  <2>5. CASE Cardinality(S) <= MaxPerUser
    BY <2>2, <2>3, <2>5, CoversLess DEF T
  <2>6. CASE Covers(visit[c], S)
    <3>1. Covers(visit[c], T)
      BY <2>2, <2>3, <2>6, CoversLess
    <3> QED
      BY <1>7, <2>3, <3>1 DEF T
  <2>7. ASSUME NEW d \in X, Covers(visit[d], S)
        PROVE  Covers(visit'[d], T)
    <3>1. Covers(visit[d], T)
      BY <2>2, <2>3, <2>7, CoversLess
    <3> QED
      BY <1>1, <1>3, <1>4, <3>1
  <2> QED
    BY <2>4, <2>5, <2>6, <2>7 DEF T
<1> QED
  BY <1>6, <1>7

\* What the user's set holds.
LEMMA OwnedGoes ==
    ASSUME OwnedHold, Counted' \subseteq Counted, Counted' \cap owned \subseteq owned',
           \A d \in SessionCallers : visit[d].at = "sadd" =>
               \/ visit'[d].at = "sadd" /\ visit'[d].id = visit[d].id
               \/ visit[d].id \cap Counted' \subseteq owned'
    PROVE  OwnedHold'
<1> SUFFICES ASSUME NEW s \in Counted', s \notin owned'
             PROVE  \E d \in SessionCallers : visit'[d].at = "sadd" /\ s \in visit'[d].id
  BY DEF OwnedHold, Drawn
<1>1. PICK d \in SessionCallers : visit[d].at = "sadd" /\ s \in visit[d].id
  BY DEF OwnedHold, Drawn
<1> QED
  BY <1>1

\* All of the invariant but the types.
SessionsHeld ==
    /\ HistoriesOK /\ StagesOK /\ CopiesHold /\ MessagesKept /\ DeletedIsForgotten
    /\ OwnedHold /\ LimitHolds

\* The parts, and what they say of a call.
LEMMA InvParts ==
    ASSUME SessionInv
    PROVE  /\ SessionsOK /\ VisitsOK /\ HistoriesOK /\ StagesOK /\ CopiesHold /\ OwnedHold /\ LimitHolds
           /\ \A c \in SessionCallers : visit[c] \in VisitStates /\ VisitOK(visit[c])
           /\ \A s \in forgotten : s \notin Counted
<1>1. \A s \in forgotten : s \notin Counted
  BY DEF SessionInv, SessTypeOK, HistoriesOK, DeletedIsForgotten, Counted
<1> QED
  BY <1>1 DEF SessionInv, SessTypeOK, StagesOK, VisitsOK

\* Sessions that do not change are counted no more than before.
LEMMA CountedLess ==
    ASSUME UNCHANGED session, uncounted \subseteq uncounted'
    PROVE  Counted' \subseteq Counted
BY DEF Counted

\* SADD: what the call drew is in the set from now on.
LEMMA AddToUserHolds ==
    ASSUME SessionInv, NEW c \in SessionCallers, AddToUser(c)
    PROVE  SessionsHeld'
<1> DEFINE v == [visit[c] EXCEPT !.at = "list"]
<1>1. /\ visit[c].at = "sadd" /\ To(c, v) /\ owned' = owned \cup visit[c].id
      /\ UNCHANGED <<session, born, now, sent, contested, forgotten, uncounted>>
  BY DEF AddToUser, Reached
<1>2. /\ v.at = "list" /\ v.op = visit[c].op /\ v.id = visit[c].id /\ v.ages = visit[c].ages
  BY InvParts DEF VisitStates
<1> HIDE DEF v
<1>3. Moves(c, v) /\ Counted' \subseteq Counted
  BY <1>1, InvParts, ToMoves, CountedLess
<1>4. VisitOK(v) /\ owned' \subseteq Sessions
  BY <1>1, <1>2, InvParts DEF VisitOK, HistoriesOK
<1>5. StagesOK' /\ HistoriesOK' /\ CopiesHold' /\ MessagesKept' /\ DeletedIsForgotten'
  BY <1>1, <1>2, <1>3, <1>4, QuietKeeps
<1>6. OwnedHold'
  BY <1>1, <1>3, InvParts, OwnedGoes DEF Moves, SameCall
<1>7. LimitHolds'
  <2>1. c \notin Listed
    BY <1>1 DEF Listed
  <2> QED
    BY <1>2, <1>3, <2>1, InvParts, GoesOnLimit
<1> QED
  BY <1>5, <1>6, <1>7 DEF SessionsHeld

\* A call that reads what the user has reads all that is counted, but for what
\* the calls that have yet to add it to the set have drawn.
LEMMA ListSessionsHolds ==
    ASSUME SessionInv, NEW c \in SessionCallers, ListSessions(c)
    PROVE  SessionsHeld'
<1> DEFINE v == [visit[c] EXCEPT !.at = "read", !.unread = owned]
<1>1. /\ visit[c].at = "list" /\ To(c, v)
      /\ UNCHANGED <<session, owned, born, now, sent, contested, forgotten, uncounted>>
  BY DEF ListSessions, Reached
<1>2. /\ v.at = "read" /\ v.op = visit[c].op /\ v.id = visit[c].id /\ v.ages = visit[c].ages
      /\ v.unread = owned
  BY InvParts DEF VisitStates
<1> HIDE DEF v
<1>3. Moves(c, v) /\ Counted' \subseteq Counted
  BY <1>1, InvParts, ToMoves, CountedLess
<1>4. VisitOK(v) /\ owned' \subseteq Sessions
  BY <1>1, <1>2, InvParts DEF VisitOK, HistoriesOK
<1>5. StagesOK' /\ HistoriesOK' /\ CopiesHold' /\ MessagesKept' /\ DeletedIsForgotten'
  BY <1>1, <1>2, <1>3, <1>4, QuietKeeps
<1>6. OwnedHold'
  BY <1>1, <1>3, InvParts, OwnedGoes DEF Moves, SameCall
<1>7. visit'[c] = v /\ \A d \in SessionCallers \ {c} : SameCall(d)
  BY <1>3 DEF Moves
<1>8. \A d \in SessionCallers : (d \in Creating' <=> d \in Creating) /\ visit'[d].id = visit[d].id
  BY <1>2, <1>7, SameCovers DEF SameCall, Creating
<1>9. \A d \in SessionCallers \ {c} :
        /\ d \in Listed' <=> d \in Listed
        /\ \A S : Covers(visit[d], S) <=> Covers(visit'[d], S)
  BY <1>7, SameCovers
<1>10. Listed' \subseteq SessionCallers /\ Creating \subseteq SessionCallers
  BY DEF Listed, Creating
<1>11. LimitHolds'
  <2> SUFFICES ASSUME NEW X \in SUBSET Listed'
               PROVE  \/ Cardinality(Watched(X)') <= MaxPerUser
                      \/ \E d \in X : Covers(visit'[d], Watched(X)')
    BY DEF LimitHolds
  <2>1. Watched(X)' \subseteq Watched(X)
    <3>1. \A d \in Creating \ X : d \in Creating' \ X /\ visit'[d].id = visit[d].id
      BY <1>8, <1>10
    <3> QED
      BY <1>3, <3>1, WatchedLess
  <2>2. Watched(X) \in SUBSET Sessions /\ Watched(X)' \in SUBSET Watched(X)
    BY <2>1, WatchedOf
  <2>3. CASE c \in X
    <3>1. Watched(X) \subseteq owned
      <4> SUFFICES ASSUME NEW s \in Counted, s \notin Drawn(Creating \ X), s \notin owned
                   PROVE  FALSE
        BY DEF Watched
      <4>1. PICK d \in SessionCallers : visit[d].at = "sadd" /\ s \in visit[d].id
        BY InvParts DEF OwnedHold, Drawn
      <4>2. d # c /\ d \in Creating
        BY <1>1, <4>1, InvParts DEF VisitOK, Creating
      <4>3. d \notin X
        BY <1>9, <4>1, <4>2 DEF Listed
      <4> QED
        BY <4>1, <4>2, <4>3 DEF Drawn
    <3>2. Covers(v, Watched(X)')
      BY <1>2, <2>1, <3>1 DEF Covers
    <3> QED
      BY <1>7, <2>3, <3>2
  <2>4. CASE c \notin X
    <3>1. X \in SUBSET Listed
      BY <1>9, <1>10, <2>4
    <3>2. \/ Cardinality(Watched(X)) <= MaxPerUser
          \/ \E d \in X : Covers(visit[d], Watched(X))
      BY <3>1, InvParts DEF LimitHolds
    <3>3. CASE Cardinality(Watched(X)) <= MaxPerUser
      BY <2>2, <3>3, CoversLess
    <3>4. ASSUME NEW d \in X, Covers(visit[d], Watched(X)) PROVE Covers(visit'[d], Watched(X)')
      <4>1. Covers(visit[d], Watched(X)')
        BY <2>2, <3>4, CoversLess
      <4> QED
        BY <1>9, <1>10, <2>4, <4>1
    <3> QED
      BY <3>2, <3>3, <3>4
  <2> QED
    BY <2>3, <2>4
<1> QED
  BY <1>5, <1>6, <1>11 DEF SessionsHeld

\* GET of a listed session: what was to be read is read, or it is gone and not counted.
LEMMA ReadListedHolds ==
    ASSUME SessionInv, NEW c \in SessionCallers, NEW s \in Sessions, ReadListed(c, s)
    PROVE  SessionsHeld'
<1> DEFINE ages == IF session[s].live THEN visit[c].ages \cup {<<s, session[s].updated>>}
                   ELSE visit[c].ages
           v == [visit[c] EXCEPT !.unread = visit[c].unread \ {s}, !.ages = ages]
<1>1. /\ visit[c].at = "read" /\ To(c, v)
      /\ UNCHANGED <<session, owned, born, now, sent, contested, forgotten, uncounted>>
  BY DEF ReadListed, Reached
<1>2. /\ v.at = "read" /\ v.op = visit[c].op /\ v.id = visit[c].id /\ v.ages = ages
      /\ v.unread = visit[c].unread \ {s}
  <2> HIDE DEF ages
  <2> QED
    BY <1>1, InvParts DEF VisitStates
<1> HIDE DEF v
<1>3. Moves(c, v) /\ Counted' \subseteq Counted
  BY <1>1, InvParts, ToMoves, CountedLess
<1>4. VisitOK(v) /\ owned' \subseteq Sessions
  <2>1. IsFiniteSet(ages)
    BY InvParts, FS_AddElement DEF VisitOK
  <2> HIDE DEF ages
  <2> QED
    BY <1>1, <1>2, <2>1, InvParts DEF VisitOK, HistoriesOK
<1>5. StagesOK' /\ HistoriesOK' /\ CopiesHold' /\ MessagesKept' /\ DeletedIsForgotten'
  <2> HIDE DEF ages
  <2> QED
    BY <1>1, <1>2, <1>3, <1>4, QuietKeeps
<1>6. OwnedHold'
  BY <1>1, <1>3, InvParts, OwnedGoes DEF Moves, SameCall
<1>7. LimitHolds'
  <2>1. ASSUME NEW S \in SUBSET Counted', Covers(visit[c], S) PROVE Covers(v, S)
    <3>1. S \subseteq visit[c].unread \cup {a[1] : a \in visit[c].ages}
      BY <1>1, <2>1 DEF Covers
    <3> SUFFICES ASSUME NEW x \in S PROVE x \in v.unread \cup {a[1] : a \in v.ages}
      BY <1>2 DEF Covers
    <3>2. CASE x = s
      <4>1. session[s].live
        BY <1>3, <3>2 DEF Counted
      <4>2. <<s, session[s].updated>> \in v.ages /\ <<s, session[s].updated>>[1] = s
        BY <1>2, <4>1
      <4> QED
        BY <3>2, <4>2
    <3>3. CASE x # s
      BY <1>2, <3>1, <3>3
    <3> QED
      BY <3>2, <3>3
  <2> HIDE DEF ages
  <2> QED
    BY <1>1, <1>2, <1>3, <2>1, InvParts, GoesOnLimit
<1> QED
  BY <1>5, <1>6, <1>7 DEF SessionsHeld

\* Of the sessions that the ages name, at most as many as there are ages.
LEMMA NamesBounded ==
    ASSUME NEW A, IsFiniteSet(A), Cardinality(A) <= MaxPerUser, NEW S \in SUBSET {a[1] : a \in A}
    PROVE  Cardinality(S) <= MaxPerUser
<1> DEFINE N == {a[1] : a \in A}
           f == [a \in A |-> a[1]]
<1>1. f \in Surjection(A, N)
  BY DEF Surjection, Range
<1> HIDE DEF f
<1>2. IsFiniteSet(N) /\ Cardinality(N) <= Cardinality(A)
  BY <1>1, FS_Surjection
<1>3. IsFiniteSet(S) /\ Cardinality(S) <= Cardinality(N)
  BY <1>2, FS_Subset
<1>4. Cardinality(A) \in Nat /\ Cardinality(N) \in Nat /\ Cardinality(S) \in Nat
  BY <1>2, <1>3, FS_CardinalityType
<1> QED
  BY <1>2, <1>3, <1>4, SessionNumbers

\* The limit is enforced on what was read: the call keeps max_sessions_per_user of it.
LEMMA EnforceLimitHolds ==
    ASSUME SessionInv, NEW c \in SessionCallers, EnforceLimit(c)
    PROVE  SessionsHeld'
<1>1. /\ visit[c].at = "read" /\ visit[c].unread = {}
      /\ UNCHANGED <<session, owned, born, now, sent, contested, forgotten, uncounted>>
  BY DEF EnforceLimit, Reached
<1>2. PICK kept \in SUBSET visit[c].ages :
          /\ Cardinality(kept) <= MaxPerUser
          /\ LET surplus == {a[1] : a \in visit[c].ages \ kept}
             IN To(c, IF surplus = {} THEN SessionEnded
                      ELSE [visit[c] EXCEPT !.at = "drop", !.ages = {}, !.surplus = surplus])
  BY DEF EnforceLimit
<1> DEFINE surplus == {a[1] : a \in visit[c].ages \ kept}
           more == [visit[c] EXCEPT !.at = "drop", !.ages = {}, !.surplus = surplus]
           v == IF surplus = {} THEN SessionEnded ELSE more
<1>3. To(c, v)
  BY <1>2
<1>4. /\ more.at = "drop" /\ more.op = visit[c].op /\ more.id = visit[c].id /\ more.ages = {}
      /\ more.surplus = surplus /\ visit[c].op = "create"
  <2> HIDE DEF surplus
  <2> QED
    BY <1>1, InvParts DEF VisitStates, VisitOK
<1>5. /\ SessionEnded.at = "end" /\ SessionEnded.op = "none" /\ SessionEnded.id = {}
      /\ SessionEnded.ages = {}
  BY DEF SessionEnded, NoVisit
<1>6. IsFiniteSet(kept)
  BY InvParts, FS_Subset DEF VisitOK
<1>7. ASSUME NEW S \in SUBSET Counted', Covers(visit[c], S)
      PROVE  Cardinality(S \ surplus) <= MaxPerUser
  <2>1. S \subseteq {a[1] : a \in visit[c].ages}
    BY <1>1, <1>7 DEF Covers
  <2>2. S \ surplus \in SUBSET {a[1] : a \in kept}
    BY <2>1
  <2> HIDE DEF surplus
  <2> QED
    BY <1>2, <1>6, <2>2, NamesBounded
<1> HIDE DEF more
<1>8. VisitOK(v) /\ v.at # "write"
  BY <1>4, <1>5, FS_EmptySet, InvParts DEF VisitOK
<1> HIDE DEF surplus
<1>9. Moves(c, v) /\ Counted' \subseteq Counted /\ owned' \subseteq Sessions
  <2> HIDE DEF v
  <2> QED
    BY <1>1, <1>3, InvParts, ToMoves, CountedLess DEF HistoriesOK
<1>10. StagesOK' /\ HistoriesOK' /\ CopiesHold' /\ MessagesKept' /\ DeletedIsForgotten'
  <2> HIDE DEF v
  <2> QED
    BY <1>1, <1>8, <1>9, QuietKeeps
<1>11. OwnedHold'
  <2> HIDE DEF v
  <2> QED
    BY <1>1, <1>9, InvParts, OwnedGoes DEF Moves, SameCall
<1>12. LimitHolds'
  <2>1. CASE surplus = {}
    <3>1. v = SessionEnded /\ c \in Listed
      BY <1>1, <1>4, <2>1 DEF Listed, Creating
    <3>2. \A S \in SUBSET Counted' : Covers(visit[c], S) => Cardinality(S) <= MaxPerUser
      <4> TAKE S \in SUBSET Counted'
      <4>1. S \ surplus = S
        BY <2>1
      <4> QED
        BY <1>7, <4>1
    <3> QED
      BY <1>5, <1>9, <3>1, <3>2, InvParts, EndsLimit
  <2>2. CASE surplus # {}
    <3>1. v = more
      BY <2>2
    <3>2. \A S \in SUBSET Counted' : Covers(visit[c], S) => Covers(more, S)
      BY <1>4, <1>7 DEF Covers
    <3>3. Moves(c, more)
      BY <1>9, <3>1
    <3> QED
      BY <1>1, <1>4, <1>9, <3>2, <3>3, InvParts, GoesOnLimit
  <2> QED
    BY <2>1, <2>2
<1> QED
  BY <1>10, <1>11, <1>12 DEF SessionsHeld

\* delete_session, and the GET of add_message and clear_session.
LEMMA StartHolds ==
    ASSUME SessionInv, NEW c \in SessionCallers, NEW s \in Sessions, NEW op \in {"add", "clear"},
           DeleteSession(c, s) \/ ReadSession(c, op, s)
    PROVE  SessionsHeld'
<1> DEFINE del == [NoVisit EXCEPT !.at = "drop", !.op = "delete", !.surplus = {s}]
           got == [NoVisit EXCEPT !.at = "write", !.op = op, !.id = {s}, !.copy = session[s]]
<1>1. /\ visit[c].at = "idle" /\ s \in born
      /\ To(c, del) \/ To(c, IF session[s].live THEN got ELSE SessionEnded)
      /\ UNCHANGED <<session, owned, born, now, sent, contested, forgotten, uncounted>>
  BY DEF DeleteSession, ReadSession, Reached
<1>2. /\ del.at = "drop" /\ del.op = "delete" /\ del.id = {} /\ del.ages = {}
      /\ got.at = "write" /\ got.op = op /\ got.id = {s} /\ got.ages = {} /\ got.copy = session[s]
      /\ SessionEnded.at = "end" /\ SessionEnded.op = "none" /\ SessionEnded.id = {}
      /\ SessionEnded.ages = {}
  BY DEF SessionEnded, NoVisit
<1> HIDE DEF del, got
<1>3. visit[c].op = "none"
  BY <1>1, InvParts DEF VisitOK
<1>4. ASSUME NEW v, To(c, v), v \in {del, SessionEnded} \/ (v = got /\ session[s].live)
      PROVE  SessionsHeld'
  <2>1. VisitOK(v) /\ v.op # "create"
    BY <1>1, <1>2, <1>4, FS_EmptySet DEF VisitOK
  <2>2. Moves(c, v) /\ Counted' \subseteq Counted /\ owned' \subseteq Sessions
    BY <1>1, <1>4, InvParts, ToMoves, CountedLess DEF HistoriesOK
  <2>3. v.at = "write" /\ ~v.stale => \A x \in v.id : session[x].live /\ v.copy = session[x]
    BY <1>2, <1>4
  <2>4. StagesOK' /\ HistoriesOK' /\ CopiesHold' /\ MessagesKept' /\ DeletedIsForgotten'
    BY <1>1, <2>1, <2>2, <2>3, QuietKeeps
  <2>5. OwnedHold'
    BY <1>1, <2>2, InvParts, OwnedGoes DEF Moves, SameCall
  <2>6. LimitHolds'
    <3>1. c \notin Creating
      BY <1>3 DEF Creating
    <3> QED
      BY <2>1, <2>2, <3>1, InvParts, EndsLimit
  <2> QED
    BY <2>4, <2>5, <2>6 DEF SessionsHeld
<1>5. CASE To(c, del)
  BY <1>4, <1>5
<1>6. CASE To(c, IF session[s].live THEN got ELSE SessionEnded)
  <2>1. CASE session[s].live
    <3>1. To(c, got)
      BY <1>6, <2>1
    <3> QED
      BY <1>4, <2>1, <3>1
  <2>2. CASE ~session[s].live
    <3>1. To(c, SessionEnded)
      BY <1>6, <2>2
    <3> QED
      BY <1>4, <3>1
  <2> QED
    BY <2>1, <2>2
<1> QED
  BY <1>1, <1>5, <1>6

\* A call has done with s, which is not counted.
LEMMA DropsLimit ==
    ASSUME SessionInv, NEW c \in SessionCallers, NEW s \in Sessions, NEW v, Moves(c, v),
           visit[c].at \in {"drop", "srem"}, Counted' \subseteq Counted, s \notin Counted',
           \/ v.op # "create" /\ visit[c].surplus = {s}
           \/ /\ v.op = visit[c].op /\ v.id = visit[c].id /\ v.at # "read"
              /\ v.surplus = visit[c].surplus \/ v.surplus = visit[c].surplus \ {s}
    PROVE  LimitHolds'
<1>1. \A S \in SUBSET Counted' :
        /\ S \ {s} = S
        /\ S \ (visit[c].surplus \ {s}) = S \ visit[c].surplus \/ s \notin visit[c].surplus
  OBVIOUS
<1>2. CASE v.op # "create" /\ visit[c].surplus = {s}
  <2>1. c \in Creating => c \in Listed
    BY DEF Listed
  <2>2. \A S \in SUBSET Counted' : Covers(visit[c], S) => Cardinality(S) <= MaxPerUser
    BY <1>1, <1>2 DEF Covers
  <2> QED
    BY <1>2, <2>1, <2>2, InvParts, EndsLimit
<1>3. CASE /\ v.op = visit[c].op /\ v.id = visit[c].id /\ v.at # "read"
           /\ v.surplus = visit[c].surplus \/ v.surplus = visit[c].surplus \ {s}
  <2>1. \A S \in SUBSET Counted' : S \ v.surplus = S \ visit[c].surplus
    BY <1>3
  <2>2. \A S \in SUBSET Counted' : Covers(visit[c], S) => Covers(v, S)
    BY <1>3, <2>1 DEF Covers
  <2> QED
    BY <1>3, <2>2, InvParts, GoesOnLimit
<1> QED
  BY <1>2, <1>3

\* What is left of a call after s.
LEMMA AfterDropIs ==
    ASSUME SessionInv, NEW c \in SessionCallers, NEW s \in Sessions,
           visit[c].at \in {"drop", "srem"}, NEW v,
           v = AfterDrop(c, s) \/ v = [AfterDrop(c, s) EXCEPT !.unread = {}]
    PROVE  /\ VisitOK(v) /\ v.at \in {"drop", "end"}
           /\ \/ v.op # "create" /\ visit[c].surplus = {s}
              \/ /\ v.op = visit[c].op /\ v.id = visit[c].id /\ v.at # "read"
                 /\ v.surplus = visit[c].surplus \ {s}
<1>1. /\ SessionEnded.at = "end" /\ SessionEnded.op = "none" /\ SessionEnded.id = {}
      /\ SessionEnded.ages = {}
      /\ LET w == [SessionEnded EXCEPT !.unread = {}]
         IN w.at = "end" /\ w.op = "none" /\ w.id = {} /\ w.ages = {}
  BY DEF SessionEnded, NoVisit
<1> DEFINE more == [visit[c] EXCEPT !.at = "drop", !.surplus = visit[c].surplus \ {s}]
           none == [more EXCEPT !.unread = {}]
<1>2. more \in VisitStates /\ visit[c] \in VisitStates
  BY InvParts DEF VisitStates
<1>3. /\ more.at = "drop" /\ more.op = visit[c].op /\ more.id = visit[c].id
      /\ more.ages = visit[c].ages /\ more.surplus = visit[c].surplus \ {s}
  BY <1>2 DEF VisitStates
<1>4. /\ none.at = "drop" /\ none.op = visit[c].op /\ none.id = visit[c].id
      /\ none.ages = visit[c].ages /\ none.surplus = visit[c].surplus \ {s}
  <2> HIDE DEF more
  <2> QED
    BY <1>2, <1>3 DEF VisitStates
<1>5. \/ visit[c].surplus = {s} /\ (v = SessionEnded \/ v = [SessionEnded EXCEPT !.unread = {}])
      \/ v = more \/ v = none
  BY DEF AfterDrop
<1> HIDE DEF more, none
<1>6. CASE visit[c].surplus = {s} /\ (v = SessionEnded \/ v = [SessionEnded EXCEPT !.unread = {}])
  BY <1>1, <1>6, FS_EmptySet DEF VisitOK
<1>7. CASE v = more \/ v = none
  BY <1>3, <1>4, <1>7, InvParts DEF VisitOK
<1> QED
  BY <1>5, <1>6, <1>7

\* GET and DEL of a session to be deleted.
LEMMA DropSessionHolds ==
    ASSUME SessionInv, NEW c \in SessionCallers, NEW s \in Sessions, DropSession(c, s)
    PROVE  SessionsHeld'
<1>1. visit[c].at = "drop" /\ UNCHANGED <<owned, born, now, sent, contested, uncounted>>
  BY DEF DropSession, Reached
<1>2. CASE session[s].live
  <2> DEFINE v == [visit[c] EXCEPT !.at = "srem", !.unread = {s}]
  <2>1. StagesOK' /\ HistoriesOK' /\ CopiesHold' /\ MessagesKept' /\ DeletedIsForgotten'
    BY <1>2, DropKeeps
  <2>2. Put(c, s, GoneSession, v)
    BY <1>2 DEF DropSession
  <2>3. /\ v.at = "srem" /\ v.op = visit[c].op /\ v.id = visit[c].id
        /\ v.surplus = visit[c].surplus
    BY InvParts DEF VisitStates
  <2> HIDE DEF v
  <2>4. Moves(c, v) /\ session'[s] = GoneSession /\ \A o \in Sessions \ {s} : session'[o] = session[o]
    BY <2>2, InvParts, PutMoves
  <2>5. Counted' \subseteq Counted /\ s \notin Counted'
    BY <1>1, <2>4 DEF Counted, GoneSession
  <2>6. OwnedHold'
    BY <1>1, <2>3, <2>4, <2>5, InvParts, OwnedGoes DEF Moves, SameCall
  <2>7. LimitHolds'
    BY <1>1, <2>3, <2>4, <2>5, DropsLimit
  <2> QED
    BY <2>1, <2>6, <2>7 DEF SessionsHeld
<1>3. CASE ~session[s].live
  <2> DEFINE v == AfterDrop(c, s)
  <2>1. To(c, v) /\ UNCHANGED <<session, forgotten>>
    BY <1>3 DEF DropSession
  <2>2. /\ VisitOK(v) /\ v.at \in {"drop", "end"}
        /\ \/ v.op # "create" /\ visit[c].surplus = {s}
           \/ /\ v.op = visit[c].op /\ v.id = visit[c].id /\ v.at # "read"
              /\ v.surplus = visit[c].surplus \ {s}
    BY <1>1, AfterDropIs
  <2> HIDE DEF v
  <2>3. Moves(c, v) /\ Counted' \subseteq Counted /\ owned' \subseteq Sessions /\ s \notin Counted'
    <3>1. s \notin Counted
      BY <1>3 DEF Counted
    <3> QED
      BY <1>1, <2>1, <3>1, InvParts, ToMoves, CountedLess DEF HistoriesOK
  <2>4. StagesOK' /\ HistoriesOK' /\ CopiesHold' /\ MessagesKept' /\ DeletedIsForgotten'
    BY <1>1, <2>1, <2>2, <2>3, QuietKeeps
  <2>5. OwnedHold'
    BY <1>1, <2>3, InvParts, OwnedGoes DEF Moves, SameCall
  <2>6. LimitHolds'
    BY <1>1, <2>2, <2>3, DropsLimit
  <2> QED
    BY <2>4, <2>5, <2>6 DEF SessionsHeld
<1> QED
  BY <1>2, <1>3

\* SREM: the session is forgotten, so the set may forget it.
LEMMA RemoveFromUserHolds ==
    ASSUME SessionInv, NEW c \in SessionCallers, NEW s \in Sessions, RemoveFromUser(c, s)
    PROVE  SessionsHeld'
<1> DEFINE v == [AfterDrop(c, s) EXCEPT !.unread = {}]
<1>1. /\ visit[c].at = "srem" /\ s \in visit[c].unread /\ owned' = owned \ {s} /\ To(c, v)
      /\ UNCHANGED <<session, born, now, sent, contested, forgotten, uncounted>>
  BY DEF RemoveFromUser, Reached
<1>2. /\ VisitOK(v) /\ v.at \in {"drop", "end"}
      /\ \/ v.op # "create" /\ visit[c].surplus = {s}
         \/ /\ v.op = visit[c].op /\ v.id = visit[c].id /\ v.at # "read"
            /\ v.surplus = visit[c].surplus \ {s}
  BY <1>1, AfterDropIs
<1> HIDE DEF v
<1>3. s \notin Counted
  BY <1>1, InvParts DEF VisitOK
<1>4. Moves(c, v) /\ Counted' \subseteq Counted /\ owned' \subseteq Sessions /\ s \notin Counted'
  BY <1>1, <1>3, InvParts, ToMoves, CountedLess DEF HistoriesOK
<1>5. StagesOK' /\ HistoriesOK' /\ CopiesHold' /\ MessagesKept' /\ DeletedIsForgotten'
  BY <1>1, <1>2, <1>4, QuietKeeps
<1>6. OwnedHold'
  BY <1>1, <1>4, InvParts, OwnedGoes DEF Moves, SameCall
<1>7. LimitHolds'
  BY <1>1, <1>2, <1>4, DropsLimit
<1> QED
  BY <1>5, <1>6, <1>7 DEF SessionsHeld

\* SET of a new session: it is not in the set yet, and the call has yet to enforce the limit.
LEMMA CreateSessionHolds ==
    ASSUME SessionInv, NEW c \in SessionCallers, NEW s \in Sessions, CreateSession(c, s)
    PROVE  SessionsHeld'
<1> DEFINE v == [NoVisit EXCEPT !.at = "sadd", !.op = "create", !.id = {s}]
<1>1. /\ visit[c].at = "idle" /\ Put(c, s, NewSession(now + 1), v)
      /\ UNCHANGED <<owned, sent, contested, forgotten, uncounted>>
  BY DEF CreateSession, Reached
<1>2. v.at = "sadd" /\ v.op = "create" /\ v.id = {s}
  BY DEF NoVisit
<1> HIDE DEF v
<1>3. Moves(c, v) /\ \A o \in Sessions \ {s} : session'[o] = session[o]
  BY <1>1, InvParts, PutMoves
<1>4. StagesOK' /\ HistoriesOK' /\ CopiesHold' /\ MessagesKept' /\ DeletedIsForgotten'
  BY CreateKeeps
<1>5. Counted' \subseteq Counted \cup {s}
  BY <1>1, <1>3 DEF Counted
<1>6. visit'[c] = v /\ \A d \in SessionCallers \ {c} : SameCall(d)
  BY <1>3 DEF Moves
<1>7. OwnedHold'
  <2> SUFFICES ASSUME NEW o \in Counted', o \notin owned'
               PROVE  \E d \in SessionCallers : visit'[d].at = "sadd" /\ o \in visit'[d].id
    BY DEF OwnedHold, Drawn
  <2>1. CASE o = s
    BY <1>2, <1>6, <2>1
  <2>2. CASE o # s
    <3>1. PICK d \in SessionCallers : visit[d].at = "sadd" /\ o \in visit[d].id
      BY <1>1, <1>5, <2>2, InvParts DEF OwnedHold, Drawn
    <3> QED
      BY <1>1, <1>6, <3>1 DEF SameCall
  <2> QED
    BY <2>1, <2>2
<1>8. LimitHolds'
  <2>1. /\ Listed' \subseteq Creating' /\ Creating' \subseteq SessionCallers
        /\ Listed \subseteq Creating /\ Creating \subseteq SessionCallers
        /\ c \notin Listed' /\ c \in Creating' /\ c \notin Creating
    BY <1>1, <1>2, <1>6, InvParts DEF Listed, Creating, VisitOK
  <2>2. \A d \in SessionCallers \ {c} :
          /\ (d \in Creating' <=> d \in Creating) /\ visit'[d].id = visit[d].id
          /\ (d \in Listed' <=> d \in Listed)
          /\ \A S : Covers(visit[d], S) <=> Covers(visit'[d], S)
    BY <1>6, SameCovers DEF SameCall
  <2>3. Listed' \subseteq Listed
    BY <2>1, <2>2
  <2>4. \A X \in SUBSET Listed' : Watched(X)' \subseteq Watched(X)
    <3> SUFFICES ASSUME NEW X \in SUBSET Listed', NEW o \in Counted', o \notin Drawn(Creating \ X)'
                 PROVE  o \in Counted /\ o \notin Drawn(Creating \ X)
      BY DEF Watched
    <3>1. c \in Creating' \ X
      BY <2>1
    <3>2. o # s
      BY <1>2, <1>6, <3>1 DEF Drawn
    <3>3. ASSUME NEW d \in Creating \ X, o \in visit[d].id PROVE FALSE
      <4>1. d \in Creating' \ X /\ o \in visit'[d].id
        BY <2>1, <2>2, <3>3
      <4> QED
        BY <4>1 DEF Drawn
    <3> QED
      BY <1>5, <3>2, <3>3 DEF Drawn
  <2>5. \A d \in Listed' : \A S \in SUBSET Counted' : Covers(visit[d], S) => Covers(visit'[d], S)
    BY <2>1, <2>2
  <2> QED
    BY <2>3, <2>4, <2>5, InvParts, LimitGoes
<1> QED
  BY <1>4, <1>7, <1>8 DEF SessionsHeld

\* SET of a changed copy; of a stale one the session is no longer counted.
LEMMA WriteHolds ==
    ASSUME SessionInv, NEW c \in SessionCallers, NEW s \in Sessions,
           AddMessage(c, s) \/ ClearSession(c, s)
    PROVE  SessionsHeld'
<1>1. /\ StagesOK' /\ HistoriesOK' /\ CopiesHold' /\ MessagesKept' /\ DeletedIsForgotten'
      /\ Counted' \subseteq Counted
      /\ owned' = owned /\ visit[c].at = "write"
      /\ Moves(c, SessionEnded)
  BY WriteKeeps
<1>2. c \notin Creating
  BY <1>1, InvParts DEF Creating, VisitOK
<1>3. SessionEnded.op = "none"
  BY DEF SessionEnded, NoVisit
<1>4. OwnedHold'
  BY <1>1, InvParts, OwnedGoes DEF Moves, SameCall
<1>5. LimitHolds'
  BY <1>1, <1>2, <1>3, InvParts, EndsLimit
<1> QED
  BY <1>1, <1>4, <1>5 DEF SessionsHeld

\* A session expires.
LEMMA ExpireSessionHolds ==
    ASSUME SessionInv, NEW s \in Sessions, ExpireSession(s)
    PROVE  SessionsHeld'
<1>1. StagesOK' /\ HistoriesOK' /\ CopiesHold' /\ MessagesKept' /\ DeletedIsForgotten'
  BY ExpireKeeps
<1>2. UNCHANGED <<owned, uncounted>> /\ Counted' \subseteq Counted
  BY InvParts DEF ExpireSession, Counted, SessionsOK, GoneSession
<1>3. \A d \in SessionCallers : SameCall(d)
  BY InvParts DEF ExpireSession, SameCall, VisitStates, VisitsOK
<1>4. OwnedHold'
  BY <1>2, <1>3, InvParts, OwnedGoes DEF SameCall
<1>5. LimitHolds'
  BY <1>2, <1>3, InvParts, StillLimit
<1> QED
  BY <1>1, <1>4, <1>5 DEF SessionsHeld

\* The user's set expires, or nothing happens.
LEMMA ExpireUserSetHolds ==
    ASSUME SessionInv, ExpireUserSet \/ UNCHANGED sessionVars
    PROVE  SessionsHeld'
<1>1. /\ UNCHANGED <<session, born, visit, sent, contested, forgotten>>
      /\ \/ uncounted' = uncounted \cup owned /\ owned' = {}
         \/ UNCHANGED <<owned, uncounted>>
  BY DEF ExpireUserSet, sessionVars
<1>2. StagesOK' /\ HistoriesOK' /\ CopiesHold' /\ MessagesKept' /\ DeletedIsForgotten'
  <2>1. StagesOK' /\ CopiesHold'
    BY <1>1 DEF SessionInv, SessTypeOK, StagesOK, VisitOK, CopiesHold
  <2>2. HistoriesOK' /\ MessagesKept' /\ DeletedIsForgotten'
    BY <1>1 DEF SessionInv, SessTypeOK, HistoriesOK, MessagesKept, DeletedIsForgotten
  <2> QED
    BY <2>1, <2>2
<1>3. Counted' \subseteq Counted /\ Counted' \cap owned \subseteq owned'
  BY <1>1 DEF Counted
<1>4. \A d \in SessionCallers : SameCall(d)
  BY <1>1 DEF SameCall
<1>5. OwnedHold'
  BY <1>3, <1>4, InvParts, OwnedGoes DEF SameCall
<1>6. LimitHolds'
  BY <1>3, <1>4, InvParts, StillLimit
<1> QED
  BY <1>2, <1>5, <1>6 DEF SessionsHeld

\* A call stops; what it drew, no call enforces the limit on.
LEMMA CallStopsHolds ==
    ASSUME SessionInv, NEW c \in SessionCallers, CallStops(c)
    PROVE  SessionsHeld'
<1>1. /\ To(c, SessionEnded) /\ UNCHANGED <<session, owned, born, sent, contested, forgotten>>
      /\ uncounted' = uncounted \cup (IF visit[c].op = "create" THEN visit[c].id ELSE {})
  BY DEF CallStops
<1>2. SessionEnded.at = "end" /\ SessionEnded.op = "none" /\ SessionEnded.id = {}
      /\ SessionEnded.ages = {}
  BY DEF SessionEnded, NoVisit
<1>3. Moves(c, SessionEnded) /\ Counted' \subseteq Counted /\ owned' \subseteq Sessions
  BY <1>1, InvParts, ToMoves, CountedLess DEF HistoriesOK
<1>4. VisitOK(SessionEnded)
  BY <1>2, FS_EmptySet DEF VisitOK
<1>5. StagesOK' /\ HistoriesOK' /\ CopiesHold' /\ MessagesKept' /\ DeletedIsForgotten'
  BY <1>1, <1>2, <1>3, <1>4, QuietKeeps
<1>6. visit[c].op = "create" => visit[c].id \cap Counted' = {}
  BY <1>1 DEF Counted
<1>7. OwnedHold'
  <2>1. visit[c].at = "sadd" => visit[c].op = "create"
    BY InvParts DEF VisitOK
  <2> QED
    BY <1>1, <1>3, <1>6, <2>1, InvParts, OwnedGoes DEF Moves, SameCall
<1>8. LimitHolds'
  <2>1. c \in Creating => visit[c].id \cap Counted' = {}
    BY <1>6 DEF Creating
  <2> QED
    BY <1>2, <1>3, <2>1, InvParts, EndsLimit
<1> QED
  BY <1>5, <1>7, <1>8 DEF SessionsHeld

\* The invariant is inductive.
LEMMA SessionInvStep ==
    ASSUME SessionInv, [SessionNext]_sessionVars
    PROVE  SessionInv'
<1>1. SessionsHeld'
  <2>1. ASSUME NEW c \in SessionCallers, SessionStep(c) \/ CallStops(c) PROVE SessionsHeld'
    <3>1. CASE AddToUser(c) \/ ListSessions(c) \/ EnforceLimit(c) \/ CallStops(c)
      BY <3>1, AddToUserHolds, ListSessionsHolds, EnforceLimitHolds, CallStopsHolds
    <3>2. ASSUME NEW s \in Sessions,
                 \/ CreateSession(c, s) \/ ReadListed(c, s)
                 \/ DeleteSession(c, s) \/ DropSession(c, s) \/ RemoveFromUser(c, s)
                 \/ AddMessage(c, s) \/ ClearSession(c, s)
          PROVE  SessionsHeld'
      <4>1. CASE CreateSession(c, s) \/ ReadListed(c, s)
        BY <4>1, CreateSessionHolds, ReadListedHolds
      <4>2. CASE DropSession(c, s) \/ RemoveFromUser(c, s)
        BY <4>2, DropSessionHolds, RemoveFromUserHolds
      <4>3. CASE AddMessage(c, s) \/ ClearSession(c, s)
        BY <4>3, WriteHolds
      <4>4. CASE DeleteSession(c, s)
        BY <4>4, StartHolds
      <4> QED
        BY <3>2, <4>1, <4>2, <4>3, <4>4
    <3>3. ASSUME NEW s \in Sessions, NEW op \in {"add", "clear"}, ReadSession(c, op, s)
          PROVE  SessionsHeld'
      BY <3>3, StartHolds
    <3> QED
      BY <2>1, <3>1, <3>2, <3>3 DEF SessionStep
  <2>2. ASSUME NEW s \in Sessions, ExpireSession(s) PROVE SessionsHeld'
    BY <2>2, ExpireSessionHolds
  <2>3. CASE ExpireUserSet \/ UNCHANGED sessionVars
    BY <2>3, ExpireUserSetHolds
  <2> QED
    BY <2>1, <2>2, <2>3 DEF SessionNext
<1>2. SessionsOK' /\ VisitsOK'
  BY SessionsStep DEF SessionInv
<1> QED
  BY <1>1, <1>2 DEF SessionInv, SessTypeOK, SessionsHeld

\* It holds at the start.
LEMMA SessionInvInit ==
    ASSUME SessionInit
    PROVE  SessionInv
<1>1. /\ session \in [Sessions -> {GoneSession} \cup {NewSession(t) : t \in 1..2}]
      /\ \A s \in Sessions : session[s].live <=> s \in OldSessions
      /\ owned = OldSessions /\ born = OldSessions
      /\ visit = [c \in SessionCallers |-> NoVisit] /\ now = 2
      /\ sent = [s \in Sessions |-> <<>>]
      /\ contested = {} /\ forgotten = {} /\ uncounted = {}
  BY DEF SessionInit
<1>2. OldSessions \subseteq Sessions /\ Cardinality(OldSessions) <= MaxPerUser
  BY SessionAssumption
<1>3. /\ NoVisit.at = "idle" /\ NoVisit.op = "none" /\ NoVisit.id = {} /\ NoVisit.ages = {}
      /\ NoVisit \in VisitStates
  BY VisitTypes DEF NoVisit
<1>4. \A c \in SessionCallers : visit[c] = NoVisit
  BY <1>1
<1>5. SessionsOK
  <2>1. \A t \in 1..2 : NewSession(t) \in SessionValues
    BY VisitTypes
  <2>2. session \in [Sessions -> SessionValues]
    BY <1>1, <2>1, VisitTypes
  <2>3. sent \in [Sessions -> Seq(SessionCallers)]
    BY <1>1
  <2> QED
    BY <1>1, <2>2, <2>3 DEF SessionsOK
<1>6. VisitsOK /\ HistoriesOK
  BY <1>1, <1>2, <1>3 DEF VisitsOK, HistoriesOK
<1>7. StagesOK
  BY <1>3, <1>4, FS_EmptySet DEF StagesOK, VisitOK
<1>8. CopiesHold /\ DeletedIsForgotten
  BY <1>1, <1>3, <1>4 DEF CopiesHold, DeletedIsForgotten
<1>9. MessagesKept
  <2>1. LastMessages(<<>>) = <<>> /\ Len(<<>>) = 0
    <3>1. <<>> \in Seq(SessionCallers) /\ Len(<<>>) = 0 /\ 0 <= MaxMessages
      BY SessionNumbers
    <3> QED
      BY <3>1, LastType
  <2>2. \A s \in Sessions : session[s].messages = <<>> /\ session[s].total = 0
    BY <1>1 DEF GoneSession, NewSession
  <2> QED
    BY <1>1, <2>1, <2>2 DEF MessagesKept
<1>10. OwnedHold
  BY <1>1 DEF OwnedHold, Counted
<1>11. LimitHolds
  <2>1. Counted \in SUBSET OldSessions
    BY <1>1 DEF Counted
  <2>2. \A X : Watched(X) \in SUBSET OldSessions
    BY <2>1, WatchedOf
  <2>3. \A X : Cardinality(Watched(X)) <= MaxPerUser
    BY <1>2, <2>2, CoversLess
  <2> QED
    BY <2>3 DEF LimitHolds
<1> QED
  BY <1>5, <1>6, <1>7, <1>8, <1>9, <1>10, <1>11 DEF SessionInv, SessTypeOK

\* The invariant of the sessions, for any number of sessions, calls, limits and faults.
THEOREM SessionInductive == SessionSpec => []SessionInv
<1>1. SessionInit => SessionInv
  BY SessionInvInit
<1>2. SessionInv /\ [SessionNext]_sessionVars => SessionInv'
  BY SessionInvStep
<1> QED
  BY <1>1, <1>2, PTL DEF SessionSpec

\* SessionManager keeps what it promises, however the commands of its calls interleave: a
\* session holds the last messages it was given, a deleted one stays away, and once every
\* creation has ended a user has no more than max_sessions_per_user.
THEOREM SessionsAreTruthful == SessionSpec => []SessionsTruthful
<1>1. SessionInv => SessionsTruthful
  <2> SUFFICES ASSUME SessionInv PROVE SessionsTruthful
    OBVIOUS
  <2>1. ASSUME \A c \in SessionCallers : visit[c].op # "create"
        PROVE  Cardinality(Counted) <= MaxPerUser
    <3>1. Creating = {} /\ Listed = {}
      BY <2>1 DEF Creating, Listed
    <3>2. Watched({}) = Counted
      BY <3>1 DEF Watched, Drawn
    <3>3. {} \in SUBSET Listed
      OBVIOUS
    <3>4. \/ Cardinality(Watched({})) <= MaxPerUser
          \/ \E c \in {} : Covers(visit[c], Watched({}))
      BY <3>3, InvParts DEF LimitHolds
    <3> QED
      BY <3>2, <3>4
  <2>2. SessionsLimited
    BY <2>1 DEF SessionsLimited, Counted
  <2> QED
    BY <2>2 DEF SessionInv, SessionsTruthful
<1> QED
  BY <1>1, SessionInductive, PTL
=============================================================================
