----------------------- MODULE IndexCoordinatorProofs -----------------------
(* Proofs about the documents that are indexed: about IndexCoordinator, for *)
(* any operations, any number of failures, either foreign key and whatever *)
(* the bounds; and about DocumentRegistry, the document routes, for any    *)
(* documents, clients and requests.                                        *)
EXTENDS IndexCoordinator, DocumentRegistry, FiniteSetTheorems, FunctionTheorems, SequenceTheorems,
        WellFoundedInduction, TLAPS

-----------------------------------------------------------------------------
(* Every step keeps the types, and the phases with the calls left in them. *)

\* What an operation leaves alone, it leaves in its phase.
LEMMA PhaseStep ==
    ASSUME TypeOK, PhaseOK, [Next]_vars
    PROVE  TypeOK' /\ PhaseOK'
<1> USE ConstantsAssumption DEF TypeOK, PhaseOK, EraseCalls, WriteCalls
<1>1. ASSUME NEW o \in Ops, Ingest(o) PROVE TypeOK' /\ PhaseOK'
      BY <1>1 DEF Ingest, Enter, New, Busy, stores
<1>2. ASSUME NEW o \in Ops, RequestReindex(o) PROVE TypeOK' /\ PhaseOK'
      BY <1>2 DEF RequestReindex, New, Busy, stores
<1>3. ASSUME NEW o \in Ops, Retry(o) PROVE TypeOK' /\ PhaseOK'
      BY <1>3 DEF Retry, New, Busy, stores
<1>4. ASSUME NEW o \in Ops, Reindex(o) PROVE TypeOK' /\ PhaseOK'
      BY <1>4 DEF Reindex, Enter, Busy, stores
<1>5. ASSUME NEW o \in Ops, Reembed(o) PROVE TypeOK' /\ PhaseOK'
      BY <1>5 DEF Reembed, Enter, New, Busy, stores
<1>6. ASSUME NEW o \in Ops, Delete(o) PROVE TypeOK' /\ PhaseOK'
      BY <1>6 DEF Delete, Enter, New, Busy, stores
<1>7. ASSUME NEW o \in Ops, SoftDelete(o) PROVE TypeOK' /\ PhaseOK'
      BY <1>7 DEF SoftDelete, New, Busy, stores
<1>8. ASSUME NEW o \in Ops, EraseVec(o) PROVE TypeOK' /\ PhaseOK'
      BY <1>8 DEF EraseVec, Succeed, Fail, Busy, stores
<1>9. ASSUME NEW o \in Ops, EraseKw(o) PROVE TypeOK' /\ PhaseOK'
      BY <1>9 DEF EraseKw, Succeed, Fail, Busy, stores
<1>10. ASSUME NEW o \in Ops, EraseChunks(o) PROVE TypeOK' /\ PhaseOK'
      BY <1>10 DEF EraseChunks, Succeed, Fail, Busy, stores
<1>11. ASSUME NEW o \in Ops, EraseRow(o) PROVE TypeOK' /\ PhaseOK'
      BY <1>11 DEF EraseRow, Succeed, Fail, Busy, stores
<1>12. ASSUME NEW o \in Ops, WriteVec(o) PROVE TypeOK' /\ PhaseOK'
      BY <1>12 DEF WriteVec, Succeed, Fail, Busy, stores
<1>13. ASSUME NEW o \in Ops, WriteKw(o) PROVE TypeOK' /\ PhaseOK'
      BY <1>13 DEF WriteKw, Succeed, Fail, Busy, stores
<1>14. ASSUME NEW o \in Ops, InsertRow(o) PROVE TypeOK' /\ PhaseOK'
      BY <1>14 DEF InsertRow, Succeed, Fail, Conflict, Busy, stores
<1>15. ASSUME NEW o \in Ops, InsertChunks(o) PROVE TypeOK' /\ PhaseOK'
      BY <1>15 DEF InsertChunks, Succeed, Fail, Conflict, Busy, stores
<1>16. ASSUME NEW o \in Ops, SetCompleted(o) PROVE TypeOK' /\ PhaseOK'
      BY <1>16 DEF SetCompleted, Succeed, Fail, Updated, Busy, stores
<1>17. ASSUME NEW o \in Ops, MarkFailed(o) PROVE TypeOK' /\ PhaseOK'
      BY <1>17 DEF MarkFailed, Succeed, Fail, Updated, Busy, stores
<1>18. ASSUME NEW o \in Ops, Proceed(o) PROVE TypeOK' /\ PhaseOK'
      BY <1>18 DEF Proceed, Busy, stores
<1>19. ASSUME NEW o \in Ops, HandlerFails(o) PROVE TypeOK' /\ PhaseOK'
      BY <1>19 DEF HandlerFails, Updated, Busy, stores
<1>20. ASSUME NEW o \in Ops, Drop(o) PROVE TypeOK' /\ PhaseOK'
      BY <1>20 DEF Drop, Busy, stores
<1>21. CASE Refresh
      BY <1>21 DEF Refresh
<1>22. CASE UNCHANGED vars
      BY <1>22 DEF vars
<1> QED
    BY <1>1, <1>2, <1>3, <1>4, <1>5, <1>6, <1>7, <1>8, <1>9, <1>10, <1>11, <1>12, <1>13, <1>14, <1>15, <1>16, <1>17, <1>18, <1>19, <1>20, <1>21, <1>22
       DEF Next, Start, delete_document, index_document

-----------------------------------------------------------------------------
(* Only its ingestion makes a document known.                              *)

\* No operation becomes new again, and only an ingestion starts without a row.
LEMMA FreshStep ==
    ASSUME TypeOK, PhaseOK, FreshOK, Next
    PROVE  FreshOK'
<1> USE DEF TypeOK
<1>1. ASSUME NEW p \in Ops, pc[p] # "new" PROVE pc'[p] # "new"
  <2>1. ASSUME NEW o \in Ops, Start(o) PROVE pc'[p] # "new"
        BY <1>1, <2>1
           DEF Start, Ingest, RequestReindex, Retry, Reindex, Reembed, Delete,
               SoftDelete, Enter
  <2>2. ASSUME NEW o \in Ops, delete_document(o) PROVE pc' = pc
        BY <2>2
           DEF delete_document, EraseVec, EraseKw, EraseChunks, EraseRow,
               Succeed, Fail
  <2>3. ASSUME NEW o \in Ops, index_document(o) PROVE pc' = pc
        BY <2>3
           DEF index_document, WriteVec, WriteKw, InsertRow, InsertChunks,
               SetCompleted, MarkFailed, Succeed, Fail, Conflict
  <2>4. ASSUME NEW o \in Ops, Proceed(o) \/ HandlerFails(o) \/ Drop(o)
        PROVE  pc'[p] # "new"
        BY <1>1, <2>4 DEF Proceed, HandlerFails, Drop
  <2>5. CASE Refresh
        BY <1>1, <2>5 DEF Refresh
  <2> QED BY <1>1, <2>1, <2>2, <2>3, <2>4, <2>5 DEF Next
<1>2. SUFFICES ASSUME \A o \in Ops : Kind[o] = "ingest" => pc'[o] = "new"
               PROVE  FALSE
      BY DEF FreshOK
<1>3. \A o \in Ops : pc[o] = "new" /\ Gone
      BY <1>1, <1>2 DEF FreshOK
<1>4. ASSUME NEW o \in Ops, Start(o) PROVE FALSE
      BY <1>2, <1>3, <1>4
         DEF Start, Ingest, RequestReindex, Retry, Reindex, Reembed, Delete,
             SoftDelete, Enter, Gone, New
<1>5. ASSUME NEW o \in Ops, delete_document(o) \/ index_document(o) PROVE FALSE
      BY <1>3, <1>5
         DEF delete_document, index_document, EraseVec, EraseKw, EraseChunks,
             EraseRow, WriteVec, WriteKw, InsertRow, InsertChunks, SetCompleted,
             MarkFailed, PhaseOK
<1>6. ASSUME NEW o \in Ops, Proceed(o) \/ HandlerFails(o) \/ Drop(o) PROVE FALSE
      BY <1>3, <1>6 DEF Proceed, HandlerFails, Drop, Busy
<1>7. CASE Refresh
      BY <1>3, <1>7 DEF Refresh, Gone
<1> QED BY <1>3, <1>4, <1>5, <1>6, <1>7 DEF Next

-----------------------------------------------------------------------------
(* What an undisturbed operation has achieved, step by step.               *)

LEMMA SoloStep ==
    ASSUME Inv, [Next]_vars
    PROVE  SoloOK'
<1> USE ConstantsAssumption
        DEF Inv, TypeOK, PhaseOK, SoloOK, EraseCalls, WriteCalls, Busy, Gone, Synced
<1>1. ASSUME NEW o \in Ops, Ingest(o) PROVE SoloOK'
      BY <1>1 DEF Ingest, Enter, New, stores, FreshOK, Written
<1>2. ASSUME NEW o \in Ops, RequestReindex(o) PROVE SoloOK'
      BY <1>2 DEF RequestReindex, New, stores
<1>3. ASSUME NEW o \in Ops, Retry(o) PROVE SoloOK'
      BY <1>3 DEF Retry, New, stores, Erased, Written
<1>4. ASSUME NEW o \in Ops, Reindex(o) PROVE SoloOK'
      BY <1>4 DEF Reindex, Enter, stores, Erased
<1>5. ASSUME NEW o \in Ops, Reembed(o) PROVE SoloOK'
      BY <1>5 DEF Reembed, Enter, New, stores, Erased
<1>6. ASSUME NEW o \in Ops, Delete(o) PROVE SoloOK'
      BY <1>6 DEF Delete, Enter, New, stores, Erased
<1>7. ASSUME NEW o \in Ops, SoftDelete(o) PROVE SoloOK'
      BY <1>7 DEF SoftDelete, New, stores
<1>8. ASSUME NEW o \in Ops, EraseVec(o) PROVE SoloOK'
      BY <1>8 DEF EraseVec, Succeed, Fail, stores, Erased, Written
<1>9. ASSUME NEW o \in Ops, EraseKw(o) PROVE SoloOK'
      BY <1>9 DEF EraseKw, Succeed, Fail, stores, Erased, Written
<1>10. ASSUME NEW o \in Ops, EraseChunks(o) PROVE SoloOK'
      BY <1>10 DEF EraseChunks, Succeed, Fail, stores, Erased, Written
<1>11. ASSUME NEW o \in Ops, EraseRow(o) PROVE SoloOK'
      BY <1>11 DEF EraseRow, Succeed, Fail, RowFree, stores, Erased, Written
<1>12. ASSUME NEW o \in Ops, WriteVec(o) PROVE SoloOK'
      BY <1>12 DEF WriteVec, Succeed, Fail, stores, Erased, Written
<1>13. ASSUME NEW o \in Ops, WriteKw(o) PROVE SoloOK'
      BY <1>13 DEF WriteKw, Succeed, Fail, stores, Erased, Written
<1>14. ASSUME NEW o \in Ops, InsertRow(o) PROVE SoloOK'
      BY <1>14 DEF InsertRow, Succeed, Fail, Conflict, stores, Erased, Written
<1>15. ASSUME NEW o \in Ops, InsertChunks(o) PROVE SoloOK'
  <2>1. CASE chunks' = chunks \cup take[o] /\ Succeed(o, "chunks") /\ row' = row
        BY <1>15, <2>1 DEF InsertChunks, Succeed, Erased, Written
  <2>2. CASE solo' = NoOp
        BY <2>2
  <2> QED BY <1>15, <2>1, <2>2 DEF InsertChunks, Fail, Conflict
<1>16. ASSUME NEW o \in Ops, SetCompleted(o) PROVE SoloOK'
      BY <1>16 DEF SetCompleted, Succeed, Fail, Updated, stores, Erased, Written
<1>17. ASSUME NEW o \in Ops, MarkFailed(o) PROVE SoloOK'
      BY <1>17 DEF MarkFailed, Succeed, Fail, Updated, stores, Erased, Written
<1>18. ASSUME NEW o \in Ops, Proceed(o) PROVE SoloOK'
      BY <1>18 DEF Proceed, stores, Erased, Written
<1>19. ASSUME NEW o \in Ops, HandlerFails(o) PROVE SoloOK'
      BY <1>19 DEF HandlerFails, Updated, stores
<1>20. ASSUME NEW o \in Ops, Drop(o) PROVE SoloOK'
      BY <1>20 DEF Drop, stores, Erased, Written
<1>21. CASE Refresh
      BY <1>21 DEF Refresh, Erased, Written
<1>22. CASE UNCHANGED vars
      BY <1>22 DEF vars, Erased, Written
<1> QED
    BY <1>1, <1>2, <1>3, <1>4, <1>5, <1>6, <1>7, <1>8, <1>9, <1>10,
       <1>11, <1>12, <1>13, <1>14, <1>15, <1>16, <1>17, <1>18, <1>19,
       <1>20, <1>21, <1>22
       DEF Next, Start, delete_document, index_document

-----------------------------------------------------------------------------
(* The theorems.                                                           *)

\* The invariant holds: types, phases, and the achievements of an undisturbed
\* operation.
THEOREM InvHolds == Spec => []Inv
<1>1. Init => Inv
      BY ConstantsAssumption
         DEF Init, Inv, TypeOK, PhaseOK, FreshOK, SoloOK, Gone, Busy
<1>2. Inv /\ [Next]_vars => Inv'
  <2> SUFFICES ASSUME Inv, [Next]_vars PROVE Inv'
      OBVIOUS
  <2>1. TypeOK' /\ PhaseOK'
        BY PhaseStep DEF Inv
  <2>2. FreshOK'
    <3>1. CASE Next
          BY <3>1, FreshStep DEF Inv
    <3>2. CASE UNCHANGED vars
          BY <3>2 DEF Inv, FreshOK, Gone, vars
    <3> QED BY <3>1, <3>2
  <2>3. SoloOK'
        BY SoloStep
  <2> QED BY <2>1, <2>2, <2>3 DEF Inv
<1> QED BY <1>1, <1>2, PTL DEF Spec

\* Every variable of the coordinator and the stores keeps its type.
THEOREM TypeCorrect == Spec => []TypeOK
<1>1. Inv => TypeOK
      BY DEF Inv
<1> QED BY <1>1, InvHolds, PTL

\* An undisturbed reindex or reembed leaves the three stores in agreement on
\* its chunks and an undisturbed deletion leaves nothing, however many
\* operations overlapped, failed or crashed before it.
THEOREM UndisturbedRepairs == Spec => []Repaired
<1>1. Inv => Repaired
      BY DEF Inv, SoloOK, Repaired
<1> QED BY <1>1, InvHolds, PTL

----------------------------------------------------------------------------
(* Lists, and the least and the greatest of a set.                         *)

\* A set of numbers that is not empty has a least one.
LEMMA LeastOf ==
    ASSUME NEW S \in SUBSET Nat, S # {}
    PROVE  LET v == CHOOSE x \in S : \A w \in S : x <= w
           IN v \in S /\ \A w \in S : v <= w
<1>1. PICK x \in S : \A y \in S : ~(<<y, x>> \in OpToRel(<, Nat))
  BY NatLessThanWellFounded, WFMin
<1>2. OpToRel(<, Nat) = {ss \in Nat \X Nat : ss[1] < ss[2]}
  BY DEF OpToRel
<1>3. \A y \in S : x <= y
  <2> SUFFICES ASSUME NEW y \in S, y < x PROVE FALSE
    OBVIOUS
  <2>1. <<y, x>> \in {ss \in Nat \X Nat : ss[1] < ss[2]}
    OBVIOUS
  <2> QED
    BY <1>1, <1>2, <2>1
<1> QED
  BY <1>3

\* The values of a function on a finite set are finitely many.
LEMMA ImageFinite ==
    ASSUME NEW S, IsFiniteSet(S), NEW f
    PROVE  IsFiniteSet({f[x] : x \in S})
<1> DEFINE T == {f[x] : x \in S}
           g == [x \in S |-> f[x]]
<1>1. g \in [S -> T] /\ \A t \in T : \E x \in S : g[x] = t
  OBVIOUS
<1> HIDE DEF T, g
<1>2. g \in Surjection(S, T)
  BY <1>1, Fun_IsSurj
<1>3. IsFiniteSet(T)
  BY <1>2, FS_Surjection
<1> QED
  BY <1>3 DEF T

LEMMA SeqsAre ==
    ASSUME NEW S, NEW f
    PROVE  f \in SetToSeqs(S) <=>
               /\ f \in [1 .. Cardinality(S) -> S]
               /\ \A i, j \in 1 .. Cardinality(S) : i # j => f[i] # f[j]
BY DEF SetToSeqs

\* A list of a set without repetition holds all of it.
LEMMA ListsAll ==
    ASSUME NEW S, IsFiniteSet(S), NEW s \in SetToSeqs(S)
    PROVE  /\ Cardinality(S) \in Nat
           /\ s \in Seq(S) /\ s \in [1 .. Cardinality(S) -> S] /\ Len(s) = Cardinality(S)
           /\ \A i, j \in 1 .. Cardinality(S) : i # j => s[i] # s[j]
           /\ \A c \in S : \E i \in 1 .. Cardinality(S) : s[i] = c
<1> DEFINE n == Cardinality(S)
<1>1. n \in Nat
  BY FS_CardinalityType
<1>2. s \in [1 .. n -> S] /\ \A i, j \in 1 .. n : i # j => s[i] # s[j]
  BY SeqsAre
<1> HIDE DEF n
<1>3. s \in Seq(S) /\ Len(s) = n
  BY <1>1, <1>2
<1>4. IsFiniteSet(1 .. n) /\ Cardinality(1 .. n) = n
  BY <1>1, FS_Interval
<1>5. s \in Injection(1 .. n, S)
  BY <1>2, Fun_IsInj
<1>6. s \in Surjection(1 .. n, S)
  BY <1>4, <1>5, FS_Injection DEF n
<1>7. \A c \in S : \E i \in 1 .. n : s[i] = c
  BY <1>6 DEF Surjection
<1> QED
  BY <1>1, <1>2, <1>3, <1>7 DEF n

\* The greatest of finitely many numbers is one of them.
LEMMA GreatestOf ==
    ASSUME NEW S \in SUBSET Nat, IsFiniteSet(S), S # {}
    PROVE  Max(S) \in S /\ \A x \in S : Max(S) >= x
<1> DEFINE above(x) == {y \in S : y > x}
           counts == {Cardinality(above(x)) : x \in S}
<1>1. ASSUME NEW x \in S
      PROVE  IsFiniteSet(above(x)) /\ Cardinality(above(x)) \in Nat
  <2>1. above(x) \subseteq S
    OBVIOUS
  <2> HIDE DEF above
  <2>2. IsFiniteSet(above(x))
    BY <2>1, FS_Subset
  <2> QED
    BY <2>2, FS_CardinalityType
<1>2. counts \in SUBSET Nat /\ counts # {}
  <2> HIDE DEF above
  <2> QED
    BY <1>1
<1> DEFINE v == CHOOSE n \in counts : \A w \in counts : n <= w
<1>3. v \in counts /\ \A w \in counts : v <= w
  <2> HIDE DEF counts
  <2> QED
    BY <1>2, LeastOf
<1> HIDE DEF v
<1>4. PICK x \in S : v = Cardinality(above(x))
  BY <1>3
<1>5. \A y \in S : x >= y
  <2> SUFFICES ASSUME NEW y \in S, y > x PROVE FALSE
    OBVIOUS
  <2>1. x \in Nat /\ y \in Nat /\ \A z \in S : z \in Nat
    OBVIOUS
  <2>2. above(y) \subseteq above(x) /\ y \in above(x) /\ y \notin above(y)
    <3>1. \A z \in S : z > y => z > x
      <4> TAKE z \in S
      <4>1. z \in Nat
        BY <2>1
      <4> QED
        BY <2>1, <4>1
    <3>2. ~(y > y)
      BY <2>1
    <3> QED
      BY <3>1, <3>2
  <2>3. IsFiniteSet(above(x)) /\ Cardinality(above(x)) \in Nat /\ Cardinality(above(y)) \in Nat
    BY <1>1
  <2>4. v <= Cardinality(above(y))
    BY <1>3
  <2> HIDE DEF above
  <2>5. Cardinality(above(y)) <= Cardinality(above(x)) /\ Cardinality(above(y)) # Cardinality(above(x))
    BY <2>2, <2>3, FS_Subset
  <2> QED
    BY <1>4, <2>3, <2>4, <2>5
<1> QED
  BY <1>5 DEF Max

----------------------------------------------------------------------------
(* The document routes.                                                    *)

BornApart(S) == \A d, e \in S : d # e => rows[d].born # rows[e].born
RowsAre ==
    [tenant : Range(FileOwner), status : {"pending", "completed", "failed"}, refused : BOOLEAN,
     born : Nat]
ReaderStates ==
    [state : {"count", "list", "done"}, tenant : Range(FileOwner), status : {"any", "completed"},
     size : 1 .. 100, page : Nat \ {0}, total : Nat, seen : Seq(Files), orderly : BOOLEAN]
Outcomes == {"deleted", "not found", "error"}
RequestStates ==
    [tenant : {request.tenant : request \in DeleteRequests}, hard : BOOLEAN, batch : BOOLEAN,
     ids : Seq(Files), results : Seq(Outcomes), clean : BOOLEAN,
     state : {"find", "delete", "publish", "done"}]

\* The types, as far as the properties depend on them.
RegistryTypes ==
    /\ rows \in [DOMAIN rows -> RowsAre] /\ DOMAIN rows \subseteq Files
    /\ \A d \in DOMAIN rows : rows[d].tenant = FileOwner[d]
    /\ schema \in [coordinator : BOOLEAN, cascade : BOOLEAN]
    /\ reader = NoReader \/ reader \in ReaderStates
    /\ calls \in [RowCallers -> {NoRowCall} \cup RequestStates]
    /\ published \in Seq(SUBSET Files)

\* A reader whom nothing disturbed has read the first pages of the one order there is.
ReadSoFar(r) ==
    r # NoReader /\ r.orderly /\ BornApart(RowsOf(r.tenant, r.status)) =>
        LET of == RowsOf(r.tenant, r.status)
            read == (r.page - 1) * r.size
        IN /\ r.state \in {"count", "list"} =>
                 /\ read <= Cardinality(of)
                 /\ \A s \in Orders(of) : r.seen = SubSeq(s, 1, read)
           /\ r.state = "list" => r.total = Cardinality(of)
           /\ r.state = "done" => Range(r.seen) = of /\ Len(r.seen) = Cardinality(of)
ReaderKept == ReadSoFar(reader)

\* Where a deletion stands: what it answered so far, what it announced, and what is gone.
CallKept(c) ==
    LET call == calls[c]
        answered == Len(call.results)
    IN /\ call.state \in {"find", "delete"} => answered < Len(call.ids)
       /\ call.state \in {"publish", "done"} => answered = Len(call.ids)
       /\ call.state = "delete" => FileOwner[At(c)] = call.tenant
       /\ call.state = "done" => DeletedIds(call) \subseteq Announced
       /\ RowCallers = {c} => Announced = IF call.state = "done" THEN DeletedIds(call) ELSE {}
       /\ call # NoRowCall /\ call.clean => \A d \in DeletedIds(call) :
              /\ d \notin DOMAIN rows \cup chunkRows
              /\ call.hard /\ schema.coordinator => d \notin Held
CallsKept == \A c \in RowCallers : CallKept(c)

RegistryInv == RegistryTypes /\ ReaderKept /\ CallsKept

\* The constants, as the proofs use them.
LEMMA RegistryNumbers ==
    /\ IsFiniteSet(Files) /\ PageSizes \subseteq Int /\ ChunkCounts \subseteq Nat
    /\ ColumnsBound \in Nat /\ InsertBatch \in Nat /\ MaxParams \in Nat
    /\ \A request \in DeleteRequests :
        request.hard \in BOOLEAN /\ request.batch \in BOOLEAN /\ request.ids \in Seq(Files)
  BY RegistryAssumption DEF RegistryAssumption, Files

\* The smaller and the larger of two numbers.
LEMMA OfTwo ==
    ASSUME NEW x \in Int, NEW y \in Int
    PROVE  /\ Min({x, y}) = (IF x <= y THEN x ELSE y)
           /\ Max({x, y}) = (IF x >= y THEN x ELSE y)
<1>1. CASE x <= y
  BY <1>1 DEF Min, Max
<1>2. CASE ~(x <= y)
  BY <1>2 DEF Min, Max
<1> QED
  BY <1>1, <1>2

LEMMA RowsFinite ==
    ASSUME RegistryTypes, NEW tenant, NEW status
    PROVE  /\ IsFiniteSet(RowsOf(tenant, status)) /\ RowsOf(tenant, status) \subseteq DOMAIN rows
           /\ RowsOf(tenant, status) \subseteq Files
           /\ Cardinality(RowsOf(tenant, status)) \in Nat
           /\ Cardinality(RowsOf(tenant, status)) <= Cardinality(Files) /\ Cardinality(Files) \in Nat
<1>1. RowsOf(tenant, status) \subseteq DOMAIN rows /\ DOMAIN rows \subseteq Files
  BY DEF RowsOf, RegistryTypes
<1>2. IsFiniteSet(Files) /\ RowsOf(tenant, status) \subseteq Files
  BY <1>1, RegistryNumbers
<1>3. IsFiniteSet(RowsOf(tenant, status)) /\ Cardinality(RowsOf(tenant, status)) <= Cardinality(Files)
  BY <1>2, FS_Subset
<1> QED
  BY <1>1, <1>2, <1>3, FS_CardinalityType

\* Documents that were created at different times have one order.
LEMMA OrdersAgree ==
    ASSUME RegistryTypes, NEW S, IsFiniteSet(S), S \subseteq DOMAIN rows, BornApart(S),
           NEW s \in Orders(S), NEW t \in Orders(S)
    PROVE  s = t
<1> DEFINE n == Cardinality(S)
<1>1. /\ n \in Nat /\ s \in [1 .. n -> S] /\ t \in [1 .. n -> S]
      /\ \A i, j \in 1 .. n : i # j => s[i] # s[j]
      /\ \A i, j \in 1 .. n : i # j => t[i] # t[j]
      /\ \A c \in S : \E i \in 1 .. n : s[i] = c
      /\ \A c \in S : \E i \in 1 .. n : t[i] = c
  <2>1. s \in SetToSeqs(S) /\ t \in SetToSeqs(S)
    BY DEF Orders
  <2>2. ASSUME NEW u \in SetToSeqs(S)
        PROVE  /\ Cardinality(S) \in Nat /\ u \in [1 .. Cardinality(S) -> S]
               /\ \A i, j \in 1 .. Cardinality(S) : i # j => u[i] # u[j]
               /\ \A c \in S : \E i \in 1 .. Cardinality(S) : u[i] = c
    BY ListsAll
  <2> QED
    BY <2>1, <2>2
<1>2. /\ \A i, j \in 1 .. n : i < j => rows[s[i]].born >= rows[s[j]].born
      /\ \A i, j \in 1 .. n : i < j => rows[t[i]].born >= rows[t[j]].born
  <2>1. DOMAIN s = 1 .. n /\ DOMAIN t = 1 .. n
    BY <1>1
  <2> HIDE DEF n
  <2> QED
    BY <2>1 DEF Orders
<1>3. \A d \in S : rows[d].born \in Nat
  BY DEF RegistryTypes, RowsAre
<1> HIDE DEF n
<1> SUFFICES ASSUME {i \in 1 .. n : s[i] # t[i]} # {} PROVE FALSE
  <2>1. (\A i \in 1 .. n : s[i] = t[i]) => s = t
    BY <1>1
  <2>2. {i \in 1 .. n : s[i] # t[i]} = {} => \A i \in 1 .. n : s[i] = t[i]
    OBVIOUS
  <2> QED
    BY <2>1, <2>2
<1> DEFINE D == {i \in 1 .. n : s[i] # t[i]}
           v == CHOOSE x \in D : \A w \in D : x <= w
<1>4. D \in SUBSET Nat /\ D # {}
  OBVIOUS
<1>5. v \in D /\ \A w \in D : v <= w
  <2> HIDE DEF D
  <2> QED
    BY <1>4, LeastOf
<1> HIDE DEF v
<1>6. v \in 1 .. n /\ s[v] # t[v] /\ \A i \in 1 .. n : i < v => s[i] = t[i]
  BY <1>5
<1> HIDE DEF D
<1>7. rows[s[v]].born >= rows[t[v]].born
  <2>1. PICK j \in 1 .. n : s[j] = t[v]
    BY <1>1, <1>6
  <2>2. j # v
    BY <1>6, <2>1
  <2>3. ~(j < v)
    BY <1>1, <1>6, <2>1, <2>2
  <2>4. v < j
    BY <1>6, <2>2, <2>3
  <2> QED
    BY <1>2, <1>6, <2>1, <2>4
<1>8. rows[t[v]].born >= rows[s[v]].born
  <2>1. PICK j \in 1 .. n : t[j] = s[v]
    BY <1>1, <1>6
  <2>2. j # v
    BY <1>6, <2>1
  <2>3. ~(j < v)
    BY <1>1, <1>6, <2>1, <2>2
  <2>4. v < j
    BY <1>6, <2>2, <2>3
  <2> QED
    BY <1>2, <1>6, <2>1, <2>4
<1>9. s[v] \in S /\ t[v] \in S
  BY <1>1, <1>6
<1>10. rows[t[v]].born = rows[s[v]].born
  BY <1>3, <1>7, <1>8, <1>9
<1> QED
  BY <1>6, <1>9, <1>10 DEF BornApart

\* While there are more pages they are full, and the last one ends the list.
LEMMA PagesEnough ==
    ASSUME NEW n \in Nat, NEW size \in Nat \ {0}, NEW p \in Nat \ {0}
    PROVE  /\ p * size \in Nat /\ (p - 1) * size \in Nat /\ (p - 1) * size + size = p * size
           /\ p < Pages(n, size) => p * size <= n
           /\ ~(p < Pages(n, size)) => p * size >= n
<1>1. p * size \in Nat /\ (p - 1) * size \in Nat /\ (p - 1) * size + size = p * size
  OBVIOUS
<1>2. CASE n = 0
  BY <1>1, <1>2 DEF Pages
<1>3. CASE n # 0
  <2> DEFINE q == (n + size - 1) \div size
  <2>1. Pages(n, size) = q
    BY <1>3 DEF Pages
  <2>2. q \in Nat /\ q * size <= n + size - 1 /\ n + size - 1 < q * size + size
    OBVIOUS
  <2> HIDE DEF q
  <2>3. p < q => p * size <= n
    <3> SUFFICES ASSUME p < q PROVE p * size <= n
      OBVIOUS
    <3>1. q - p - 1 \in Nat
      BY <2>2
    <3>2. (q - p - 1) * size \in Nat
      BY <3>1
    <3>3. q * size = p * size + size + (q - p - 1) * size
      BY <2>2
    <3> QED
      BY <1>1, <2>2, <3>2, <3>3
  <2>4. ~(p < q) => p * size >= n
    <3> SUFFICES ASSUME ~(p < q) PROVE p * size >= n
      OBVIOUS
    <3>1. p - q \in Nat
      BY <2>2
    <3>2. (p - q) * size \in Nat /\ q * size \in Nat
      BY <2>2, <3>1
    <3>3. p * size = q * size + (p - q) * size
      BY <2>2
    <3> QED
      BY <1>1, <2>2, <3>2, <3>3
  <2> QED
    BY <1>1, <2>1, <2>3, <2>4
<1> QED
  BY <1>2, <1>3

----------------------------------------------------------------------------
(* What a step leaves alone.                                               *)

LEMMA ReaderTypes ==
    ASSUME RegistryTypes
    PROVE  /\ reader.state = "idle" <=> reader = NoReader
           /\ reader # NoReader => reader \in ReaderStates
BY DEF RegistryTypes, ReaderStates, NoReader

LEMMA ReaderLeft ==
    ASSUME ReaderKept, UNCHANGED <<rows, reader>>
    PROVE  ReaderKept'
BY DEF ReaderKept, ReadSoFar, BornApart, RowsOf, Orders, NoReader

LEMMA ReaderDisturbed ==
    ASSUME RegistryTypes, DisturbReader
    PROVE  (reader' = NoReader \/ reader' \in ReaderStates) /\ ReaderKept'
<1>1. CASE reader = NoReader
  BY <1>1, ReaderTypes DEF DisturbReader, ReaderKept, ReadSoFar, NoReader
<1>2. CASE reader # NoReader
  <2>1. reader \in ReaderStates /\ reader' = [reader EXCEPT !.orderly = FALSE]
    BY <1>2, ReaderTypes DEF DisturbReader
  <2>2. reader' \in ReaderStates /\ ~reader'.orderly
    BY <2>1 DEF ReaderStates
  <2> QED
    BY <2>2 DEF ReaderKept, ReadSoFar
<1> QED
  BY <1>1, <1>2

LEMMA HeldStays == UNCHANGED heldVars => Held' = Held
BY DEF heldVars, Held

\* A call that a step does not serve: the tables lose rows, and events are added.
LEMMA CallLeft ==
    ASSUME NEW c \in RowCallers, CallKept(c), UNCHANGED <<calls[c], schema>>,
           DOMAIN rows' \subseteq DOMAIN rows, chunkRows' \subseteq chunkRows, Held' \subseteq Held,
           Announced \subseteq Announced', RowCallers = {c} => Announced' = Announced
    PROVE  CallKept(c)'
BY DEF CallKept, At, DeletedIds

LEMMA IdleCall ==
    ASSUME NEW c \in RowCallers, calls'[c] = NoRowCall, RowCallers = {c} => Announced' = {}
    PROVE  CallKept(c)'
BY DEF CallKept, NoRowCall

LEMMA CallTypes ==
    ASSUME RegistryTypes, NEW c \in RowCallers
    PROVE  /\ calls[c].state = "idle" <=> calls[c] = NoRowCall
           /\ calls[c] # NoRowCall => calls[c] \in RequestStates
<1>1. calls[c] = NoRowCall \/ calls[c] \in RequestStates
  BY DEF RegistryTypes
<1>2. calls[c] \in RequestStates => calls[c].state \in {"find", "delete", "publish", "done"}
  BY DEF RequestStates
<1>3. NoRowCall.state = "idle"
  BY DEF NoRowCall
<1> QED
  BY <1>1, <1>2, <1>3

\* The worker's steps.
LEMMA CreateRowKeeps ==
    ASSUME RegistryInv, NEW d \in Files, CreateRow(d)
    PROVE  RegistryInv'
<1>1. RegistryTypes /\ ReaderKept /\ CallsKept
  BY DEF RegistryInv
<1> DEFINE born == {rows[e].born : e \in DOMAIN rows} \cup {0}
<1>2. born \in SUBSET Nat /\ IsFiniteSet(born) /\ born # {}
  <2> DEFINE g == [e \in DOMAIN rows |-> rows[e].born]
             T == {g[e] : e \in DOMAIN rows}
  <2>1. IsFiniteSet(DOMAIN rows)
    BY <1>1, RegistryNumbers, FS_Subset DEF RegistryTypes
  <2>2. IsFiniteSet(T)
    BY <2>1, ImageFinite
  <2>3. born = T \cup {0}
    OBVIOUS
  <2>4. T \in SUBSET Nat
    BY <1>1 DEF RegistryTypes, RowsAre
  <2> HIDE DEF T, born
  <2> QED
    BY <2>2, <2>3, <2>4, FS_AddElement
<1> DEFINE last == Max(born)
<1>3. last \in Nat
  <2> HIDE DEF born
  <2> QED
    BY <1>2, GreatestOf
<1>4. PICK tick \in {0, 1} :
        rows' = [e \in DOMAIN rows \cup {d} |->
                   IF e = d THEN [tenant |-> FileOwner[d], status |-> "pending", refused |-> FALSE,
                                  born |-> tick + last]
                   ELSE rows[e]]
  BY DEF CreateRow
<1> HIDE DEF last, born
<1>5. /\ rows' \in [DOMAIN rows' -> RowsAre] /\ DOMAIN rows' \subseteq Files
      /\ \A e \in DOMAIN rows' : rows'[e].tenant = FileOwner[e]
  BY <1>1, <1>3, <1>4 DEF RegistryTypes, RowsAre, Files, Range
<1>6. (reader' = NoReader \/ reader' \in ReaderStates) /\ ReaderKept'
  BY <1>1, ReaderDisturbed DEF CreateRow
<1>7. RegistryTypes'
  BY <1>1, <1>5, <1>6 DEF RegistryTypes, CreateRow
<1>8. ASSUME NEW c \in RowCallers PROVE CallKept(c)'
  <2>1. calls[c] = NoRowCall /\ calls' = calls /\ Announced' = Announced
    BY DEF CreateRow, Announced
  <2>2. RowCallers = {c} => Announced = {}
    BY <1>1, <2>1 DEF CallsKept, CallKept, NoRowCall
  <2> QED
    BY <2>1, <2>2, IdleCall
<1> QED
  BY <1>6, <1>7, <1>8 DEF RegistryInv, CallsKept

LEMMA IndexRowKeeps ==
    ASSUME RegistryInv, NEW d \in Files, IndexRow(d)
    PROVE  RegistryInv'
<1>1. RegistryTypes /\ ReaderKept /\ CallsKept
  BY DEF RegistryInv
<1>2. PICK n \in ChunkCounts, succeeds \in BOOLEAN :
        /\ rows' = [rows EXCEPT ![d].status = IF succeeds /\ ~(BatchParams(n) > MaxParams)
                                              THEN "completed" ELSE "failed",
                                ![d].refused = BatchParams(n) > MaxParams]
        /\ chunkRows' \subseteq chunkRows \cup {d} /\ inQdrant' \subseteq inQdrant \cup {d}
        /\ inIndex' \subseteq inIndex \cup {d} /\ overlooked' = overlooked
  BY DEF IndexRow
<1>h. Held' \subseteq Held \cup {d}
  BY <1>2 DEF Held
<1>3. /\ rows' \in [DOMAIN rows' -> RowsAre] /\ DOMAIN rows' = DOMAIN rows
      /\ \A e \in DOMAIN rows' : rows'[e].tenant = FileOwner[e]
  <2> DEFINE refused == BatchParams(n) > MaxParams
             status == IF succeeds /\ ~refused THEN "completed" ELSE "failed"
  <2>1. rows' = [rows EXCEPT ![d].status = status, ![d].refused = refused]
    BY <1>2
  <2>2. refused \in BOOLEAN /\ status \in {"completed", "failed"}
    <3>1. n \in Nat /\ ColumnsBound \in Nat /\ InsertBatch \in Nat /\ MaxParams \in Nat
      BY RegistryNumbers
    <3>2. Min({n, InsertBatch}) \in Nat
      BY <3>1, OfTwo
    <3>3. BatchParams(n) \in Nat
      BY <3>1, <3>2 DEF BatchParams
    <3> QED
      BY <3>1, <3>3
  <2> HIDE DEF refused, status
  <2>3. d \in DOMAIN rows
    BY DEF IndexRow
  <2> QED
    BY <1>1, <2>1, <2>2, <2>3 DEF RegistryTypes, RowsAre
<1>4. (reader' = NoReader \/ reader' \in ReaderStates) /\ ReaderKept'
  BY <1>1, ReaderDisturbed DEF IndexRow
<1>5. RegistryTypes'
  BY <1>1, <1>3, <1>4 DEF RegistryTypes, IndexRow
<1>6. ASSUME NEW c \in RowCallers PROVE CallKept(c)'
  <2>1. calls' = calls /\ published' = published /\ schema' = schema /\ d \in DOMAIN rows
    BY DEF IndexRow
  <2>2. CallKept(c)
    BY <1>1 DEF CallsKept
  <2>3. ASSUME NEW e, e \notin DOMAIN rows \cup chunkRows
        PROVE  /\ e \notin DOMAIN rows' \cup chunkRows'
               /\ e \notin Held => e \notin Held'
    BY <1>2, <1>3, <1>h, <2>1, <2>3
  <2>4. /\ Announced' = Announced /\ At(c)' = At(c) /\ DeletedIds(calls[c])' = DeletedIds(calls[c])
        /\ calls'[c] = calls[c]
    BY <2>1 DEF Announced, At, DeletedIds
  <2> QED
    BY <2>1, <2>2, <2>3, <2>4 DEF CallKept
<1> QED
  BY <1>4, <1>5, <1>6 DEF RegistryInv, CallsKept

\* The reader's steps.
LEMMA OrderIs ==
    ASSUME RegistryTypes, NEW tenant, NEW status, NEW s \in Orders(RowsOf(tenant, status))
    PROVE  /\ s \in SetToSeqs(RowsOf(tenant, status))
           /\ s \in Seq(RowsOf(tenant, status)) /\ s \in Seq(Files)
           /\ Len(s) = Cardinality(RowsOf(tenant, status))
           /\ Range(s) = RowsOf(tenant, status)
<1> DEFINE S == RowsOf(tenant, status)
           n == Cardinality(S)
<1>1. s \in SetToSeqs(S)
  BY DEF Orders
<1>2. IsFiniteSet(S) /\ S \subseteq Files
  BY RowsFinite
<1> HIDE DEF S
<1>3. /\ n \in Nat /\ s \in Seq(S) /\ s \in [1 .. n -> S] /\ Len(s) = n
      /\ \A c \in S : \E i \in 1 .. n : s[i] = c
  BY <1>1, <1>2, ListsAll
<1> HIDE DEF n
<1>4. Range(s) = S
  BY <1>3 DEF Range
<1>5. s \in Seq(Files)
  BY <1>2, <1>3
<1> QED
  BY <1>1, <1>3, <1>4, <1>5 DEF S, n

\* The steps of a reader leave all else.
LEMMA ReaderMoves ==
    ASSUME RegistryInv, UNCHANGED <<rows, chunkRows, heldVars, schema, created, calls, published>>,
           reader' \in ReaderStates, ReadSoFar(reader')
    PROVE  RegistryInv'
<1>1. RegistryTypes /\ CallsKept
  BY DEF RegistryInv
<1>2. RegistryTypes'
  BY <1>1 DEF RegistryTypes
<1>3. ReaderKept'
  BY DEF ReaderKept, ReadSoFar, BornApart, RowsOf, Orders, NoReader
<1>4. ASSUME NEW c \in RowCallers PROVE CallKept(c)'
  <2>1. CallKept(c) /\ Announced' = Announced
    BY <1>1 DEF CallsKept, Announced
  <2> QED
    BY <2>1, HeldStays, CallLeft
<1> QED
  BY <1>2, <1>3, <1>4 DEF RegistryInv, CallsKept

LEMMA StartReadingKeeps ==
    ASSUME RegistryInv, NEW tenant \in Range(FileOwner), NEW status \in {"any", "completed"},
           NEW size \in PageSizes, StartReading(tenant, status, size)
    PROVE  RegistryInv'
<1>1. RegistryTypes
  BY DEF RegistryInv
<1> DEFINE bounded == Clamp(size, 1, 100)
<1>2. bounded \in 1 .. 100
  <2>1. size \in Int
    BY RegistryNumbers
  <2>2. Min({size, 100}) \in Int /\ Min({size, 100}) <= 100
    BY <2>1, OfTwo
  <2>3. ASSUME NEW m \in Int, m <= 100 PROVE Max({1, m}) \in 1 .. 100
    <3>1. 1 \in Int /\ m \in Int
      BY <2>3
    <3>2. Max({1, m}) = IF 1 >= m THEN 1 ELSE m
      BY <3>1, OfTwo
    <3> QED
      BY <2>3, <3>2
  <2> QED
    BY <2>2, <2>3 DEF Clamp
<1> HIDE DEF bounded
<1>3. reader' = [state |-> "count", tenant |-> tenant, status |-> status, size |-> bounded,
                 page |-> 1, total |-> 0, seen |-> <<>>, orderly |-> TRUE]
  BY DEF StartReading, bounded
<1>4. reader' \in ReaderStates
  BY <1>2, <1>3 DEF ReaderStates
<1>5. ReadSoFar(reader')
  <2>1. Cardinality(RowsOf(tenant, status)) \in Nat
    BY <1>1, RowsFinite
  <2>2. (1 - 1) * bounded = 0
    BY <1>2
  <2>3. ASSUME NEW s \in Orders(RowsOf(tenant, status)) PROVE SubSeq(s, 1, 0) = <<>>
    <3>1. s \in Seq(Files)
      BY <1>1, OrderIs
    <3> QED
      BY <3>1
  <2> QED
    BY <1>3, <2>1, <2>2, <2>3 DEF ReadSoFar
<1> QED
  BY <1>4, <1>5, ReaderMoves DEF StartReading

LEMMA CountPageKeeps ==
    ASSUME RegistryInv, CountPage
    PROVE  RegistryInv'
<1>1. RegistryTypes /\ ReadSoFar(reader)
  BY DEF RegistryInv, ReaderKept
<1>2. reader \in ReaderStates /\ reader.state = "count"
  BY <1>1, ReaderTypes DEF CountPage, NoReader
<1> DEFINE of == RowsOf(reader.tenant, reader.status)
<1>3. Cardinality(of) \in Nat
  BY <1>1, RowsFinite
<1>4. reader' = [reader EXCEPT !.state = "list", !.total = Cardinality(of)]
  BY DEF CountPage, CountFiltered
<1>5. reader' \in ReaderStates
  <2> HIDE DEF of
  <2> QED
    BY <1>2, <1>3, <1>4 DEF ReaderStates
<1>6. ReadSoFar(reader')
  <2>1. /\ reader'.tenant = reader.tenant /\ reader'.status = reader.status
        /\ reader'.page = reader.page /\ reader'.size = reader.size /\ reader'.seen = reader.seen
        /\ reader'.orderly = reader.orderly /\ reader'.state = "list"
        /\ reader'.total = Cardinality(of)
    BY <1>2, <1>4 DEF ReaderStates
  <2>2. reader # NoReader
    BY <1>2 DEF NoReader
  <2> QED
    BY <1>1, <1>2, <2>1, <2>2 DEF ReadSoFar
<1> QED
  BY <1>5, <1>6, ReaderMoves DEF CountPage

\* The rest of a list, a piece at a time.
LEMMA NextWindow ==
    ASSUME NEW S, NEW t \in Seq(S), NEW read \in Nat, NEW size \in Nat, read <= Len(t)
    PROVE  /\ Window(t, size, read) \in Seq(S)
           /\ SubSeq(t, 1, read) \o Window(t, size, read) =
                  SubSeq(t, 1, IF read + size <= Len(t) THEN read + size ELSE Len(t))
<1> DEFINE last == Min({read + size, Len(t)})
<1>1. Len(t) \in Nat
  OBVIOUS
<1>2. last = IF read + size <= Len(t) THEN read + size ELSE Len(t)
  BY <1>1, OfTwo
<1> HIDE DEF last
<1>3. last \in Nat /\ read <= last /\ last <= Len(t)
  BY <1>1, <1>2
<1>4. Window(t, size, read) = SubSeq(t, read + 1, last)
  BY DEF Window, last
<1> DEFINE one == SubSeq(t, 1, read)
           two == SubSeq(t, read + 1, last)
           both == SubSeq(t, 1, last)
<1>5. /\ one \in Seq(S) /\ Len(one) = read /\ \A i \in 1 .. read : one[i] = t[i]
      /\ both \in Seq(S) /\ Len(both) = last /\ \A i \in 1 .. last : both[i] = t[i]
  BY <1>1, <1>3, SubSeqProperties
<1>6. two \in Seq(S) /\ Len(two) = last - read /\ \A i \in 1 .. last - read : two[i] = t[read + i]
  BY <1>1, <1>3, SubSeqProperties
<1> HIDE DEF one, two, both
<1>7. /\ one \o two \in Seq(S) /\ Len(one \o two) = last
      /\ \A i \in 1 .. last : (one \o two)[i] = IF i <= read THEN one[i] ELSE two[i - read]
  BY <1>3, <1>5, <1>6
<1>8. \A i \in 1 .. last : (one \o two)[i] = both[i]
  <2> TAKE i \in 1 .. last
  <2>1. both[i] = t[i]
    BY <1>5
  <2>2. CASE i <= read
    <3>1. (one \o two)[i] = one[i] /\ i \in 1 .. read
      BY <1>3, <1>7, <2>2
    <3> QED
      BY <1>5, <2>1, <3>1
  <2>3. CASE ~(i <= read)
    <3>1. i - read \in 1 .. last - read /\ read + (i - read) = i
      BY <1>3, <2>3
    <3>2. (one \o two)[i] = two[i - read]
      BY <1>7, <2>3
    <3>3. two[i - read] = t[i]
      BY <1>6, <3>1
    <3> QED
      BY <2>1, <3>2, <3>3
  <2> QED
    BY <2>2, <2>3
<1>9. one \o two = both
  BY <1>3, <1>5, <1>7, <1>8, SeqEqual
<1> QED
  BY <1>2, <1>4, <1>6, <1>9 DEF one, two, both

LEMMA ListPageKeeps ==
    ASSUME RegistryInv, ListPage
    PROVE  RegistryInv'
<1>1. RegistryTypes /\ ReadSoFar(reader)
  BY DEF RegistryInv, ReaderKept
<1>2. reader \in ReaderStates /\ reader.state = "list"
  BY <1>1, ReaderTypes DEF ListPage, NoReader
<1> DEFINE of == RowsOf(reader.tenant, reader.status)
           n == Cardinality(of)
           read == (reader.page - 1) * reader.size
           more == reader.page < Pages(reader.total, reader.size)
<1>3. PICK t \in Orders(of) :
        reader' = [reader EXCEPT !.seen = @ \o Window(t, reader.size, read),
                                 !.page = @ + 1, !.state = IF more THEN "count" ELSE "done"]
  BY DEF ListPage, ListFiltered
<1>4. /\ reader.page \in Nat \ {0} /\ reader.size \in Nat \ {0} /\ reader.total \in Nat
      /\ reader.seen \in Seq(Files)
  <2>1. /\ reader.page \in Nat \ {0} /\ reader.size \in 1 .. 100 /\ reader.total \in Nat
        /\ reader.seen \in Seq(Files)
    BY <1>2 DEF ReaderStates
  <2>2. ASSUME NEW size \in 1 .. 100 PROVE size \in Nat \ {0}
    OBVIOUS
  <2>3. reader.size \in Nat \ {0}
    BY <2>1, <2>2
  <2> QED
    BY <2>1, <2>3
<1>5. t \in Seq(Files) /\ Len(t) = n /\ Range(t) = of /\ n \in Nat
  BY <1>1, OrderIs, RowsFinite
<1> DEFINE found == Window(t, reader.size, read)
<1>6. found \in Seq(Files)
  <2>1. read \in Nat
    BY <1>4, PagesEnough
  <2>2. CASE read <= Len(t)
    <3> HIDE DEF read
    <3> QED
      BY <1>4, <1>5, <2>1, <2>2, NextWindow
  <2>3. CASE ~(read <= Len(t))
    <3> DEFINE last == Min({read + reader.size, Len(t)})
    <3> HIDE DEF read
    <3>1. Len(t) \in Nat /\ read + reader.size > Len(t) /\ read + reader.size \in Nat
      BY <1>4, <1>5, <2>1, <2>3
    <3>2. last = Len(t)
      BY <3>1, OfTwo
    <3> HIDE DEF last
    <3>3. SubSeq(t, read + 1, last) = <<>>
      BY <2>1, <2>3, <3>1, <3>2, SubSeqEmpty
    <3>4. found = <<>>
      BY <3>3 DEF Window, last
    <3> QED
      BY <3>4
  <2> QED
    BY <2>2, <2>3
<1> DEFINE told == reader.seen \o found
<1>7. told \in Seq(Files)
  <2> HIDE DEF found
  <2> QED
    BY <1>4, <1>6
<1>8. /\ reader'.tenant = reader.tenant /\ reader'.status = reader.status
      /\ reader'.page = reader.page + 1 /\ reader'.size = reader.size /\ reader'.seen = told
      /\ reader'.orderly = reader.orderly /\ reader'.state = (IF more THEN "count" ELSE "done")
      /\ reader'.total = reader.total /\ reader' \in ReaderStates
  <2> HIDE DEF more, found, of
  <2> DEFINE all == reader.seen \o found
             where == IF more THEN "count" ELSE "done"
             next == reader.page + 1
  <2>1. reader' = [reader EXCEPT !.seen = all, !.page = next, !.state = where]
    BY <1>3 DEF found
  <2>2. all \in Seq(Files) /\ where \in {"count", "done"} /\ next \in Nat \ {0}
    BY <1>4, <1>7
  <2> HIDE DEF all, where, next
  <2>3. /\ reader'.tenant = reader.tenant /\ reader'.status = reader.status
        /\ reader'.page = next /\ reader'.size = reader.size /\ reader'.seen = all
        /\ reader'.orderly = reader.orderly /\ reader'.state = where
        /\ reader'.total = reader.total /\ reader' \in ReaderStates
    BY <1>2, <2>1, <2>2 DEF ReaderStates
  <2> QED
    BY <2>3 DEF all, where, next
<1> HIDE DEF more
<1>9. ReadSoFar(reader')
  <2> SUFFICES ASSUME reader.orderly, BornApart(of)
               PROVE  /\ more =>
                            /\ reader.page * reader.size <= n
                            /\ \A s \in Orders(of) : told = SubSeq(s, 1, reader.page * reader.size)
                      /\ ~more => Range(told) = of /\ Len(told) = n
    <3>1. (reader'.page - 1) * reader'.size = reader.page * reader.size
      <4>1. reader'.page - 1 = reader.page /\ reader'.size = reader.size
        BY <1>4, <1>8
      <4> QED
        BY <4>1
    <3> HIDE DEF told, read, found
    <3>2. CASE more
      <4>1. reader'.state = "count"
        BY <1>8, <3>2
      <4>2. RowsOf(reader'.tenant, reader'.status) = of /\ reader'.seen = told
            /\ reader'.orderly = reader.orderly
        BY <1>8
      <4> HIDE DEF of
      <4> QED
        BY <3>1, <3>2, <4>1, <4>2 DEF ReadSoFar
    <3>3. CASE ~more
      <4>1. reader'.state = "done"
        BY <1>8, <3>3
      <4> QED
        BY <1>8, <3>1, <3>3, <4>1 DEF ReadSoFar
    <3> QED
      BY <3>2, <3>3
  <2>1. reader # NoReader
    BY <1>2 DEF NoReader
  <2>2. /\ read <= n /\ reader.seen = SubSeq(t, 1, read) /\ reader.total = n
    BY <1>1, <1>2, <2>1 DEF ReadSoFar
  <2>3. /\ reader.page * reader.size \in Nat /\ read \in Nat
        /\ read + reader.size = reader.page * reader.size
        /\ more => reader.page * reader.size <= n
        /\ ~more => reader.page * reader.size >= n
    BY <1>4, <1>5, <2>2, PagesEnough DEF more
  <2>4. told = SubSeq(t, 1, IF read + reader.size <= Len(t) THEN read + reader.size ELSE Len(t))
    <3> HIDE DEF read
    <3> QED
      BY <1>4, <1>5, <2>2, <2>3, NextWindow
  <2>5. \A s \in Orders(of) : s = t
    <3>1. IsFiniteSet(of) /\ of \subseteq DOMAIN rows
      BY <1>1, RowsFinite
    <3> HIDE DEF of
    <3> QED
      BY <1>1, <3>1, OrdersAgree
  <2>6. SubSeq(t, 1, Len(t)) = t
    BY <1>5
  <2>7. ~more => told = t
    <3> HIDE DEF told, read, found
    <3>1. ASSUME ~more PROVE (IF read + reader.size <= Len(t) THEN read + reader.size ELSE Len(t)) = Len(t)
      BY <1>4, <1>5, <2>3, <3>1
    <3> QED
      BY <2>4, <2>6, <3>1
  <2>8. more => told = SubSeq(t, 1, reader.page * reader.size)
    <3> HIDE DEF told, read, found
    <3> QED
      BY <1>5, <2>3, <2>4
  <2> HIDE DEF told, read, found
  <2> QED
    BY <1>5, <2>3, <2>5, <2>7, <2>8
<1> QED
  BY <1>8, <1>9, ReaderMoves DEF ListPage

\* The steps of a deletion.
LEMMA AskDeleteKeeps ==
    ASSUME RegistryInv, NEW c \in RowCallers, NEW request \in DeleteRequests, AskDelete(c, request)
    PROVE  RegistryInv'
<1>1. RegistryTypes /\ CallsKept
  BY DEF RegistryInv
<1>2. calls[c] = NoRowCall /\ reader = NoReader
  BY DEF AskDelete
<1> DEFINE new == [tenant |-> request.tenant, hard |-> request.hard, batch |-> request.batch,
                   ids |-> request.ids, results |-> <<>>, clean |-> TRUE,
                   state |-> IF request.ids = <<>> THEN "publish" ELSE "find"]
<1>3. calls' = [calls EXCEPT ![c] = new]
  BY DEF AskDelete
<1>4. request.hard \in BOOLEAN /\ request.batch \in BOOLEAN /\ request.ids \in Seq(Files)
  BY RegistryNumbers
<1>5. new \in RequestStates
  <2>1. request.tenant \in {r.tenant : r \in DeleteRequests}
    OBVIOUS
  <2>2. <<>> \in Seq(Outcomes)
    OBVIOUS
  <2> DEFINE where == IF request.ids = <<>> THEN "publish" ELSE "find"
  <2>3. where \in {"find", "delete", "publish", "done"}
    OBVIOUS
  <2> HIDE DEF where
  <2>4. [tenant |-> request.tenant, hard |-> request.hard, batch |-> request.batch,
         ids |-> request.ids, results |-> <<>>, clean |-> TRUE, state |-> where] \in RequestStates
    BY <1>4, <2>1, <2>2, <2>3 DEF RequestStates
  <2> QED
    BY <2>4 DEF where
<1>6. /\ new.ids = request.ids /\ new.results = <<>>
      /\ new.state = IF request.ids = <<>> THEN "publish" ELSE "find"
  OBVIOUS
<1> HIDE DEF new
<1>7. calls' \in [RowCallers -> {NoRowCall} \cup RequestStates] /\ calls'[c] = new
      /\ \A b \in RowCallers : b # c => calls'[b] = calls[b]
  BY <1>1, <1>3, <1>5 DEF RegistryTypes
<1>8. schema' \in [coordinator : BOOLEAN, cascade : BOOLEAN]
  BY <1>1 DEF RegistryTypes, AskDelete
<1>9. RegistryTypes'
  BY <1>1, <1>7, <1>8 DEF RegistryTypes, AskDelete
<1>10. ReaderKept'
  BY <1>2 DEF AskDelete, ReaderKept, ReadSoFar
<1>11. Announced' = Announced
  BY DEF AskDelete, Announced
<1>12. CallKept(c)'
  <2>1. RowCallers = {c} => Announced = {}
    BY <1>1, <1>2 DEF CallsKept, CallKept, NoRowCall
  <2>2. Len(new.results) = 0 /\ DeletedIds(new) = {}
    BY <1>6 DEF DeletedIds
  <2>3. IF new.state = "publish" THEN Len(new.ids) = 0 ELSE new.state = "find" /\ Len(new.ids) > 0
    BY <1>4, <1>6
  <2> QED
    BY <1>7, <1>11, <2>1, <2>2, <2>3 DEF CallKept
<1>13. ASSUME NEW b \in RowCallers, b # c PROVE CallKept(b)'
  <2>1. CallKept(b) /\ calls'[b] = calls[b] /\ RowCallers # {b}
    BY <1>1, <1>7, <1>13 DEF CallsKept
  <2>2. CASE calls[b] = NoRowCall
    BY <2>1, <2>2, IdleCall
  <2>3. CASE calls[b] # NoRowCall
    <3>1. UNCHANGED <<calls[b], schema, rows, chunkRows>> /\ Held' = Held
      BY <2>1, <2>3, HeldStays DEF AskDelete
    <3> QED
      BY <1>11, <2>1, <3>1, CallLeft
  <2> QED
    BY <2>2, <2>3
<1> QED
  BY <1>9, <1>10, <1>12, <1>13 DEF RegistryInv, CallsKept

LEMMA Appended ==
    ASSUME NEW S, NEW s \in Seq(S), NEW x \in S
    PROVE  /\ Append(s, x) \in Seq(S) /\ Len(s) \in Nat /\ Len(Append(s, x)) = Len(s) + 1
           /\ DOMAIN s = 1 .. Len(s) /\ DOMAIN Append(s, x) = 1 .. Len(s) + 1
           /\ Append(s, x)[Len(s) + 1] = x
           /\ \A i \in 1 .. Len(s) : Append(s, x)[i] = s[i]
OBVIOUS

NamedDeleted(ids, results) == {ids[i] : i \in {j \in DOMAIN results : results[j] = "deleted"}}

\* One more answer, of as many as there are ids.
LEMMA OneMore ==
    ASSUME NEW S, NEW ids \in Seq(S), NEW Words, NEW told \in Seq(Words), Len(told) < Len(ids),
           NEW what \in Words
    PROVE  /\ Append(told, what) \in Seq(Words)
           /\ Len(told) + 1 < Len(ids) => Len(Append(told, what)) < Len(ids)
           /\ ~(Len(told) + 1 < Len(ids)) => Len(Append(told, what)) = Len(ids)
           /\ what = "deleted" => NamedDeleted(ids, Append(told, what)) =
                                      NamedDeleted(ids, told) \cup {ids[Len(told) + 1]}
           /\ what # "deleted" => NamedDeleted(ids, Append(told, what)) = NamedDeleted(ids, told)
<1> DEFINE more == Append(told, what)
           n == Len(told)
<1>1. /\ more \in Seq(Words) /\ n \in Nat /\ Len(more) = n + 1
      /\ DOMAIN told = 1 .. n /\ DOMAIN more = 1 .. n + 1
      /\ more[n + 1] = what /\ \A i \in 1 .. n : more[i] = told[i]
  BY Appended
<1>2. Len(ids) \in Nat
  OBVIOUS
<1> HIDE DEF more, n
<1>3. n < Len(ids)
  BY DEF n
<1>4. /\ n + 1 < Len(ids) => Len(more) < Len(ids)
      /\ ~(n + 1 < Len(ids)) => Len(more) = Len(ids)
  BY <1>1, <1>2, <1>3
<1>5. 1 .. n + 1 = (1 .. n) \cup {n + 1}
  BY <1>1
<1>6. /\ what = "deleted" => NamedDeleted(ids, more) = NamedDeleted(ids, told) \cup {ids[n + 1]}
      /\ what # "deleted" => NamedDeleted(ids, more) = NamedDeleted(ids, told)
  BY <1>1, <1>5 DEF NamedDeleted
<1> QED
  BY <1>1, <1>4, <1>6 DEF more, n

\* What an answer does to its call.
IsAnswer(next, c, what) ==
    next = [calls EXCEPT ![c].results = Append(@, what),
                         ![c].state = IF More(c) THEN "find" ELSE "publish"]

\* What is then known of the call, and that the others are as they were.
AnswerShape(next, c, what) ==
    /\ next \in [RowCallers -> {NoRowCall} \cup RequestStates] /\ next[c] \in RequestStates
    /\ \A b \in RowCallers : b # c => next[b] = calls[b]
    /\ next[c].ids = calls[c].ids /\ next[c].hard = calls[c].hard
    /\ next[c].clean = calls[c].clean
    /\ next[c].state \in {"find", "publish"}
    /\ next[c].state = "find" => Len(next[c].results) < Len(next[c].ids)
    /\ next[c].state = "publish" => Len(next[c].results) = Len(next[c].ids)
    /\ what = "deleted" => DeletedIds(next[c]) = DeletedIds(calls[c]) \cup {At(c)}
    /\ what # "deleted" => DeletedIds(next[c]) = DeletedIds(calls[c])

\* An id is answered; the next is looked up, or all of them are announced.
LEMMA Answered ==
    ASSUME RegistryTypes, NEW c \in RowCallers, calls[c] \in RequestStates,
           Len(calls[c].results) < Len(calls[c].ids), NEW what \in Outcomes,
           NEW next, IsAnswer(next, c, what)
    PROVE  AnswerShape(next, c, what)
<1> DEFINE results == calls[c].results
           ids == calls[c].ids
           told == Append(results, what)
           where == IF More(c) THEN "find" ELSE "publish"
<1>1. next = [calls EXCEPT ![c].results = told, ![c].state = where]
  BY DEF IsAnswer
<1>2. results \in Seq(Outcomes) /\ ids \in Seq(Files) /\ Len(results) < Len(ids) /\ what \in Outcomes
  BY DEF RequestStates
<1>3. where = IF Len(results) + 1 < Len(ids) THEN "find" ELSE "publish"
  BY DEF More
<1>4. At(c) = ids[Len(results) + 1]
  BY DEF At
<1>5. told \in Seq(Outcomes)
  <2> HIDE DEF results, Outcomes
  <2> QED
    BY <1>2, Appended
<1>6. where \in {"find", "publish"}
  OBVIOUS
<1> HIDE DEF where, told
<1>7. /\ next[c] = [calls[c] EXCEPT !.results = told, !.state = where]
      /\ next \in [RowCallers -> {NoRowCall} \cup RequestStates \cup {next[c]}]
      /\ \A b \in RowCallers : b # c => next[b] = calls[b]
  BY <1>1 DEF RegistryTypes
<1>8. /\ next[c].results = told /\ next[c].state = where /\ next[c].ids = ids
      /\ next[c].tenant = calls[c].tenant /\ next[c].hard = calls[c].hard
      /\ next[c].clean = calls[c].clean /\ next[c] \in RequestStates
  BY <1>5, <1>6, <1>7 DEF RequestStates
<1>9. next \in [RowCallers -> {NoRowCall} \cup RequestStates]
  BY <1>7, <1>8
<1>10. DeletedIds(calls[c]) = NamedDeleted(ids, results)
  BY DEF DeletedIds, NamedDeleted
<1>11. DeletedIds(next[c]) = NamedDeleted(ids, told)
  BY <1>8 DEF DeletedIds, NamedDeleted
<1>12. /\ Append(results, what) \in Seq(Outcomes)
       /\ Len(results) + 1 < Len(ids) => Len(Append(results, what)) < Len(ids)
       /\ ~(Len(results) + 1 < Len(ids)) => Len(Append(results, what)) = Len(ids)
       /\ what = "deleted" => NamedDeleted(ids, Append(results, what)) =
                                  NamedDeleted(ids, results) \cup {ids[Len(results) + 1]}
       /\ what # "deleted" => NamedDeleted(ids, Append(results, what)) = NamedDeleted(ids, results)
  <2> HIDE DEF results, ids, where, told
  <2>1. /\ ids \in Seq(Files) /\ results \in Seq(Outcomes) /\ what \in Outcomes
        /\ Len(results) < Len(ids)
    BY <1>2
  <2> QED
    BY <2>1, OneMore
<1> HIDE DEF results, ids
<1>13. /\ where = "find" => Len(told) < Len(ids)
       /\ where = "publish" => Len(told) = Len(ids)
  BY <1>3, <1>12 DEF told
<1>14. /\ what = "deleted" => DeletedIds(next[c]) = DeletedIds(calls[c]) \cup {At(c)}
       /\ what # "deleted" => DeletedIds(next[c]) = DeletedIds(calls[c])
  BY <1>4, <1>10, <1>11, <1>12 DEF told
<1> QED
  BY <1>6, <1>7, <1>8, <1>9, <1>13, <1>14 DEF results, ids, AnswerShape

\* A step of one deletion, for the other calls.
LEMMA OthersLeft ==
    ASSUME RegistryInv, NEW c \in RowCallers, calls' \in [RowCallers -> {NoRowCall} \cup RequestStates],
           \A b \in RowCallers : b # c => calls'[b] = calls[b],
           UNCHANGED schema, DOMAIN rows' \subseteq DOMAIN rows, chunkRows' \subseteq chunkRows,
           Held' \subseteq Held, Announced \subseteq Announced'
    PROVE  \A b \in RowCallers : b # c => CallKept(b)'
<1> SUFFICES ASSUME NEW b \in RowCallers, b # c PROVE CallKept(b)'
  OBVIOUS
<1>1. CallKept(b) /\ UNCHANGED calls[b] /\ RowCallers # {b}
  BY DEF RegistryInv, CallsKept
<1> QED
  BY <1>1, CallLeft

LEMMA FindRowKeeps ==
    ASSUME RegistryInv, NEW c \in RowCallers, FindRow(c)
    PROVE  RegistryInv'
<1>1. RegistryTypes /\ ReaderKept /\ CallKept(c)
  BY DEF RegistryInv, CallsKept
<1>2. calls[c] \in RequestStates /\ calls[c].state = "find"
  BY <1>1, CallTypes DEF FindRow, NoRowCall
<1>3. Len(calls[c].results) < Len(calls[c].ids)
  BY <1>1, <1>2 DEF CallKept
<1>4. /\ UNCHANGED <<rows, chunkRows, schema, created, reader, published>>
      /\ Held' = Held /\ Announced' = Announced
  BY HeldStays DEF FindRow, Announced
<1>5. ReaderKept'
  BY <1>1, <1>4, ReaderLeft
<1> SUFFICES /\ calls' \in [RowCallers -> {NoRowCall} \cup RequestStates]
             /\ \A b \in RowCallers : b # c => calls'[b] = calls[b]
             /\ CallKept(c)'
  <2>1. ASSUME calls' \in [RowCallers -> {NoRowCall} \cup RequestStates]
        PROVE  RegistryTypes'
    BY <1>1, <1>4, <2>1 DEF RegistryTypes
  <2> QED
    BY <1>4, <1>5, <2>1, OthersLeft DEF RegistryInv, CallsKept
<1>6. RowCallers = {c} => Announced = {}
  BY <1>1, <1>2 DEF CallKept
<1>7. ASSUME NEW what \in Outcomes, what # "deleted", IsAnswer(calls', c, what)
      PROVE  /\ calls' \in [RowCallers -> {NoRowCall} \cup RequestStates]
             /\ \A b \in RowCallers : b # c => calls'[b] = calls[b]
             /\ CallKept(c)'
  <2>1. AnswerShape(calls', c, what)
    BY <1>1, <1>2, <1>3, <1>7, Answered
  <2>2. CallKept(c)'
    BY <1>1, <1>2, <1>4, <1>6, <1>7, <2>1 DEF CallKept, NoRowCall, AnswerShape
  <2> QED
    BY <2>1, <2>2 DEF AnswerShape
<1>8. CASE At(c) \in RowsOf(calls[c].tenant, "any") /\ calls' = [calls EXCEPT ![c].state = "delete"]
  <2>1. /\ calls' \in [RowCallers -> {NoRowCall} \cup RequestStates]
        /\ \A b \in RowCallers : b # c => calls'[b] = calls[b]
        /\ calls'[c] = [calls[c] EXCEPT !.state = "delete"]
    BY <1>1, <1>2, <1>8 DEF RegistryTypes, RequestStates
  <2>2. /\ calls'[c].ids = calls[c].ids /\ calls'[c].tenant = calls[c].tenant
        /\ calls'[c].hard = calls[c].hard /\ calls'[c].clean = calls[c].clean
        /\ calls'[c].state = "delete" /\ calls'[c].results = calls[c].results
    BY <1>2, <2>1 DEF RequestStates
  <2>3. FileOwner[At(c)] = calls[c].tenant
    BY <1>1, <1>8 DEF RegistryTypes, RowsOf
  <2>4. At(c)' = At(c) /\ DeletedIds(calls'[c]) = DeletedIds(calls[c])
    BY <2>2 DEF At, DeletedIds
  <2>5. CallKept(c)'
    BY <1>1, <1>2, <1>3, <1>4, <1>6, <2>2, <2>3, <2>4 DEF CallKept, NoRowCall
  <2> QED
    BY <2>1, <2>5
<1>9. CASE \E what \in {"not found", "error"} : calls' = AnswerOne(c, what, More(c))
  <2>1. PICK what \in {"not found", "error"} : calls' = AnswerOne(c, what, More(c))
    BY <1>9
  <2>2. what \in Outcomes /\ what # "deleted"
    BY DEF Outcomes
  <2>3. IsAnswer(calls', c, what)
    BY <2>1 DEF IsAnswer, AnswerOne
  <2> QED
    BY <1>7, <2>2, <2>3
<1> QED
  BY <1>8, <1>9 DEF FindRow

\* A row that is deleted takes its chunks with it; one that is not there stays so.
LEMMA RowDropped ==
    ASSUME RegistryTypes, NEW c \in RowCallers, NEW d, NEW chunksLeft, chunksLeft \subseteq chunkRows,
           NEW outcome, outcome = RowOutcome(c, d, chunksLeft), DropRow(d, outcome, chunksLeft)
    PROVE  /\ rows' \in [DOMAIN rows' -> RowsAre] /\ DOMAIN rows' \subseteq DOMAIN rows
           /\ \A e \in DOMAIN rows' : rows'[e].tenant = FileOwner[e]
           /\ chunkRows' \subseteq chunksLeft
           /\ outcome \in Outcomes
           /\ outcome = "deleted" => d \notin DOMAIN rows' \cup chunkRows'
           /\ outcome = "not found" => (d \in DOMAIN rows => FileOwner[d] # calls[c].tenant)
<1>1. outcome \in Outcomes
  BY DEF RowOutcome, Outcomes
<1>2. outcome = "not found" => (d \in DOMAIN rows => FileOwner[d] # calls[c].tenant)
  BY DEF RowOutcome, RowsOf, RegistryTypes
<1>3. CASE outcome = "deleted"
  <2>1. /\ rows' = [e \in DOMAIN rows \ {d} |-> rows[e]] /\ chunkRows' = chunksLeft \ {d}
    BY <1>3 DEF DropRow, Restrict
  <2> QED
    BY <1>1, <1>2, <1>3, <2>1 DEF RegistryTypes
<1>4. CASE outcome # "deleted"
  BY <1>1, <1>2, <1>4 DEF DropRow, RegistryTypes
<1> QED
  BY <1>3, <1>4

\* The answer of a step that deletes, and whether all has been deleted so far.
Marked(next, c, clean) == [next EXCEPT ![c].clean = clean]

LEMMA SameMark ==
    ASSUME NEW c \in RowCallers, NEW next, NEW what, AnswerShape(next, c, what)
    PROVE  Marked(next, c, calls[c].clean) = next
BY DEF AnswerShape, Marked, RequestStates

\* A step that deletes and answers.
LEMMA DeletionKeeps ==
    ASSUME RegistryInv, NEW c \in RowCallers, calls[c].state = "delete",
           UNCHANGED <<schema, published>>, DisturbReader,
           rows' \in [DOMAIN rows' -> RowsAre], DOMAIN rows' \subseteq DOMAIN rows,
           \A e \in DOMAIN rows' : rows'[e].tenant = FileOwner[e],
           chunkRows' \subseteq chunkRows, Held' \subseteq Held,
           NEW what \in Outcomes, NEW next, IsAnswer(next, c, what),
           NEW clean \in BOOLEAN, calls' = Marked(next, c, clean),
           clean => calls[c].clean,
           what = "deleted" /\ clean =>
               /\ At(c) \notin DOMAIN rows' \cup chunkRows'
               /\ calls[c].hard /\ schema.coordinator => At(c) \notin Held'
    PROVE  RegistryInv'
<1>1. RegistryTypes /\ CallKept(c)
  BY DEF RegistryInv, CallsKept
<1>2. calls[c] \in RequestStates
  BY <1>1, CallTypes DEF NoRowCall
<1>3. Len(calls[c].results) < Len(calls[c].ids)
  BY <1>1 DEF CallKept
<1>4. AnswerShape(next, c, what)
  BY <1>1, <1>2, <1>3, Answered
<1>5. /\ calls' \in [RowCallers -> {NoRowCall} \cup RequestStates]
      /\ calls'[c] = [next[c] EXCEPT !.clean = clean]
      /\ \A b \in RowCallers : b # c => calls'[b] = calls[b]
  BY <1>4 DEF RequestStates, Marked, AnswerShape
<1>6. /\ calls'[c].ids = next[c].ids /\ calls'[c].hard = next[c].hard
      /\ calls'[c].results = next[c].results /\ calls'[c].state = next[c].state
      /\ calls'[c].clean = clean
  BY <1>4, <1>5 DEF RequestStates, AnswerShape
<1>7. DeletedIds(calls'[c]) = DeletedIds(next[c])
  BY <1>6 DEF DeletedIds
<1>8. (reader' = NoReader \/ reader' \in ReaderStates) /\ ReaderKept'
  BY <1>1, ReaderDisturbed
<1>9. RegistryTypes'
  BY <1>1, <1>5, <1>8 DEF RegistryTypes
<1>10. Announced' = Announced
  BY DEF Announced
<1>11. \A b \in RowCallers : b # c => CallKept(b)'
  BY <1>5, <1>10, OthersLeft
<1>12. CallKept(c)'
  <2>1. RowCallers = {c} => Announced = {}
    BY <1>1 DEF CallKept
  <2>2. ASSUME clean, NEW d \in DeletedIds(calls'[c])
        PROVE  /\ d \notin DOMAIN rows' \cup chunkRows'
               /\ calls[c].hard /\ schema.coordinator => d \notin Held'
    <3>1. calls[c].clean
      BY <2>2
    <3>2. CASE d \in DeletedIds(calls[c])
      BY <1>1, <1>2, <3>1, <3>2 DEF CallKept, NoRowCall
    <3>3. CASE d \notin DeletedIds(calls[c])
      <4>1. what = "deleted" /\ d = At(c)
        BY <1>4, <1>7, <2>2, <3>3 DEF AnswerShape
      <4> QED
        BY <2>2, <4>1
    <3> QED
      BY <3>2, <3>3
  <2> QED
    BY <1>4, <1>6, <1>10, <2>1, <2>2 DEF CallKept, AnswerShape
<1> QED
  BY <1>8, <1>9, <1>11, <1>12 DEF RegistryInv, CallsKept

LEMMA DeleteEverywhereKeeps ==
    ASSUME RegistryInv, NEW c \in RowCallers, DeleteEverywhere(c)
    PROVE  RegistryInv'
<1>1. RegistryTypes /\ CallKept(c) /\ calls[c].state = "delete" /\ schema.coordinator
  BY DEF RegistryInv, CallsKept, DeleteEverywhere
<1>2. calls[c] \in RequestStates /\ FileOwner[At(c)] = calls[c].tenant
  BY <1>1, CallTypes DEF CallKept, NoRowCall
<1> DEFINE d == At(c)
           outcome == RowOutcome(c, d, chunkRows \ {d})
           next == AnswerOne(c, "deleted", More(c))
<1>3. PICK qdrant \in BOOLEAN, opensearch \in BOOLEAN, database \in BOOLEAN :
        /\ inQdrant' = IF qdrant THEN inQdrant \ {d} ELSE inQdrant
        /\ inIndex' = IF opensearch /\ d \notin recent THEN inIndex \ {d} ELSE inIndex
        /\ overlooked' = IF opensearch /\ d \in recent THEN overlooked \cup {d} ELSE overlooked
        /\ IF database THEN DropRow(d, outcome, chunkRows \ {d}) ELSE UNCHANGED <<rows, chunkRows>>
        /\ calls' = [next EXCEPT ![c].clean = @ /\ qdrant /\ opensearch /\ database]
  BY DEF DeleteEverywhere
<1>4. IsAnswer(next, c, "deleted") /\ "deleted" \in Outcomes
  BY DEF IsAnswer, AnswerOne, Outcomes
<1>5. next[c].clean = calls[c].clean /\ calls[c].clean \in BOOLEAN
  BY <1>1, <1>2 DEF AnswerOne, RegistryTypes, RequestStates
<1> DEFINE clean == next[c].clean /\ qdrant /\ opensearch /\ database
<1>6. clean \in BOOLEAN /\ (clean => calls[c].clean /\ qdrant /\ opensearch /\ database)
  BY <1>5
<1>7. calls' = Marked(next, c, clean)
  BY <1>3 DEF Marked
<1>8. Held' \subseteq Held /\ (qdrant /\ opensearch => d \notin Held')
  BY <1>3 DEF Held
<1>9. /\ rows' \in [DOMAIN rows' -> RowsAre] /\ DOMAIN rows' \subseteq DOMAIN rows
      /\ \A e \in DOMAIN rows' : rows'[e].tenant = FileOwner[e]
      /\ chunkRows' \subseteq chunkRows
      /\ database => d \notin DOMAIN rows' \cup chunkRows'
  <2>1. CASE database
    <3> DEFINE left == chunkRows \ {d}
    <3>1. DropRow(d, outcome, left) /\ left \subseteq chunkRows /\ d \notin left
      BY <1>3, <2>1
    <3>2. outcome = "deleted" \/ outcome = "not found"
      BY DEF RowOutcome
    <3> HIDE DEF d, left
    <3>3. outcome = RowOutcome(c, d, left)
      BY DEF left
    <3> HIDE DEF outcome
    <3>4. /\ rows' \in [DOMAIN rows' -> RowsAre] /\ DOMAIN rows' \subseteq DOMAIN rows
          /\ \A e \in DOMAIN rows' : rows'[e].tenant = FileOwner[e]
          /\ chunkRows' \subseteq left
          /\ outcome = "deleted" => d \notin DOMAIN rows' \cup chunkRows'
          /\ outcome = "not found" => (d \in DOMAIN rows => FileOwner[d] # calls[c].tenant)
      BY <1>1, <3>1, <3>3, RowDropped
    <3>5. FileOwner[d] = calls[c].tenant
      BY <1>2 DEF d
    <3> QED
      BY <3>1, <3>2, <3>4, <3>5
  <2>2. CASE ~database
    BY <1>1, <1>3, <2>2 DEF RegistryTypes
  <2> QED
    BY <2>1, <2>2
<1>10. DisturbReader /\ UNCHANGED <<schema, published>>
  BY DEF DeleteEverywhere
<1> DEFINE what == "deleted"
<1>11. what = "deleted" /\ what \in Outcomes /\ IsAnswer(next, c, what)
  BY <1>4
<1> HIDE DEF clean, next, outcome, what
<1>12. what = "deleted" /\ clean =>
          /\ d \notin DOMAIN rows' \cup chunkRows'
          /\ calls[c].hard /\ schema.coordinator => d \notin Held'
  BY <1>6, <1>8, <1>9
<1> QED
  BY <1>1, <1>6, <1>7, <1>8, <1>9, <1>10, <1>11, <1>12, DeletionKeeps

LEMMA DeleteFromDatabaseKeeps ==
    ASSUME RegistryInv, NEW c \in RowCallers, DeleteFromDatabase(c)
    PROVE  RegistryInv'
<1>1. RegistryTypes /\ CallKept(c) /\ calls[c].state = "delete" /\ ~(calls[c].hard /\ schema.coordinator)
  BY DEF RegistryInv, CallsKept, DeleteFromDatabase
<1>2. calls[c] \in RequestStates /\ FileOwner[At(c)] = calls[c].tenant
  BY <1>1, CallTypes DEF CallKept, NoRowCall
<1> DEFINE d == At(c)
           alone == calls[c].hard /\ ~calls[c].batch
           left == IF alone THEN chunkRows \ {d} ELSE chunkRows
           outcome == RowOutcome(c, d, left)
           said == IF alone /\ outcome = "not found" THEN "deleted" ELSE outcome
<1>3. \/ DropRow(d, outcome, left) /\ calls' = AnswerOne(c, said, More(c))
      \/ UNCHANGED <<rows, chunkRows>> /\ calls' = AnswerOne(c, "error", More(c))
  BY DEF DeleteFromDatabase
<1>4. DisturbReader /\ UNCHANGED <<schema, published>> /\ Held' = Held
  BY HeldStays DEF DeleteFromDatabase
<1>5. left \subseteq chunkRows /\ (alone => d \notin left)
  OBVIOUS
<1>6. calls[c].clean \in BOOLEAN /\ Len(calls[c].results) < Len(calls[c].ids)
  BY <1>1, <1>2 DEF RequestStates, CallKept
<1> HIDE DEF d, alone, left
<1>7. CASE DropRow(d, outcome, left) /\ calls' = AnswerOne(c, said, More(c))
  <2> DEFINE what == said
             next == AnswerOne(c, said, More(c))
             clean == calls[c].clean
  <2>1. IsAnswer(next, c, what)
    BY DEF IsAnswer, AnswerOne
  <2>2. calls' = next
    BY <1>7
  <2> HIDE DEF next
  <2>3. outcome = RowOutcome(c, d, left)
    OBVIOUS
  <2>4. DropRow(d, outcome, left)
    BY <1>7
  <2> HIDE DEF outcome
  <2>5. /\ rows' \in [DOMAIN rows' -> RowsAre] /\ DOMAIN rows' \subseteq DOMAIN rows
        /\ \A e \in DOMAIN rows' : rows'[e].tenant = FileOwner[e]
        /\ chunkRows' \subseteq left
        /\ outcome \in Outcomes
        /\ outcome = "deleted" => d \notin DOMAIN rows' \cup chunkRows'
        /\ outcome = "not found" => (d \in DOMAIN rows => FileOwner[d] # calls[c].tenant)
    BY <1>1, <1>5, <2>3, <2>4, RowDropped
  <2>6. what \in Outcomes
    BY <2>5 DEF Outcomes
  <2>7. FileOwner[d] = calls[c].tenant
    BY <1>2 DEF d
  <2>8. what = "deleted" => d \notin DOMAIN rows' \cup chunkRows'
    BY <1>5, <2>5, <2>7
  <2> HIDE DEF what
  <2>9. calls' = Marked(next, c, clean)
    <3>1. AnswerShape(next, c, what)
      BY <1>1, <1>2, <1>6, <2>1, <2>6, Answered
    <3> QED
      BY <2>2, <3>1, SameMark
  <2> HIDE DEF clean
  <2>10. what = "deleted" /\ clean =>
          /\ At(c) \notin DOMAIN rows' \cup chunkRows'
          /\ calls[c].hard /\ schema.coordinator => At(c) \notin Held'
    BY <1>1, <2>8 DEF d
  <2>11. clean \in BOOLEAN /\ (clean => calls[c].clean) /\ chunkRows' \subseteq chunkRows /\ Held' \subseteq Held
    BY <1>4, <1>5, <1>6, <2>5 DEF clean
  <2> HIDE <1>7
  <2> QED
    BY <1>1, <1>4, <2>1, <2>5, <2>6, <2>10, <2>11, <2>9, DeletionKeeps
<1>8. CASE UNCHANGED <<rows, chunkRows>> /\ calls' = AnswerOne(c, "error", More(c))
  <2> DEFINE what == "error"
             next == AnswerOne(c, what, More(c))
             clean == calls[c].clean
  <2>1. IsAnswer(next, c, what) /\ what \in Outcomes
    BY DEF IsAnswer, AnswerOne, Outcomes
  <2>2. calls' = Marked(next, c, clean)
    <3>1. calls' = next
      BY <1>8
    <3> HIDE DEF next, what
    <3>2. AnswerShape(next, c, what)
      BY <1>1, <1>2, <1>6, <2>1, Answered
    <3> QED
      BY <3>1, <3>2, SameMark
  <2>3. /\ rows' \in [DOMAIN rows' -> RowsAre] /\ DOMAIN rows' \subseteq DOMAIN rows
        /\ \A e \in DOMAIN rows' : rows'[e].tenant = FileOwner[e]
        /\ chunkRows' \subseteq chunkRows /\ Held' \subseteq Held
    BY <1>1, <1>4, <1>8 DEF RegistryTypes
  <2>4. what # "deleted" /\ clean \in BOOLEAN /\ (clean => calls[c].clean)
    BY <1>6
  <2> HIDE DEF what, next, clean
  <2>5. what = "deleted" /\ clean =>
          /\ At(c) \notin DOMAIN rows' \cup chunkRows'
          /\ calls[c].hard /\ schema.coordinator => At(c) \notin Held'
    BY <2>4
  <2> HIDE <1>8
  <2> QED
    BY <1>1, <1>4, <2>1, <2>2, <2>3, <2>4, <2>5, DeletionKeeps
<1> QED
  BY <1>3, <1>7, <1>8

LEMMA AnnounceDeletedKeeps ==
    ASSUME RegistryInv, NEW c \in RowCallers, AnnounceDeleted(c)
    PROVE  RegistryInv'
<1>1. RegistryTypes /\ ReaderKept /\ CallKept(c)
  BY DEF RegistryInv, CallsKept
<1>2. calls[c] \in RequestStates /\ calls[c].state = "publish"
  BY <1>1, CallTypes DEF AnnounceDeleted, NoRowCall
<1> DEFINE ids == DeletedIds(calls[c])
<1>3. ids \in SUBSET Files
  <2>1. calls[c].results \in Seq(Outcomes) /\ calls[c].ids \in Seq(Files)
        /\ Len(calls[c].results) = Len(calls[c].ids)
    BY <1>1, <1>2 DEF RequestStates, CallKept
  <2> QED
    BY <2>1 DEF DeletedIds
<1>4. published \in Seq(SUBSET Files)
  BY <1>1 DEF RegistryTypes
<1>5. published' = IF ids = {} THEN published ELSE Append(published, ids)
  BY DEF AnnounceDeleted
<1> HIDE DEF ids
<1>6. published' \in Seq(SUBSET Files) /\ Announced' = Announced \cup ids
  <2>1. CASE ids = {}
    BY <1>4, <1>5, <2>1 DEF Announced
  <2>2. CASE ids # {}
    <3>1. published' = Append(published, ids)
      BY <1>5, <2>2
    <3> DEFINE n == Len(published)
    <3>2. /\ Append(published, ids) \in Seq(SUBSET Files) /\ n \in Nat
          /\ DOMAIN published = 1 .. n /\ DOMAIN Append(published, ids) = 1 .. n + 1
          /\ Append(published, ids)[n + 1] = ids
          /\ \A i \in 1 .. n : Append(published, ids)[i] = published[i]
      BY <1>3, <1>4, Appended
    <3> HIDE DEF n
    <3>3. 1 .. n + 1 = (1 .. n) \cup {n + 1}
      BY <3>2
    <3>4. Range(published') = Range(published) \cup {ids}
      BY <3>1, <3>2, <3>3 DEF Range
    <3> QED
      BY <3>1, <3>2, <3>4 DEF Announced
  <2> QED
    BY <2>1, <2>2
<1>7. calls' = [calls EXCEPT ![c].state = "done"]
      /\ UNCHANGED <<rows, chunkRows, schema, created, reader>> /\ Held' = Held
  BY HeldStays DEF AnnounceDeleted
<1>8. /\ calls' \in [RowCallers -> {NoRowCall} \cup RequestStates]
      /\ \A b \in RowCallers : b # c => calls'[b] = calls[b]
      /\ calls'[c] = [calls[c] EXCEPT !.state = "done"]
  BY <1>1, <1>2, <1>7 DEF RegistryTypes, RequestStates
<1>9. /\ calls'[c].ids = calls[c].ids /\ calls'[c].results = calls[c].results
      /\ calls'[c].hard = calls[c].hard /\ calls'[c].clean = calls[c].clean
      /\ calls'[c].state = "done"
  BY <1>2, <1>8 DEF RequestStates
<1>10. DeletedIds(calls'[c]) = ids
  BY <1>9 DEF DeletedIds, ids
<1>11. RegistryTypes'
  BY <1>1, <1>6, <1>7, <1>8 DEF RegistryTypes
<1>12. ReaderKept'
  BY <1>1, <1>7, ReaderLeft
<1>13. \A b \in RowCallers : b # c => CallKept(b)'
  BY <1>6, <1>7, <1>8, OthersLeft
<1>14. CallKept(c)'
  <2>1. RowCallers = {c} => Announced = {}
    BY <1>1, <1>2 DEF CallKept
  <2>2. Len(calls[c].results) = Len(calls[c].ids)
    BY <1>1, <1>2 DEF CallKept
  <2>3. calls[c].clean => \A d \in ids :
          /\ d \notin DOMAIN rows \cup chunkRows
          /\ calls[c].hard /\ schema.coordinator => d \notin Held
    BY <1>1, <1>2 DEF CallKept, NoRowCall, ids
  <2> QED
    BY <1>6, <1>7, <1>9, <1>10, <2>1, <2>2, <2>3 DEF CallKept
<1> QED
  BY <1>11, <1>12, <1>13, <1>14 DEF RegistryInv, CallsKept

----------------------------------------------------------------------------
(* What the document routes answer.                                        *)

LEMMA RegistryStart == RegistryInit => RegistryInv
<1> SUFFICES ASSUME RegistryInit PROVE RegistryInv
  OBVIOUS
<1>1. RegistryTypes
  <2>1. rows = <<>> /\ DOMAIN rows = {}
    BY DEF RegistryInit
  <2>2. rows \in [DOMAIN rows -> RowsAre]
    BY <2>1
  <2>3. published \in Seq(SUBSET Files)
    BY DEF RegistryInit
  <2> QED
    BY <2>1, <2>2, <2>3 DEF RegistryInit, RegistryTypes
<1>2. ReaderKept
  BY DEF RegistryInit, ReaderKept, ReadSoFar
<1>3. Announced = {}
  BY DEF RegistryInit, Announced, Range
<1>4. CallsKept
  BY <1>3 DEF RegistryInit, CallsKept, CallKept, NoRowCall
<1> QED
  BY <1>1, <1>2, <1>4 DEF RegistryInv

LEMMA RegistryMove == RegistryInv /\ [RegistryNext]_registryVars => RegistryInv'
<1> SUFFICES ASSUME RegistryInv, [RegistryNext]_registryVars PROVE RegistryInv'
  OBVIOUS
<1>1. ASSUME NEW d \in Files, CreateRow(d) PROVE RegistryInv'
  BY <1>1, CreateRowKeeps
<1>2. ASSUME NEW d \in Files, IndexRow(d) PROVE RegistryInv'
  BY <1>2, IndexRowKeeps
<1>3. ASSUME NEW tenant \in Range(FileOwner), NEW status \in {"any", "completed"}, NEW size \in PageSizes,
             StartReading(tenant, status, size)
      PROVE  RegistryInv'
  BY <1>3, StartReadingKeeps
<1>4. CASE CountPage
  BY <1>4, CountPageKeeps
<1>5. CASE ListPage
  BY <1>5, ListPageKeeps
<1>6. ASSUME NEW c \in RowCallers, NEW request \in DeleteRequests, AskDelete(c, request) PROVE RegistryInv'
  BY <1>6, AskDeleteKeeps
<1>7. ASSUME NEW c \in RowCallers, FindRow(c) PROVE RegistryInv'
  BY <1>7, FindRowKeeps
<1>8. ASSUME NEW c \in RowCallers, DeleteEverywhere(c) PROVE RegistryInv'
  BY <1>8, DeleteEverywhereKeeps
<1>9. ASSUME NEW c \in RowCallers, DeleteFromDatabase(c) PROVE RegistryInv'
  BY <1>9, DeleteFromDatabaseKeeps
<1>10. ASSUME NEW c \in RowCallers, AnnounceDeleted(c) PROVE RegistryInv'
  BY <1>10, AnnounceDeletedKeeps
<1>11. CASE RefreshIndex \/ UNCHANGED registryVars
  <2>1. RegistryTypes /\ ReaderKept /\ CallsKept
    BY DEF RegistryInv
  <2>2. UNCHANGED <<rows, chunkRows, schema, reader, calls, published>> /\ Held' = Held
    BY <1>11, HeldStays DEF registryVars, RefreshIndex, Held
  <2>3. RegistryTypes'
    BY <2>1, <2>2 DEF RegistryTypes
  <2>4. ReaderKept'
    BY <2>1, <2>2, ReaderLeft
  <2>5. ASSUME NEW c \in RowCallers PROVE CallKept(c)'
    <3>1. CallKept(c) /\ Announced' = Announced
      BY <2>1, <2>2 DEF CallsKept, Announced
    <3> QED
      BY <2>2, <3>1, CallLeft
  <2> QED
    BY <2>3, <2>4, <2>5 DEF RegistryInv, CallsKept
<1> QED
  BY <1>1, <1>2, <1>3, <1>4, <1>5, <1>6, <1>7, <1>8, <1>9, <1>10, <1>11 DEF RegistryNext

\* Whatever interleaving of the document routes and the worker: a reader whom
\* nothing disturbed has the first pages of the one order there is, each
\* deletion has answered the ids before the one it is at, announced no others
\* than it deleted, and, if no store failed it, left nothing of them but the
\* postings that no refresh had shown yet (api/routes/documents.rs).
THEOREM RegistryInductive == RegistrySpec => []RegistryInv
<1>1. RegistryInit => RegistryInv
  BY RegistryStart
<1>2. RegistryInv /\ [RegistryNext]_registryVars => RegistryInv'
  BY RegistryMove
<1> QED
  BY <1>1, <1>2, PTL DEF RegistrySpec

LEMMA PagesCovered == RegistryInv => PagesCoverAll
<1> SUFFICES ASSUME RegistryInv, reader.state = "done", reader.orderly,
                    BornApart(RowsOf(reader.tenant, reader.status))
             PROVE  /\ Range(reader.seen) = RowsOf(reader.tenant, reader.status)
                    /\ Len(reader.seen) = Cardinality(RowsOf(reader.tenant, reader.status))
  BY DEF PagesCoverAll, BornApart
<1>1. reader # NoReader
  BY DEF NoReader
<1> QED
  BY <1>1 DEF RegistryInv, ReaderKept, ReadSoFar

LEMMA BatchesAccounted == RegistryInv => BatchAccountsForAll
<1> SUFFICES ASSUME RegistryInv, NEW c \in RowCallers, calls[c].state = "done"
             PROVE  /\ Len(calls[c].results) = Len(calls[c].ids)
                    /\ \A i \in DOMAIN calls[c].ids :
                        calls[c].results[i] = "deleted" => calls[c].ids[i] \in Announced
                    /\ RowCallers = {c} => \A d \in Announced :
                        \E i \in DOMAIN calls[c].ids : calls[c].ids[i] = d /\ calls[c].results[i] = "deleted"
  BY DEF BatchAccountsForAll
<1>1. RegistryTypes /\ CallKept(c)
  BY DEF RegistryInv, CallsKept
<1>2. calls[c] \in RequestStates
  BY <1>1, CallTypes DEF NoRowCall
<1>3. Len(calls[c].results) = Len(calls[c].ids) /\ DeletedIds(calls[c]) \subseteq Announced
      /\ (RowCallers = {c} => Announced = DeletedIds(calls[c]))
  BY <1>1 DEF CallKept
<1>4. DOMAIN calls[c].results = DOMAIN calls[c].ids
  <2>1. calls[c].results \in Seq(Outcomes) /\ calls[c].ids \in Seq(Files)
    BY <1>2 DEF RequestStates
  <2> QED
    BY <1>3, <2>1
<1> QED
  BY <1>3, <1>4 DEF DeletedIds

LEMMA DeletionsFinal == RegistryInv => DeletedIsGone
<1> SUFFICES ASSUME RegistryInv, NEW c \in RowCallers, calls[c].state = "done", calls[c].clean,
                    NEW i \in DOMAIN calls[c].ids, calls[c].results[i] = "deleted"
             PROVE  /\ calls[c].ids[i] \notin DOMAIN rows \cup chunkRows
                    /\ calls[c].hard /\ schema.coordinator => calls[c].ids[i] \notin Held
  BY DEF DeletedIsGone
<1>1. RegistryTypes /\ CallKept(c)
  BY DEF RegistryInv, CallsKept
<1>2. calls[c] \in RequestStates /\ calls[c] # NoRowCall
  BY <1>1, CallTypes DEF NoRowCall
<1>3. DOMAIN calls[c].results = DOMAIN calls[c].ids
  <2>1. calls[c].results \in Seq(Outcomes) /\ calls[c].ids \in Seq(Files)
    BY <1>2 DEF RequestStates
  <2>2. Len(calls[c].results) = Len(calls[c].ids)
    BY <1>1 DEF CallKept
  <2> QED
    BY <2>1, <2>2
<1>4. calls[c].ids[i] \in DeletedIds(calls[c])
  BY <1>3 DEF DeletedIds
<1> QED
  BY <1>1, <1>2, <1>4 DEF CallKept

\* A list counts as many of a part of its set as there are in that part.
LEMMA CountedParts ==
    ASSUME NEW S, IsFiniteSet(S), NEW t \in SetToSeqs(S), NEW T \in SUBSET S
    PROVE  Cardinality({i \in DOMAIN t : t[i] \in T}) = Cardinality(T)
<1> DEFINE I == {i \in DOMAIN t : t[i] \in T}
           n == Cardinality(S)
           g == [i \in I |-> t[i]]
<1>1. /\ n \in Nat /\ t \in [1 .. n -> S]
      /\ \A i, j \in 1 .. n : i # j => t[i] # t[j]
      /\ \A c \in S : \E i \in 1 .. n : t[i] = c
  BY ListsAll
<1> HIDE DEF n
<1>2. DOMAIN t = 1 .. n
  BY <1>1
<1>3. g \in [I -> T] /\ (\A i, j \in I : g[i] = g[j] => i = j) /\ \A c \in T : \E i \in I : g[i] = c
  BY <1>1, <1>2
<1> HIDE DEF I, g
<1>4. g \in Bijection(I, T)
  BY <1>3 DEF Bijection, Injection, Surjection, IsInjective
<1>5. ExistsBijection(I, T)
  BY <1>4 DEF ExistsBijection
<1>6. IsFiniteSet(I)
  <2>1. I \subseteq 1 .. n
    BY <1>2 DEF I
  <2>2. IsFiniteSet(1 .. n)
    BY <1>1, FS_Interval
  <2> QED
    BY <2>1, <2>2, FS_Subset
<1>7. Cardinality(T) = Cardinality(I)
  BY <1>5, <1>6, FS_Bijection
<1> QED
  BY <1>7 DEF I

LEMMA IndexStates ==
    /\ IndexStatus("completed") = "ok" /\ IndexStatus("failed") = "error"
    /\ IndexStatus("pending") = "pending"
BY DEF IndexStatus

\* Three parts that have nothing in common, counted.
LEMMA ThreeParts ==
    ASSUME NEW A, IsFiniteSet(A), NEW B, IsFiniteSet(B), NEW C, IsFiniteSet(C),
           A \cap B = {}, A \cap C = {}, B \cap C = {}
    PROVE  Cardinality(A) + Cardinality(B) + Cardinality(C) = Cardinality(A \cup B \cup C)
<1> DEFINE AB == A \cup B
<1>1. AB \cap C = {} /\ AB \cup C = A \cup B \cup C
  OBVIOUS
<1>2. IsFiniteSet(AB) /\ Cardinality(AB) = Cardinality(A) + Cardinality(B) - Cardinality({})
  BY FS_Union
<1> HIDE DEF AB
<1>3. Cardinality(AB \cup C) = Cardinality(AB) + Cardinality(C) - Cardinality({})
  BY <1>1, <1>2, FS_Union
<1>4. Cardinality({}) = 0
  BY FS_EmptySet
<1>5. Cardinality(A) \in Nat /\ Cardinality(B) \in Nat /\ Cardinality(C) \in Nat
  BY FS_CardinalityType
<1>6. Cardinality(AB) = Cardinality(A) + Cardinality(B)
  BY <1>2, <1>4, <1>5
<1>7. Cardinality(AB \cup C) = Cardinality(A) + Cardinality(B) + Cardinality(C)
  BY <1>3, <1>4, <1>5, <1>6
<1> QED
  BY <1>1, <1>7

LEMMA StatusReported == RegistryInv => StatusReportTrue
<1> SUFFICES ASSUME RegistryInv, NEW tenant \in Range(FileOwner),
                    NEW report \in SyncStatus(tenant, Cardinality(Files), 0, "error")
             PROVE  /\ report.documents = {d \in RowsOf(tenant, "any") : rows[d].status = "failed"}
                    /\ report.summary["ok"] = Cardinality(RowsOf(tenant, "completed"))
                    /\ report.summary["ok"] + report.summary["error"] + report.summary["pending"] =
                           report.total
  BY DEF StatusReportTrue
<1>1. RegistryTypes
  BY DEF RegistryInv
<1> DEFINE of == RowsOf(tenant, "any")
           with(status) == {d \in of : rows[d].status = status}
           limit == Cardinality(Files)
<1>2. /\ IsFiniteSet(of) /\ of \subseteq DOMAIN rows
      /\ Cardinality(of) \in Nat /\ Cardinality(of) <= limit /\ limit \in Nat
  BY <1>1, RowsFinite
<1>3. PICK t \in Orders(of) :
        LET s == Window(t, limit, 0)
            statuses == [i \in DOMAIN s |-> IndexStatus(rows[s[i]].status)]
        IN report = [summary |-> [x \in {"ok", "pending", "error", "stale"} |->
                                    Cardinality({i \in DOMAIN s : statuses[i] = x})],
                     documents |-> {s[i] : i \in {j \in DOMAIN s : "error" \in {"all", statuses[j]}}},
                     total |-> CountFiltered(tenant, "any")]
  BY DEF SyncStatus, ListFiltered
<1>4. /\ t \in SetToSeqs(of) /\ t \in Seq(of) /\ Len(t) = Cardinality(of) /\ Range(t) = of
      /\ t \in [1 .. Cardinality(of) -> of]
  BY <1>1, <1>2, OrderIs, ListsAll
<1>5. Window(t, limit, 0) = t
  <2>1. Len(t) \in Nat /\ 0 + limit = limit /\ 0 + 1 = 1
    BY <1>2, <1>4
  <2>2. Min({limit, Len(t)}) = Len(t)
    BY <1>2, <1>4, <2>1, OfTwo
  <2>3. Window(t, limit, 0) = SubSeq(t, 1, Len(t))
    BY <2>1, <2>2 DEF Window
  <2>4. SubSeq(t, 1, Len(t)) = t
    BY <1>4
  <2> QED
    BY <2>3, <2>4
<1> DEFINE which(x) == {i \in DOMAIN t : IndexStatus(rows[t[i]].status) = x}
<1>6. /\ report.summary["ok"] = Cardinality(which("ok"))
      /\ report.summary["error"] = Cardinality(which("error"))
      /\ report.summary["pending"] = Cardinality(which("pending"))
      /\ report.total = Cardinality(of)
      /\ report.documents = {t[i] : i \in which("error")}
  <2> DEFINE statuses == [i \in DOMAIN t |-> IndexStatus(rows[t[i]].status)]
  <2>1. report = [summary |-> [x \in {"ok", "pending", "error", "stale"} |->
                                 Cardinality({i \in DOMAIN t : statuses[i] = x})],
                  documents |-> {t[i] : i \in {j \in DOMAIN t : "error" \in {"all", statuses[j]}}},
                  total |-> CountFiltered(tenant, "any")]
    BY <1>3, <1>5
  <2>2. \A x : {i \in DOMAIN t : statuses[i] = x} = which(x)
    OBVIOUS
  <2>3. {j \in DOMAIN t : "error" \in {"all", statuses[j]}} = which("error")
    OBVIOUS
  <2> HIDE DEF which, statuses
  <2> QED
    BY <2>1, <2>2, <2>3 DEF CountFiltered
<1>7. \A d \in of : rows[d].status \in {"pending", "completed", "failed"}
  BY <1>1, <1>2 DEF RegistryTypes, RowsAre
<1>8. \A i \in DOMAIN t : t[i] \in of
  BY <1>4
<1>9. /\ which("ok") = {i \in DOMAIN t : t[i] \in with("completed")}
      /\ which("error") = {i \in DOMAIN t : t[i] \in with("failed")}
      /\ which("pending") = {i \in DOMAIN t : t[i] \in with("pending")}
  <2>1. \A i \in DOMAIN t :
          /\ IndexStatus(rows[t[i]].status) = "ok" <=> rows[t[i]].status = "completed"
          /\ IndexStatus(rows[t[i]].status) = "error" <=> rows[t[i]].status = "failed"
          /\ IndexStatus(rows[t[i]].status) = "pending" <=> rows[t[i]].status = "pending"
    BY <1>7, <1>8, IndexStates
  <2> QED
    BY <1>8, <2>1
<1>10. report.documents = with("failed")
  <2>1. \A d \in of : \E i \in DOMAIN t : t[i] = d
    BY <1>4 DEF Range
  <2> QED
    BY <1>6, <1>9, <2>1
<1>11. with("completed") = RowsOf(tenant, "completed")
  BY DEF RowsOf
<1>12. /\ with("completed") \in SUBSET of /\ with("failed") \in SUBSET of /\ with("pending") \in SUBSET of
       /\ with("completed") \cap with("failed") = {} /\ with("completed") \cap with("pending") = {}
       /\ with("failed") \cap with("pending") = {}
       /\ with("completed") \cup with("failed") \cup with("pending") = of
  BY <1>7
<1> HIDE DEF which, with, of
<1>13. ASSUME NEW T \in SUBSET of
       PROVE  Cardinality({i \in DOMAIN t : t[i] \in T}) = Cardinality(T) /\ IsFiniteSet(T)
  BY <1>2, <1>4, CountedParts, FS_Subset
<1>14. /\ Cardinality(which("ok")) = Cardinality(with("completed"))
       /\ Cardinality(which("error")) = Cardinality(with("failed"))
       /\ Cardinality(which("pending")) = Cardinality(with("pending"))
  BY <1>9, <1>12, <1>13
<1>15. Cardinality(with("completed")) + Cardinality(with("failed")) + Cardinality(with("pending")) =
           Cardinality(of)
  <2> DEFINE A == with("completed")
             B == with("failed")
             C == with("pending")
  <2>1. /\ IsFiniteSet(A) /\ IsFiniteSet(B) /\ IsFiniteSet(C)
        /\ A \cap B = {} /\ A \cap C = {} /\ B \cap C = {}
    BY <1>12, <1>13
  <2>2. A \cup B \cup C = of
    BY <1>12
  <2> HIDE DEF A, B, C
  <2>3. Cardinality(A) + Cardinality(B) + Cardinality(C) = Cardinality(A \cup B \cup C)
    BY <2>1, ThreeParts
  <2> QED
    BY <2>2, <2>3 DEF A, B, C
<1> QED
  BY <1>6, <1>10, <1>11, <1>14, <1>15 DEF with, of

\* Pages cover every document once, the sync status counts them as they are, a
\* batch accounts for all its ids, and of what was reported as deleted without a
\* failure of a store nothing is left, but for postings that delete_by_query
\* missed because no refresh had shown them; whatever interleaving of clients,
\* worker and refreshes (api/routes/documents.rs over document_repository.rs,
\* chunk_repository.rs, delete_from_opensearch).
THEOREM RegistryIsTruthful == RegistrySpec => []RegistryTruthful
<1>1. RegistryInv => RegistryTruthful
  BY PagesCovered, StatusReported, BatchesAccounted, DeletionsFinal DEF RegistryTruthful
<1> QED
  BY <1>1, RegistryInductive, PTL
=============================================================================
