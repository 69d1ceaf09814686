-------------------------- MODULE IndexCoordinator --------------------------
(***************************************************************************)
(* One document in the three stores that the index coordinator of          *)
(* rag-ingestion keeps in step (indexing/coordinator.rs): the vectors in   *)
(* Qdrant, the keyword index in OpenSearch, the row and the chunks in      *)
(* PostgreSQL.  The operations are the attempts of ingestion, reindex and  *)
(* reembed jobs (worker/handler.rs) and the deletions of the API           *)
(* (api/routes/documents.rs).  One action is one call to a store; the      *)
(* calls that the code joins run in any order.  A store holds sets of      *)
(* chunks, and a set of chunks is known by the attempt that cut it.        *)
(***************************************************************************)
EXTENDS Naturals, FiniteSets

CONSTANTS
    Ops,        \* attempts at an operation on the document
    NoOp,       \* none of them
    Kind,       \* "ingest", "reindex", "reembed", "delete" or "soft"
    OnDelete,   \* the foreign key of the chunks: "restrict" or "cascade"
    AtOnce,     \* bound on the operations in progress at once
    MaxOps,     \* bound on the operations of a behaviour
    MaxFaults   \* bound on the failures of a behaviour

ASSUME ConstantsAssumption ==
    /\ NoOp \notin Ops
    /\ Kind \in [Ops -> {"ingest", "reindex", "reembed", "delete", "soft"}]
    /\ \A o, p \in Ops : Kind[o] = "ingest" /\ Kind[p] = "ingest" => o = p
    /\ OnDelete \in {"restrict", "cascade"}
    /\ AtOnce \in Nat /\ MaxOps \in Nat
    /\ MaxFaults \in Nat

VARIABLES
    vec,        \* chunks in Qdrant
    kw,         \* chunks in OpenSearch, searchable
    buffer,     \* chunks in OpenSearch, indexed since the last refresh
    row,        \* source_documents.status, or "absent"
    chunks,     \* rows of the chunks table
    pc,         \* where each operation stands
    todo,       \* the store calls left in its current phase
    take,       \* the chunks it writes
    solo,       \* history: the last operation, if it ran alone and unharmed
    faults

stores == <<vec, kw, buffer, row, chunks>>
vars == <<vec, kw, buffer, row, chunks, pc, todo, take, solo, faults>>

\* delete_document and index_document join three writers; that of PostgreSQL
\* makes its calls in order.
EraseCalls == {"vec", "kw", "chunks", "row"}
WriteCalls == {"vec", "kw", "row", "chunks", "status"}

Init ==
    /\ vec = {} /\ kw = {} /\ buffer = {} /\ chunks = {}
    /\ row = "absent"
    /\ pc = [o \in Ops |-> "new"]
    /\ todo = [o \in Ops |-> {}]
    /\ take = [o \in Ops |-> {}]
    /\ solo = NoOp
    /\ faults = 0

Busy(o) == pc[o] \in {"erase", "write", "confirm"}

\* An operation starts: history records whether it is alone from here on, and
\* whether delete_by_query will see all that OpenSearch holds.
Enter(o, phase, calls, written) ==
    /\ Cardinality({p \in Ops : Busy(p)}) < AtOnce
    /\ pc' = [pc EXCEPT ![o] = phase]
    /\ todo' = [todo EXCEPT ![o] = calls]
    /\ take' = [take EXCEPT ![o] = written]
    /\ solo' = IF buffer = {} /\ \A p \in Ops : ~Busy(p) THEN o ELSE NoOp
    /\ UNCHANGED <<stores, faults>>

-----------------------------------------------------------------------------
(* Starting                                                                *)

New(o) == pc[o] = "new" /\ Cardinality({p \in Ops : pc[p] # "new"}) < MaxOps

\* An ingestion job indexes a document under a new id.
Ingest(o) ==
    /\ Kind[o] = "ingest" /\ New(o)
    /\ Enter(o, "write", WriteCalls, {o})

\* The reindex route: the document exists, its status is reset, a job enqueued.
RequestReindex(o) ==
    /\ Kind[o] = "reindex" /\ New(o)
    /\ row # "absent"
    /\ row' = "pending"
    /\ pc' = [pc EXCEPT ![o] = "queued"]
    /\ solo' = NoOp
    /\ UNCHANGED <<vec, kw, buffer, chunks, todo, take, faults>>

\* The queue hands out again a reindex job that failed or was cut short.
Retry(o) ==
    /\ Kind[o] = "reindex" /\ New(o)
    /\ \E p \in Ops : Kind[p] = "reindex" /\ pc[p] = "dropped"
    /\ pc' = [pc EXCEPT ![o] = "queued"]
    /\ UNCHANGED <<stores, todo, take, solo, faults>>

\* Mutant of Reindex: the new chunks are written without deleting the old.
ReindexOnTop(o) ==
    /\ pc[o] = "queued"
    /\ Enter(o, "write", WriteCalls, {o})

\* The job has parsed its source and cut new chunks.
Reindex(o) ==
    /\ pc[o] = "queued"
    /\ Enter(o, "erase", EraseCalls, {o})

\* A reembed job keeps the chunks it loads from PostgreSQL.
Reembed(o) ==
    /\ Kind[o] = "reembed" /\ New(o)
    /\ row # "absent" /\ chunks # {}
    /\ Enter(o, "erase", EraseCalls, chunks)

Delete(o) ==
    /\ Kind[o] = "delete" /\ New(o)
    /\ row # "absent"
    /\ Enter(o, "erase", EraseCalls, {})

\* Whether the database lets the row of the document go.
RowFree == chunks = {} \/ OnDelete = "cascade"

\* hard_delete=false: only the row is deleted, if the foreign key lets it.
SoftDelete(o) ==
    /\ Kind[o] = "soft" /\ New(o)
    /\ row # "absent"
    /\ pc' = [pc EXCEPT ![o] = "done"]
    /\ solo' = NoOp
    /\ \/ RowFree /\ row' = "absent" /\ chunks' = {}
       \/ ~RowFree /\ UNCHANGED <<row, chunks>>
    /\ UNCHANGED <<vec, kw, buffer, todo, take, faults>>

-----------------------------------------------------------------------------
(* One call to a store                                                     *)

\* The call c of o succeeds.
Succeed(o, c) ==
    /\ todo' = [todo EXCEPT ![o] = @ \ {c}]
    /\ solo' = IF solo = o THEN o ELSE NoOp
    /\ UNCHANGED <<pc, take, faults>>

\* A call of o fails, with or without its effect; o will not make the calls
\* skipped but those in instead.
Fail(o, skipped, instead) ==
    /\ faults < MaxFaults
    /\ faults' = faults + 1
    /\ todo' = [todo EXCEPT ![o] = (@ \ skipped) \cup instead]
    /\ solo' = NoOp
    /\ UNCHANGED <<pc, take>>

EraseVec(o) ==
    /\ pc[o] = "erase" /\ "vec" \in todo[o]
    /\ \/ vec' = {} /\ Succeed(o, "vec")
       \/ vec' \in {{}, vec} /\ Fail(o, {"vec"}, {})
    /\ UNCHANGED <<kw, buffer, row, chunks>>

\* delete_by_query does not see what is not refreshed yet.
EraseKw(o) ==
    /\ pc[o] = "erase" /\ "kw" \in todo[o]
    /\ \/ kw' = {} /\ Succeed(o, "kw")
       \/ kw' \in {{}, kw} /\ Fail(o, {"kw"}, {})
    /\ UNCHANGED <<vec, buffer, row, chunks>>

EraseChunks(o) ==
    /\ pc[o] = "erase" /\ "chunks" \in todo[o]
    /\ \/ chunks' = {} /\ Succeed(o, "chunks")
       \/ chunks' \in {{}, chunks} /\ Fail(o, {"chunks", "row"}, {})
    /\ UNCHANGED <<vec, kw, buffer, row>>

\* Chunks written meanwhile may hold the row.
EraseRow(o) ==
    /\ pc[o] = "erase" /\ "row" \in todo[o] /\ "chunks" \notin todo[o]
    /\ \/ /\ RowFree
          /\ row' = "absent" /\ chunks' = {}
          /\ Succeed(o, "row") \/ Fail(o, {"row"}, {})
       \/ /\ UNCHANGED <<row, chunks>>
          /\ (~RowFree /\ Succeed(o, "row")) \/ Fail(o, {"row"}, {})
    /\ UNCHANGED <<vec, kw, buffer>>

WriteVec(o) ==
    /\ pc[o] = "write" /\ "vec" \in todo[o]
    /\ \/ vec' = vec \cup take[o] /\ Succeed(o, "vec")
       \/ vec' \in {vec, vec \cup take[o]} /\ Fail(o, {"vec"}, {})
    /\ UNCHANGED <<kw, buffer, row, chunks>>

WriteKw(o) ==
    /\ pc[o] = "write" /\ "kw" \in todo[o]
    /\ \/ buffer' = buffer \cup take[o] /\ Succeed(o, "kw")
       \/ buffer' \in {buffer, buffer \cup take[o]} /\ Fail(o, {"kw"}, {})
    /\ UNCHANGED <<vec, kw, row, chunks>>

\* o gives up PostgreSQL because the row or a chunk exists, or the row does not.
Conflict(o, skipped, instead) ==
    /\ todo' = [todo EXCEPT ![o] = (@ \ skipped) \cup instead]
    /\ solo' = NoOp
    /\ UNCHANGED <<row, chunks, pc, take, faults>>

InsertRow(o) ==
    /\ pc[o] = "write" /\ "row" \in todo[o]
    /\ \/ /\ row = "absent" /\ row' = "pending"
          /\ Succeed(o, "row") \/ Fail(o, {"row", "chunks", "status"}, {})
          /\ UNCHANGED chunks
       \/ /\ Fail(o, {"row", "chunks", "status"}, {})
          /\ UNCHANGED <<row, chunks>>
       \/ /\ row # "absent"
          /\ Conflict(o, {"row", "chunks", "status"}, {})
    /\ UNCHANGED <<vec, kw, buffer>>

\* create_many is a transaction; the row must exist and no chunk of the same id.
InsertChunks(o) ==
    /\ pc[o] = "write" /\ "chunks" \in todo[o] /\ "row" \notin todo[o]
    /\ \/ /\ row # "absent" /\ chunks \cap take[o] = {}
          /\ chunks' = chunks \cup take[o]
          /\ Succeed(o, "chunks") \/ Fail(o, {"chunks", "status"}, {"mark"})
          /\ UNCHANGED row
       \/ /\ Fail(o, {"chunks", "status"}, {"mark"})
          /\ UNCHANGED <<row, chunks>>
       \/ /\ row = "absent" \/ chunks \cap take[o] # {}
          /\ Conflict(o, {"chunks", "status"}, {"mark"})
    /\ UNCHANGED <<vec, kw, buffer>>

\* UPDATE source_documents SET status: no row, no effect.
Updated(status) == IF row = "absent" THEN row ELSE status

\* update_chunk_count and update_status("completed"), whose errors are ignored.
SetCompleted(o) ==
    /\ \/ pc[o] = "write" /\ "chunks" \notin todo[o]
       \/ pc[o] = "confirm"
    /\ "status" \in todo[o]
    /\ \/ row' = Updated("completed") /\ Succeed(o, "status")
       \/ row' \in {row, Updated("completed")} /\ Fail(o, {"status"}, {})
    /\ UNCHANGED <<vec, kw, buffer, chunks>>

\* The chunks could not be inserted: update_status("failed").
MarkFailed(o) ==
    /\ "mark" \in todo[o]
    /\ \/ row' = Updated("failed") /\ Succeed(o, "mark")
       \/ row' \in {row, Updated("failed")} /\ Fail(o, {"mark"}, {})
    /\ UNCHANGED <<vec, kw, buffer, chunks>>

\* The joined calls have returned, whatever they returned: reindex_document
\* goes on from deleting to writing; a reembed job then confirms the document.
Proceed(o) ==
    /\ Busy(o) /\ todo[o] = {}
    /\ \/ /\ pc[o] = "erase" /\ Kind[o] # "delete"
          /\ pc' = [pc EXCEPT ![o] = "write"]
          /\ todo' = [todo EXCEPT ![o] = WriteCalls]
       \/ /\ pc[o] = "write" /\ Kind[o] = "reembed"
          /\ pc' = [pc EXCEPT ![o] = "confirm"]
          /\ todo' = [todo EXCEPT ![o] = {"status"}]
       \/ /\ \/ pc[o] = "erase" /\ Kind[o] = "delete"
             \/ pc[o] = "write" /\ Kind[o] # "reembed"
             \/ pc[o] = "confirm"
          /\ pc' = [pc EXCEPT ![o] = "done"]
          /\ UNCHANGED todo
    /\ UNCHANGED <<stores, take, solo, faults>>

-----------------------------------------------------------------------------
(* Failures                                                                *)

\* The handler of a reindex job returns an error before it indexes.
HandlerFails(o) ==
    /\ pc[o] = "queued"
    /\ faults < MaxFaults
    /\ faults' = faults + 1
    /\ row' = Updated("failed")
    /\ pc' = [pc EXCEPT ![o] = "dropped"]
    /\ solo' = NoOp
    /\ UNCHANGED <<vec, kw, buffer, chunks, todo, take>>

\* A crash or a timeout drops the operation where it stands.
Drop(o) ==
    /\ Busy(o) \/ pc[o] = "queued"
    /\ faults < MaxFaults
    /\ faults' = faults + 1
    /\ pc' = [pc EXCEPT ![o] = "dropped"]
    /\ todo' = [todo EXCEPT ![o] = {}]
    /\ solo' = NoOp
    /\ UNCHANGED <<stores, take>>

\* OpenSearch makes searchable what it has indexed.
Refresh ==
    /\ buffer # {}
    /\ kw' = kw \cup buffer
    /\ buffer' = {}
    /\ UNCHANGED <<vec, row, chunks, pc, todo, take, solo, faults>>

-----------------------------------------------------------------------------
Start(o) ==
    \/ Ingest(o) \/ RequestReindex(o) \/ Retry(o) \/ Reindex(o)
    \/ Reembed(o) \/ Delete(o) \/ SoftDelete(o)

delete_document(o) == EraseVec(o) \/ EraseKw(o) \/ EraseChunks(o) \/ EraseRow(o)

index_document(o) ==
    \/ WriteVec(o) \/ WriteKw(o) \/ InsertRow(o) \/ InsertChunks(o)
    \/ SetCompleted(o) \/ MarkFailed(o)

Next ==
    \/ \E o \in Ops :
          \/ Start(o) \/ delete_document(o) \/ index_document(o)
          \/ Proceed(o) \/ HandlerFails(o) \/ Drop(o)
    \/ Refresh

Spec == Init /\ [][Next]_vars

-----------------------------------------------------------------------------
(* Properties                                                              *)

\* Every variable keeps its type.
TypeOK ==
    /\ vec \subseteq Ops /\ kw \subseteq Ops /\ buffer \subseteq Ops
    /\ chunks \subseteq Ops
    /\ row \in {"absent", "pending", "failed", "completed"}
    /\ pc \in [Ops -> {"new", "queued", "erase", "write", "confirm", "done", "dropped"}]
    /\ todo \in [Ops -> SUBSET (EraseCalls \cup WriteCalls \cup {"mark"})]
    /\ take \in [Ops -> SUBSET Ops]
    /\ solo \in Ops \cup {NoOp}
    /\ faults \in 0..MaxFaults

\* The three stores hold exactly the chunks S, and the document is completed.
Synced(S) ==
    /\ vec = S /\ kw \cup buffer = S /\ chunks = S
    /\ row = "completed"

\* No store knows the document.
Gone ==
    /\ vec = {} /\ kw \cup buffer = {} /\ chunks = {}
    /\ row = "absent"

\* One undisturbed operation repairs whatever failures, crashes and overlaps
\* of earlier ones left behind, although the coordinator ignores the results
\* of its deletions: after a reindex or reembed the stores agree on its
\* chunks, after a deletion none of them knows the document.
Repaired ==
    \A o \in Ops : solo = o /\ pc[o] = "done" =>
        IF Kind[o] = "delete" THEN Gone ELSE Synced(take[o])

\* "A document with status "completed" is considered synced to all stores"
\* (documents.rs:195-196): at rest, the stores of a completed document agree.
CompletedMeansSynced ==
    (\A o \in Ops : ~Busy(o)) /\ row = "completed"
        => vec = chunks /\ kw \cup buffer = chunks

-----------------------------------------------------------------------------
(* The inductive invariant: what an undisturbed operation has achieved.    *)

\* The phase and the calls left go together.
PhaseOK ==
    \A o \in Ops :
        /\ pc[o] \in {"new", "queued", "done", "dropped"} => todo[o] = {}
        /\ pc[o] = "queued" => Kind[o] = "reindex"
        /\ pc[o] = "erase" => /\ todo[o] \subseteq EraseCalls
                              /\ "chunks" \in todo[o] => "row" \in todo[o]
                              /\ Kind[o] \in {"reindex", "reembed", "delete"}
        /\ pc[o] = "write" => Kind[o] \in {"ingest", "reindex", "reembed"}
        /\ pc[o] = "confirm" => Kind[o] = "reembed" /\ todo[o] \subseteq {"status"}

\* Nothing is known of the document before its ingestion.
FreshOK ==
    (\A o \in Ops : Kind[o] = "ingest" => pc[o] = "new")
        => Gone /\ \A o \in Ops : pc[o] = "new"

\* What the undisturbed operation o has deleted so far.
Erased(o) ==
    /\ buffer = {}
    /\ "vec" \in todo[o] \/ vec = {}
    /\ "kw" \in todo[o] \/ kw = {}
    /\ "chunks" \in todo[o] \/ chunks = {}
    /\ "row" \in todo[o] \/ row = "absent"

\* What it has written so far.
Written(o) ==
    /\ todo[o] \subseteq WriteCalls
    /\ vec = IF "vec" \in todo[o] THEN {} ELSE take[o]
    /\ kw \cup buffer = IF "kw" \in todo[o] THEN {} ELSE take[o]
    /\ chunks = IF "chunks" \in todo[o] THEN {} ELSE take[o]
    /\ "row" \in todo[o] => "chunks" \in todo[o]
    /\ "chunks" \in todo[o] => "status" \in todo[o]
    /\ row = IF "row" \in todo[o] THEN "absent"
             ELSE IF "status" \in todo[o] THEN "pending" ELSE "completed"

SoloOK ==
    \A o \in Ops : solo = o =>
        /\ pc[o] \in {"erase", "write", "confirm", "done"}
        /\ \A p \in Ops \ {o} : ~Busy(p)
        /\ pc[o] = "erase" => Erased(o)
        /\ pc[o] = "write" => Written(o)
        /\ pc[o] = "confirm" => Synced(take[o])
        /\ pc[o] = "done" => IF Kind[o] = "delete" THEN Gone ELSE Synced(take[o])

Inv == TypeOK /\ PhaseOK /\ FreshOK /\ SoloOK
=============================================================================
