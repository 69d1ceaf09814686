-------------------------- MODULE DocumentRegistry --------------------------
(***************************************************************************)
(* The document routes of the ingestion API (api/routes/documents.rs) over *)
(* the tables source_documents and chunks (document_repository.rs,         *)
(* chunk_repository.rs): listing in pages, the sync status, deletion of    *)
(* one document and of a batch with the events they publish, while the     *)
(* worker creates documents and sets their status.                         *)
(*                                                                         *)
(* Every query is a step of its own: a page is a count and then a list,    *)
(* a deletion is a lookup, the calls to the stores, and the event.  The    *)
(* keyword index has the mappings of create_documents_index and refreshes  *)
(* by itself: what it has not shown yet, a deletion by query does not see. *)
(***************************************************************************)
EXTENDS Integers, SequencesExt, FiniteSetsExt, Functions

CONSTANTS
    FileOwner,      \* bound: the documents, and the tenant of each
    DeleteRequests, \* bound: [tenant, hard, batch, ids] of the delete routes
    MaxRowsAtDelete,\* bound: rows when a deletion is asked for
    MaxLost,        \* bound on the rows that a store refused
    PageSizes,      \* bound: page_size as asked
    RowCallers,     \* clients of the two delete routes
    ChunkCounts,    \* bound: chunks of a document that create_many inserts
    ColumnsBound,   \* columns bound for each row of chunks
    InsertBatch,    \* BATCH_SIZE of create_many
    MaxParams       \* bind parameters of one statement of PostgreSQL

ASSUME RegistryAssumption ==
    /\ IsFiniteSet(DOMAIN FileOwner) /\ PageSizes \subseteq Int /\ ChunkCounts \subseteq Nat
    /\ MaxLost \in Nat /\ ColumnsBound \in Nat /\ InsertBatch \in Nat /\ MaxParams \in Nat
    /\ \A request \in DeleteRequests :
        /\ request.hard \in BOOLEAN /\ request.batch \in BOOLEAN
        /\ request.ids \in Seq(DOMAIN FileOwner)

VARIABLES
    rows,           \* source_documents: [id -> [tenant, status, refused, born]],
                    \* refused: PostgreSQL did not take the chunks
    chunkRows,      \* ids with rows in chunks
    inQdrant,       \* ids with vectors, if there is a coordinator and its stores
    inIndex,        \* ids with postings in the keyword index
    recent,         \* those of them that no refresh has shown yet
    overlooked,     \* history: ids that a deletion by query missed for that reason
    schema,         \* [coordinator, cascade : BOOLEAN]: how it is set up; chosen
                    \* when a deletion is asked for, before which it does not matter
    created,        \* bound: the ids that had a row; each gets one once
    reader,         \* a client that reads all pages
    calls,          \* [caller -> the request it is serving]
    published       \* the deletion events, in order: of each the ids it names

heldVars == <<inQdrant, inIndex, recent, overlooked>>
registryVars == <<rows, chunkRows, heldVars, schema, created, reader, calls, published>>

Files == DOMAIN FileOwner

----------------------------------------------------------------------------
(* Queries.                                                                *)

Clamp(x, low, high) == Max({low, Min({x, high})})

\* The filters of a listing: a status, or "any".
RowsOf(tenant, status) ==
    {d \in DOMAIN rows : rows[d].tenant = tenant /\ status \in {"any", rows[d].status}}

\* count_filtered.
CountFiltered(tenant, status) == Cardinality(RowsOf(tenant, status))

\* list_filtered: ORDER BY created_at DESC leaves the order of equals open.
Orders(S) == {s \in SetToSeqs(S) : \A i, j \in DOMAIN s : i < j => rows[s[i]].born >= rows[s[j]].born}
Window(s, limit, offset) == SubSeq(s, offset + 1, Min({offset + limit, Len(s)}))
ListFiltered(tenant, status, limit, offset) ==
    {Window(s, limit, offset) : s \in Orders(RowsOf(tenant, status))}

\* list_documents: the number of pages.
Pages(total, size) == IF total = 0 THEN 0 ELSE (total + size - 1) \div size

----------------------------------------------------------------------------

NoReader == [state |-> "idle"]
NoRowCall == [state |-> "idle"]

RegistryInit ==
    /\ rows = <<>> /\ chunkRows = {} /\ created = {}
    /\ inQdrant = {} /\ inIndex = {} /\ recent = {} /\ overlooked = {}
    /\ schema = [coordinator |-> TRUE, cascade |-> TRUE]
    /\ reader = NoReader
    /\ calls = [c \in RowCallers |-> NoRowCall]
    /\ published = <<>>

\* A reader's view is undisturbed until a row changes.
DisturbReader == reader' = IF reader.state = "idle" THEN reader ELSE [reader EXCEPT !.orderly = FALSE]

\* The worker inserts a row; two rows may have the same created_at.
CreateRow(d) ==
    /\ d \notin created /\ created' = created \cup {d}
    /\ \A c \in RowCallers : calls[c] = NoRowCall     \* bound: not during deletions
    /\ \E tick \in {0, 1} :
        LET row == [tenant |-> FileOwner[d], status |-> "pending", refused |-> FALSE,
                    born |-> tick + Max({rows[e].born : e \in DOMAIN rows} \cup {0})]
        IN rows' = [e \in DOMAIN rows \cup {d} |-> IF e = d THEN row ELSE rows[e]]
    /\ DisturbReader
    /\ UNCHANGED <<chunkRows, heldVars, schema, calls, published>>

\* Bind parameters of the largest statement of create_many for n chunks.
BatchParams(n) == ColumnsBound * Min({n, InsertBatch})

\* Rows whose document one of the two stores does not hold.
Lost == {d \in DOMAIN rows : rows[d].status # "pending" /\ d \notin inQdrant \cap inIndex}

\* The worker indexes it: index_document with its three writers, each of which
\* may fail; create_many and update_status are that of the database.  How such
\* a write interleaves with a deletion is the subject of IndexCoordinator.
IndexRow(d) ==
    /\ d \in DOMAIN rows /\ rows[d].status = "pending"
    /\ \E n \in ChunkCounts, database, qdrant, opensearch \in BOOLEAN :
        LET refused == BatchParams(n) > MaxParams
            done == database /\ ~refused
        IN /\ (qdrant /\ opensearch) \/ (done /\ reader = NoReader /\ Cardinality(Lost) < MaxLost)
           /\ rows' = [rows EXCEPT ![d].status = IF done THEN "completed" ELSE "failed",
                                   ![d].refused = refused]
           /\ chunkRows' = IF done THEN chunkRows \cup {d} ELSE chunkRows
           /\ inQdrant' = IF qdrant THEN inQdrant \cup {d} ELSE inQdrant
           /\ inIndex' = IF opensearch THEN inIndex \cup {d} ELSE inIndex
           /\ recent' = IF opensearch THEN recent \cup {d} ELSE recent
    /\ DisturbReader
    /\ UNCHANGED <<overlooked, schema, created, calls, published>>

\* OpenSearch by itself.
RefreshIndex ==
    /\ recent # {} /\ recent' = {}
    /\ \E c \in RowCallers : calls[c].state = "delete"    \* bound: only where it tells
    /\ UNCHANGED <<rows, chunkRows, inQdrant, inIndex, overlooked, schema, created, reader, calls,
                   published>>

----------------------------------------------------------------------------
(* list_documents, page after page.                                        *)

StartReading(tenant, status, size) ==
    /\ reader = NoReader /\ Lost = {} /\ \A c \in RowCallers : calls[c] = NoRowCall  \* bound: not both
    /\ reader' = [state |-> "count", tenant |-> tenant, status |-> status,
                  size |-> Clamp(size, 1, 100), page |-> 1, total |-> 0, seen |-> <<>>,
                  orderly |-> TRUE]
    /\ UNCHANGED <<rows, chunkRows, heldVars, schema, created, calls, published>>

CountPage ==
    /\ reader.state = "count"
    /\ reader' = [reader EXCEPT !.state = "list",
                                !.total = CountFiltered(reader.tenant, reader.status)]
    /\ UNCHANGED <<rows, chunkRows, heldVars, schema, created, calls, published>>

ListPage ==
    /\ reader.state = "list"
    /\ \E found \in ListFiltered(reader.tenant, reader.status, reader.size,
                                 (reader.page - 1) * reader.size) :
        reader' = [reader EXCEPT
                    !.seen = @ \o found,
                    !.page = @ + 1,
                    !.state = IF reader.page < Pages(reader.total, reader.size)
                              THEN "count" ELSE "done"]
    /\ UNCHANGED <<rows, chunkRows, heldVars, schema, created, calls, published>>

----------------------------------------------------------------------------
(* get_sync_status: limit and offset are taken as they come.               *)

IndexStatus(status) ==
    CASE status = "completed" -> "ok" [] status = "failed" -> "error"
      [] status = "pending" -> "pending" [] OTHER -> "stale"
SyncStatus(tenant, limit, offset, filter) ==
    {LET statuses == [i \in DOMAIN s |-> IndexStatus(rows[s[i]].status)]
     IN [summary |-> [x \in {"ok", "pending", "error", "stale"} |->
                        Cardinality({i \in DOMAIN s : statuses[i] = x})],
         documents |-> {s[i] : i \in {j \in DOMAIN s : filter \in {"all", statuses[j]}}},
         total |-> CountFiltered(tenant, "any")]
     : s \in ListFiltered(tenant, "any", limit, offset)}

----------------------------------------------------------------------------
(* Deletions.                                                              *)

\* delete_document, and batch_delete_documents with its list of ids.
AskDelete(c, request) ==
    /\ calls[c] = NoRowCall /\ reader = NoReader
    /\ Cardinality(DOMAIN rows) <= MaxRowsAtDelete
    /\ \A d, e \in DOMAIN rows : d # e => rows[d].born # rows[e].born   \* bound
    /\ request.batch \/ Len(request.ids) = 1
    /\ calls' = [calls EXCEPT ![c] =
                   [tenant |-> request.tenant, hard |-> request.hard, batch |-> request.batch,
                    ids |-> request.ids, results |-> <<>>, clean |-> TRUE,
                    state |-> IF request.ids = <<>> THEN "publish" ELSE "find"]]
    /\ IF \A b \in RowCallers : calls[b] = NoRowCall
       THEN schema' \in [coordinator : BOOLEAN, cascade : BOOLEAN]
       ELSE UNCHANGED schema
    /\ UNCHANGED <<rows, chunkRows, heldVars, created, reader, published>>

At(c) == calls[c].ids[Len(calls[c].results) + 1]

\* Mutant: the loop ends the batch when a document is not found.
AnswerOnly(c, what, more) ==
    [calls EXCEPT ![c].results = Append(@, what), ![c].state = IF more /\ what = "deleted" THEN "find" ELSE "publish"]

\* The result of one id; then the next one, or the event.
AnswerOne(c, what, more) ==
    [calls EXCEPT ![c].results = Append(@, what), ![c].state = IF more THEN "find" ELSE "publish"]
More(c) == Len(calls[c].results) + 1 < Len(calls[c].ids)

\* find_by_id_and_tenant; a failed query is an answer too.
FindRow(c) ==
    /\ calls[c].state = "find"
    /\ \/ /\ At(c) \in RowsOf(calls[c].tenant, "any")
          /\ calls' = [calls EXCEPT ![c].state = "delete"]
       \/ /\ At(c) \notin RowsOf(calls[c].tenant, "any")
          /\ calls' = AnswerOne(c, "not found", More(c))
       \/ calls' = AnswerOne(c, "error", More(c))
    /\ UNCHANGED <<rows, chunkRows, heldVars, schema, created, reader, published>>

\* delete_by_tenant: "deleted", "not found", or an error of the foreign key.
RowOutcome(c, d, chunksLeft) ==
    IF d \notin RowsOf(calls[c].tenant, "any") THEN "not found"
    ELSE IF d \in chunksLeft /\ ~schema.cascade THEN "error" ELSE "deleted"
DropRow(d, outcome, chunksLeft) ==
    IF outcome = "deleted"
    THEN rows' = Restrict(rows, DOMAIN rows \ {d}) /\ chunkRows' = chunksLeft \ {d}
    ELSE rows' = rows /\ chunkRows' = chunksLeft

\* The coordinator: each store on its own, best effort; the answer is yes.  The
\* deletion by query succeeds, whether or not a refresh has shown the postings.
DeleteEverywhere(c) ==
    LET d == At(c) IN
    /\ calls[c].state = "delete" /\ calls[c].hard /\ schema.coordinator
    /\ \E qdrant, opensearch, database \in BOOLEAN :
        /\ inQdrant' = IF qdrant THEN inQdrant \ {d} ELSE inQdrant
        /\ inIndex' = IF opensearch /\ d \notin recent THEN inIndex \ {d} ELSE inIndex
        /\ overlooked' = IF opensearch /\ d \in recent THEN overlooked \cup {d} ELSE overlooked
        /\ IF database
           THEN DropRow(d, RowOutcome(c, d, chunkRows \ {d}), chunkRows \ {d})
           ELSE UNCHANGED <<rows, chunkRows>>
        /\ calls' = [AnswerOne(c, "deleted", More(c)) EXCEPT ![c].clean = @ /\ qdrant /\ opensearch /\ database]
    /\ DisturbReader /\ UNCHANGED <<recent, schema, created, published>>

\* Without a coordinator, or with hard_delete=false: the database alone; only
\* the hard deletion of a single document deletes its chunks first, and only
\* that one answers yes whatever delete_by_tenant returned.
DeleteFromDatabase(c) ==
    LET d == At(c)
        alone == calls[c].hard /\ ~calls[c].batch
        chunksLeft == IF alone THEN chunkRows \ {d} ELSE chunkRows
        outcome == RowOutcome(c, d, chunksLeft)
    IN /\ calls[c].state = "delete" /\ ~(calls[c].hard /\ schema.coordinator)
       /\ \/ /\ DropRow(d, outcome, chunksLeft)
             /\ calls' = AnswerOne(c, IF alone /\ outcome = "not found" THEN "deleted" ELSE outcome,
                                   More(c))
          \/ /\ UNCHANGED <<rows, chunkRows>> /\ calls' = AnswerOne(c, "error", More(c))
       /\ DisturbReader /\ UNCHANGED <<heldVars, schema, created, published>>

\* The ids of the results with deleted: true.
DeletedIds(call) == {call.ids[i] : i \in {j \in DOMAIN call.results : call.results[j] = "deleted"}}

\* publish_document_deleted, publish_batch_deleted, and the response: no event
\* without an id.
AnnounceDeleted(c) ==
    /\ calls[c].state = "publish"
    /\ published' = IF DeletedIds(calls[c]) = {} THEN published
                    ELSE Append(published, DeletedIds(calls[c]))
    /\ calls' = [calls EXCEPT ![c].state = "done"]
    /\ UNCHANGED <<rows, chunkRows, heldVars, schema, created, reader>>

----------------------------------------------------------------------------

RegistryNext ==
    \/ \E d \in Files : CreateRow(d) \/ IndexRow(d)
    \/ \E tenant \in Range(FileOwner), status \in {"any", "completed"}, size \in PageSizes :
        StartReading(tenant, status, size)
    \/ CountPage \/ ListPage \/ RefreshIndex
    \/ \E c \in RowCallers :
        \/ \E request \in DeleteRequests : AskDelete(c, request)
        \/ FindRow(c) \/ DeleteEverywhere(c) \/ DeleteFromDatabase(c) \/ AnnounceDeleted(c)

RegistrySpec == RegistryInit /\ [][RegistryNext]_registryVars

----------------------------------------------------------------------------
(* Properties.                                                             *)

\* A client that reads page after page sees every document once, as long as
\* nothing changes meanwhile and no two documents have the same created_at:
\* the count and the list agree on what they count (list_documents,
\* count_filtered, list_filtered).
PagesCoverAll ==
    LET of == RowsOf(reader.tenant, reader.status)
    IN reader.state = "done" /\ reader.orderly
            /\ (\A d, e \in of : d # e => rows[d].born # rows[e].born)
       => Range(reader.seen) = of /\ Len(reader.seen) = Cardinality(of)

\* The sync status is that of the documents: with a limit that covers them all
\* its summary counts each once, and the error filter lists the failed ones
\* (get_sync_status).
StatusReportTrue ==
    \A tenant \in Range(FileOwner) :
        \A report \in SyncStatus(tenant, Cardinality(Files), 0, "error") :
            /\ report.documents = {d \in RowsOf(tenant, "any") : rows[d].status = "failed"}
            /\ report.summary["ok"] = Cardinality(RowsOf(tenant, "completed"))
            /\ report.summary["ok"] + report.summary["error"] + report.summary["pending"] = report.total

Announced == UNION Range(published)

\* A batch answers every id it was given, in order, however the ones before it
\* ended; and the event names the documents that are reported as deleted, no
\* others (batch_delete_documents).
BatchAccountsForAll ==
    \A c \in RowCallers :
        calls[c].state = "done" =>
            /\ Len(calls[c].results) = Len(calls[c].ids)
            /\ \A i \in DOMAIN calls[c].ids :
                calls[c].results[i] = "deleted" => calls[c].ids[i] \in Announced
            /\ RowCallers = {c} => \A d \in Announced :
                \E i \in DOMAIN calls[c].ids : calls[c].ids[i] = d /\ calls[c].results[i] = "deleted"

\* What a search can still find of a document and no deletion has missed.
Held == inQdrant \cup (inIndex \ overlooked)

\* Unless a store failed, nothing is left in the database of a document that was
\* reported as deleted; after a hard deletion by the coordinator nothing is left
\* in the two stores either, but for postings that no refresh had shown when
\* they were to be deleted: those stay, and the answer is the same
\* (delete_document, batch_delete_documents, delete_from_opensearch).
DeletedIsGone ==
    \A c \in RowCallers :
        calls[c].state = "done" /\ calls[c].clean =>
            \A i \in DOMAIN calls[c].ids :
                calls[c].results[i] = "deleted" =>
                    /\ calls[c].ids[i] \notin DOMAIN rows \cup chunkRows
                    /\ calls[c].hard /\ schema.coordinator => calls[c].ids[i] \notin Held

\* A document is not refused for its size: create_many says that its batches
\* have the maximum safe size.
InsertFits == \A d \in DOMAIN rows : ~rows[d].refused

\* What the document routes answer, of lists, of the sync status and of
\* deletions, agrees with the tables and with each other.
RegistryTruthful ==
    PagesCoverAll /\ StatusReportTrue /\ BatchAccountsForAll /\ DeletedIsGone
=============================================================================
