------------------------------ MODULE Reembed ------------------------------
(***************************************************************************)
(* The reembed job of rag-ingestion (process_reembed in worker/handler.rs) *)
(* over the documents of a tenant: it lists them page by page, and for     *)
(* each loads the row and the chunks from PostgreSQL, embeds the chunks in *)
(* batches and has the index coordinator delete and write the document     *)
(* again.  The API deletes documents and the queue runs a failed job again *)
(* meanwhile.                                                              *)
(*                                                                         *)
(* The ACL of a document is known by its fields that hold a value, what    *)
(* Qdrant holds of it by the number of its vectors, and what OpenSearch    *)
(* holds by the chunks that it has postings of.  Qdrant takes and deletes  *)
(* a document in one request.  OpenSearch may take a part of a bulk and    *)
(* report it, and a deletion by query leaves what it has not refreshed or  *)
(* fails half way.  IndexCoordinator has these calls in their order.       *)
(***************************************************************************)
EXTENDS Integers, Sequences, SequencesExt, FiniteSetsExt

CONSTANTS
    Documents,           \* documents of the tenant
    AclOf,          \* the ACL fields each was ingested with
    InScope,        \* documents whose source type the scope of the job names
    ChunksOf,       \* rows of the chunks table of each document
    PageSize,       \* 1000 in the code
    BatchSize,      \* batch_size of the payload
    MaxDeletes, MaxErrors, MaxAttempts  \* bounds

AclFields == {"visibility", "owner_id", "allowed_groups", "allowed_users",
              "denied_groups", "denied_users"}

ASSUME ReembedAssumption ==
    /\ IsFiniteSet(Documents) /\ InScope \subseteq Documents
    /\ AclOf \in [Documents -> SUBSET AclFields]
    /\ ChunksOf \in [Documents -> Nat]
    /\ PageSize \in Nat \ {0} /\ BatchSize \in Nat
    /\ MaxDeletes \in Nat /\ MaxErrors \in Nat /\ MaxAttempts \in Nat

VARIABLES
    documents,       \* source_documents, by created_at DESC
    acl,        \* the ACL columns of each row
    status,     \* the status column of each row
    chunked,    \* documents whose chunks the chunks table holds
    vectors,    \* the number of points that Qdrant holds of each document
    postings,   \* the chunks of each document that OpenSearch holds
    jobAt,      \* where the job stands
    offset,     \* of the page it lists next
    remaining,       \* requested_document_ids left
    loaded,     \* the ACL fields of the row it has loaded
    embedded,   \* embeddings it holds of the document at hand
    processed,  \* processed_docs
    bad,        \* documents the tracker has an error of
    attempt,    \* runs of the job by the queue
    listed,     \* history: documents in requested_document_ids
    deletes,        \* history: documents the API deleted
    errors

jobVars == <<jobAt, offset, remaining, loaded, embedded, processed, bad, attempt, listed>>
storeVars == <<documents, acl, status, chunked, vectors, postings>>
reVars == <<storeVars, jobVars, deletes, errors>>

\* Every chunk of a document.
Whole(d) == 1..ChunksOf[d]

ReInit ==
    /\ documents \in SetToSeqs(Documents)
    /\ acl = AclOf
    /\ status = [d \in Documents |-> "completed"]
    /\ chunked = Documents /\ vectors = ChunksOf
    /\ postings = [d \in Documents |-> Whole(d)]
    /\ jobAt = "list" /\ offset = 0 /\ remaining = <<>>
    /\ loaded = {} /\ embedded = 0 /\ processed = 0 /\ bad = {}
    /\ attempt = 1 /\ listed = {}
    /\ deletes = {} /\ errors = 0

Existing == Range(documents)
Current == Head(remaining)

----------------------------------------------------------------------------
(* The scope.                                                              *)

\* DocumentRepository.list: LIMIT and OFFSET.
Page == SubSeq(documents, offset + 1, Min({offset + PageSize, Len(documents)}))

\* Those elements of a sequence that are in a set.
Kept(s, T) ==
    LET kept[i \in 0..Len(s)] ==
            IF i = 0 THEN <<>>
            ELSE IF s[i] \in T THEN Append(kept[i - 1], s[i]) ELSE kept[i - 1]
    IN kept[Len(s)]

Matching(page) == Kept(page, InScope)

\* The last page is the one that is not full; an empty scope completes the job.
ListScope ==
    /\ jobAt = "list"
    /\ remaining' = remaining \o Matching(Page)
    /\ listed' = listed \cup Range(Matching(Page))
    /\ offset' = offset + PageSize
    /\ jobAt' = IF Len(Page) = PageSize THEN "list"
                ELSE IF remaining' = <<>> THEN "completed" ELSE "load"
    /\ UNCHANGED <<storeVars, loaded, embedded, processed, bad, attempt, deletes, errors>>

Erring == errors < MaxErrors /\ errors' = errors + 1

ListFails ==
    /\ jobAt = "list" /\ Erring
    /\ jobAt' = "failed"
    /\ UNCHANGED <<storeVars, offset, remaining, loaded, embedded, processed, bad, attempt,
                   listed, deletes>>

----------------------------------------------------------------------------
(* One document.                                                           *)

\* The loop goes on to the next document; behind the last one the job fails
\* if it has processed none.
Advance(count) ==
    /\ remaining' = Tail(remaining)
    /\ loaded' = {} /\ embedded' = 0
    /\ processed' = processed + count
    /\ jobAt' = IF Len(remaining) > 1 THEN "load"
                ELSE IF processed' = 0 THEN "failed" ELSE "completed"

Skip ==
    /\ bad' = bad \cup {Current}
    /\ Advance(0)
    /\ UNCHANGED <<storeVars, offset, attempt, listed, deletes>>

\* find_by_id_and_tenant and find_by_document_id.
Load ==
    /\ jobAt = "load"
    /\ Current \in Existing \cap chunked /\ ChunksOf[Current] > 0
    /\ loaded' = acl[Current]
    /\ jobAt' = "embed"
    /\ UNCHANGED <<storeVars, offset, remaining, embedded, processed, bad, attempt, listed,
                   deletes, errors>>

NotLoaded ==
    /\ jobAt = "load"
    /\ \/ /\ Current \notin Existing \cap chunked \/ ChunksOf[Current] = 0
          /\ UNCHANGED errors
       \/ Erring
    /\ Skip

\* texts.chunks(batch_size), where batch_size is at least 1.
Batch == Max({BatchSize, 1})
EmbedBatch ==
    /\ jobAt = "embed"
    /\ embedded' = Min({embedded + Batch, ChunksOf[Current]})
    /\ jobAt' = IF embedded' = ChunksOf[Current] THEN "erase" ELSE "embed"
    /\ UNCHANGED <<storeVars, offset, remaining, loaded, processed, bad, attempt, listed,
                   deletes, errors>>

\* Mutant: the document is indexed with the embeddings there are.
BatchFailsPartly ==
    /\ jobAt = "embed" /\ Erring
    /\ bad' = bad \cup {Current}
    /\ jobAt' = "erase"
    /\ UNCHANGED <<storeVars, offset, remaining, loaded, embedded, processed, attempt, listed,
                   deletes>>

\* An error, or fewer embeddings than texts: those of earlier batches are
\* dropped and the document is left as it is.
BatchFails == jobAt = "embed" /\ Erring /\ Skip

\* doc_acl: what the job copies of the row.
Copied(fields) == fields \cap {"visibility", "allowed_groups"}

\* Cost counts the calls that fail.
Cost(n) == errors + n <= MaxErrors /\ errors' = errors + n
Toll(ok) == IF ok THEN 0 ELSE 1

\* delete_document: Qdrant deletes the points or none, OpenSearch leaves some of the
\* postings, and PostgreSQL deletes the chunks and then the row.
EraseFrom(d, inQdrant, chunksToo, rowToo) ==
    /\ vectors' = IF inQdrant THEN [vectors EXCEPT ![d] = 0] ELSE vectors
    /\ \E left \in SUBSET postings[d] : postings' = [postings EXCEPT ![d] = left]
    /\ chunked' = IF chunksToo THEN chunked \ {d} ELSE chunked
    /\ documents' = IF rowToo THEN Kept(documents, Documents \ {d}) ELSE documents
    /\ rowToo => chunksToo

\* reindex_document: delete_document, whose outcome is dropped, then index_document.
Erase ==
    /\ jobAt = "erase"
    /\ \E inQdrant, chunksToo, rowToo \in BOOLEAN :
           /\ Cost(Toll(inQdrant) + Toll(rowToo))
           /\ EraseFrom(Current, inQdrant, chunksToo, rowToo)
    /\ jobAt' = "write"
    /\ UNCHANGED <<acl, status, offset, remaining, loaded, embedded, processed, bad, attempt,
                   listed, deletes>>

\* One upsert; that of a call that fails may have been done all the same.
WriteToQdrant(ok) ==
    \/ vectors' = [vectors EXCEPT ![Current] = embedded]
    \/ ~ok /\ UNCHANGED vectors

\* One bulk; that of a call that fails may have been done in part.
WriteToOpenSearch(ok) ==
    \E done \in SUBSET (1..embedded) :
        /\ ok => done = 1..embedded
        /\ postings' = [postings EXCEPT ![Current] = @ \cup done]

\* write_to_database: the row, as the newest, if there is none under its id; then
\* the chunks in one transaction, without which the row is marked "failed".
WriteToDatabase(ok) ==
    \/ ~ok /\ UNCHANGED <<documents, acl, status, chunked>>
    \/ /\ Current \notin Existing
       /\ documents' = <<Current>> \o documents
       /\ acl' = [acl EXCEPT ![Current] = Copied(loaded)]
       /\ status' = [status EXCEPT ![Current] = IF ok THEN "completed" ELSE "failed"]
       /\ chunked' = IF ok THEN chunked \cup {Current} ELSE chunked

\* index_document: the three writes are joined.  A row under the id is an error of
\* the database that no call has to fail for.
WriteAll(inQdrant, inOpenSearch, inDatabase) ==
    /\ Cost(Toll(inQdrant) + Toll(inOpenSearch)
                + (IF Current \in Existing THEN 0 ELSE Toll(inDatabase)))
    /\ WriteToQdrant(inQdrant)
    /\ WriteToOpenSearch(inOpenSearch)
    /\ WriteToDatabase(inDatabase)

\* Mutant: only an error of reindex_document is one of the document.
WriteSilent ==
    /\ jobAt = "write"
    /\ \E inQdrant, inOpenSearch, inDatabase \in BOOLEAN :
           WriteAll(inQdrant, inOpenSearch, inDatabase)
    /\ jobAt' = "mark"
    /\ UNCHANGED <<offset, remaining, loaded, embedded, processed, bad, attempt, listed,
                   deletes>>

\* A store that fails is an error of the tracker, and the document counts all the
\* same.
Write ==
    /\ jobAt = "write"
    /\ \E inQdrant, inOpenSearch, inDatabase \in BOOLEAN :
           /\ WriteAll(inQdrant, inOpenSearch, inDatabase)
           /\ bad' = IF inQdrant /\ inOpenSearch /\ inDatabase THEN bad
                     ELSE bad \cup {Current}
    /\ jobAt' = "mark"
    /\ UNCHANGED <<offset, remaining, loaded, embedded, processed, attempt, listed, deletes>>

\* mark_embeddings_generated and update_status("completed"), which is an error
\* for a row that is not there.
Mark ==
    /\ jobAt = "mark"
    /\ \/ /\ Current \in Existing
          /\ status' = [status EXCEPT ![Current] = "completed"]
          /\ UNCHANGED <<bad, errors>>
       \/ /\ IF Current \in Existing THEN Erring ELSE UNCHANGED errors
          /\ bad' = bad \cup {Current}
          /\ UNCHANGED status
    /\ Advance(1)
    /\ UNCHANGED <<documents, acl, chunked, vectors, postings, offset, attempt, listed, deletes>>

----------------------------------------------------------------------------
(* Around the job.                                                         *)

\* The queue runs a failed job again, from the start; the errors of the tracker
\* stay.
Retry ==
    /\ jobAt = "failed" /\ attempt < MaxAttempts
    /\ attempt' = attempt + 1
    /\ jobAt' = "list" /\ offset' = 0 /\ remaining' = <<>> /\ listed' = {}
    /\ processed' = 0
    /\ UNCHANGED <<storeVars, loaded, embedded, bad, deletes, errors>>

\* The delete routes.
DeleteDocument(d) ==
    /\ d \in Existing /\ Cardinality(deletes) < MaxDeletes
    /\ \E inQdrant, chunksToo, rowToo \in BOOLEAN :
           /\ Cost(Toll(inQdrant) + Toll(rowToo))
           /\ EraseFrom(d, inQdrant, chunksToo, rowToo)
    /\ deletes' = deletes \cup {d}
    /\ UNCHANGED <<acl, status, jobVars>>

ReNext ==
    \/ ListScope \/ ListFails \/ Load \/ NotLoaded \/ EmbedBatch \/ BatchFails
    \/ Erase \/ Write \/ Mark \/ Retry
    \/ \E d \in Documents : DeleteDocument(d)

ReSpec == ReInit /\ [][ReNext]_reVars

----------------------------------------------------------------------------
(* Properties.                                                             *)

Working == {"list", "load", "embed", "erase", "write", "mark"}

\* Whatever batch, call or part of a bulk fails, Qdrant holds the vectors of a
\* document completely or not at all; and so does OpenSearch its postings, but while
\* they are written again, unless the tracker has an error of the document or the
\* API deleted it.
NoPartialDocument ==
    \A d \in Documents :
        /\ vectors[d] \in {0, ChunksOf[d]}
        /\ \/ postings[d] \in {{}, Whole(d)}
           \/ d \in bad \cup deletes
           \/ jobAt = "write" /\ d = Current

\* A document of a completed job about which the tracker has no error is in the
\* database with its chunks and in the stores with all of them, unless the API
\* deleted it.
Complete(d) ==
    /\ d \in Existing \cap chunked /\ status[d] = "completed"
    /\ vectors[d] = ChunksOf[d] /\ postings[d] = Whole(d)

ErrorsReported ==
    jobAt = "completed" => \A d \in listed \ (bad \cup deletes) : Complete(d)

\* "large tenants are not capped": the pages cover the scope when nothing is
\* deleted while they are listed.
ScopeCovered ==
    jobAt \notin {"list", "failed"} /\ deletes = {} /\ attempt = 1 => listed = InScope

\* "Build ACL from the existing database record's fields": re-embedding changes
\* no document's ACL.
ReembedKeepsAcl == \A d \in Existing : acl[d] = AclOf[d]

\* What a finished job says is so: it listed its scope, and of every listed
\* document it either has an error or it has done it.
JobAccounts == ErrorsReported /\ ScopeCovered
=============================================================================
