------------------------- MODULE MCIndexCoordinator -------------------------
(* Instances of IndexCoordinator for TLC.                                  *)
EXTENDS IndexCoordinator

CONSTANTS in, re1, re2, emb, del, soft

\* An ingestion, two reindex attempts, a reembed, a deletion of each kind.
MCKind == [o \in Ops |->
    CASE o = in -> "ingest" [] o \in {re1, re2} -> "reindex"
      [] o = emb -> "reembed" [] o = del -> "delete" [] o = soft -> "soft"]
=============================================================================
