--------------------------- MODULE QueryEmbedding ---------------------------
(***************************************************************************)
(* How texts become vectors: build_semantic_embedding of the retrieval     *)
(* service expands a query (query/expander.rs) and writes hypothetical     *)
(* documents for it (query/hyde.rs) at the same time, embeds all of them   *)
(* in parallel batches with retries (embedding/client.rs) and averages the *)
(* vectors.  The client of rag-ingestion sends the texts of a document in  *)
(* batches one after the other.  The embedding service (rag-embedding)     *)
(* answers in any order of the data, or fails.                             *)
(*                                                                         *)
(* A text is a sequence of words in lower case; Blank is white space.  The *)
(* vector of a text is the text, so that a vector shows where it belongs.  *)
(***************************************************************************)
EXTENDS Integers, SequencesExt, FiniteSetsExt, Functions

CONSTANTS
    Blank,          \* white space
    AskedQueries,   \* bound: the queries
    Synonyms,       \* default_synonyms: from some words to texts
    LlmLines,       \* bound: lines of an answer of the LLM for the expansion
    HydeTexts,      \* bound: passages the LLM may write
    LineLengths,    \* the lengths that parse_expansion_response keeps
    Setups,         \* some of ExpanderConfigs
    HydeEnabled, HydeNumDocs,   \* HYDE_ENABLED and HYDE_NUM_DOCS
    ChunkTexts,     \* bound: texts of documents
    QueryBatch, IngestBatch,    \* batch_size, max_batch_size
    EmbedRetries,   \* max_retries
    Pending, NoText, Failure    \* in the place of an answer

VARIABLES
    client,     \* "none", "query" or "ingest"
    text,       \* the query
    setup,      \* the QueryExpanderConfig, and the limit of the service
    expanded,   \* the answer of expand, or Pending
    passages,   \* the answers of generate_single by number, Pending or NoText
    inputs,     \* what is embedded
    batches,    \* [state, tries, got, why] of each batch
    answer      \* the vectors, or what the caller is told instead

embedVars == <<client, text, setup, expanded, passages, inputs, batches, answer>>

----------------------------------------------------------------------------
(* What the configuration lets through.                                    *)

\* QueryExpanderConfig: neither its setters nor from_env refuse a number.
\* accepts is max_batch_size of rag-embedding.
ExpanderConfigs ==
    [enabled : BOOLEAN, original : BOOLEAN, synonyms : BOOLEAN, llm : BOOLEAN,
     most : Nat, accepts : Nat]

\* HydeConfig::from_env: a number out of range leaves the default.
HydeFromEnv(num) == IF num \in 1..5 THEN num ELSE 1
\* How many documents a query is given: none when HyDE is off.
HydeDocs == IF HydeEnabled THEN HydeFromEnv(HydeNumDocs) ELSE 0

\* EmbeddingConfig of the retrieval service: chunks(0) panics.
QueryClientConfigured == QueryBatch \in Nat \ {0} /\ EmbedRetries \in Nat
\* EmbeddingClientConfig of rag-ingestion.
IngestClientConfigured == IngestBatch \in Nat \ {0} /\ EmbedRetries \in Nat

Texts == Seq(STRING)

ASSUME EmbedAssumption ==
    /\ Setups \subseteq ExpanderConfigs /\ HydeEnabled \in BOOLEAN /\ HydeNumDocs \in Nat
    /\ QueryClientConfigured /\ IngestClientConfigured
    /\ Blank \in STRING /\ AskedQueries \subseteq Texts /\ ChunkTexts \subseteq Seq(Texts)
    /\ DOMAIN Synonyms \subseteq STRING /\ \A w \in DOMAIN Synonyms : Synonyms[w] \in Seq(Texts)
    /\ LlmLines \subseteq Texts /\ HydeTexts \subseteq Texts
    /\ {Pending, NoText, Failure} \cap (Texts \cup Seq(Texts)) = {}
    /\ Pending # NoText /\ Pending # Failure

----------------------------------------------------------------------------
(* Texts.                                                                  *)

\* One after the other.
Joined(parts) ==
    LET upto[n \in 0..Len(parts)] == IF n = 0 THEN <<>> ELSE upto[n - 1] \o parts[n]
    IN upto[Len(parts)]

\* The first of each text: what a HashSet lets in.
Unique[s \in Seq(Texts)] ==
    Joined([i \in DOMAIN s |-> IF \E j \in 1..(i - 1) : s[j] = s[i] THEN <<>> ELSE <<s[i]>>])
Without(s, dropped) ==
    Joined([i \in DOMAIN s |-> IF s[i] \in dropped THEN <<>> ELSE <<s[i]>>])

Trim(t) ==
    LET kept == {i \in DOMAIN t : t[i] # Blank}
    IN IF kept = {} THEN <<>> ELSE SubSeq(t, Min(kept), Max(kept))

\* split_whitespace.
Split(t) == Without(t, {Blank})

\* default_synonyms.
SynonymsOf(w) == IF w \in DOMAIN Synonyms THEN Synonyms[w] ELSE <<>>

\* expand_with_synonyms: each synonym in the place of its word.
ExpandWithSynonyms(t) ==
    LET words == Split(t)
        at(i) == [j \in DOMAIN SynonymsOf(words[i]) |->
                    SubSeq(words, 1, i - 1) \o SynonymsOf(words[i])[j]
                        \o SubSeq(words, i + 1, Len(words))]
    IN Unique[<<t>> \o Joined([i \in DOMAIN words |-> at(i)])]

\* parse_expansion_response.
ParseExpansion(lines, t) ==
    LET trimmed == [i \in DOMAIN lines |-> Trim(lines[i])]
    IN Without(trimmed, {Trim(t)} \cup {l \in Range(trimmed) : Len(l) \notin LineLengths})

\* expand; lines is <<>> when the LLM failed, and is not used without use_llm.
Expand(conf, t, lines) ==
    IF ~conf.enabled THEN <<t>>
    ELSE LET first == IF conf.original THEN <<t>> ELSE <<>>
             syns == IF conf.synonyms
                     THEN Without(ExpandWithSynonyms(t), {t}) ELSE <<>>
             llm == IF conf.llm THEN ParseExpansion(lines, t) ELSE <<>>
             all == Unique[first \o syns \o llm]
         IN SubSeq(all, 1, Min({conf.most, Len(all)}))

DedupeNonEmpty[s \in Seq(Texts)] ==
    Unique[Without([i \in DOMAIN s |-> Trim(s[i])], {<<>>})]

\* build_semantic_embedding: what is embedded for a query.
Inputs(t, expansion, docs) ==
    LET deduped == DedupeNonEmpty[expansion]
        queries == IF Contains(deduped, t) THEN deduped ELSE <<t>> \o deduped
        all == DedupeNonEmpty[queries \o DedupeNonEmpty[docs]]
    IN IF all = <<>> THEN <<t>> ELSE all

\* texts.chunks(size).
InBatches(s, size) ==
    [b \in 1..((Len(s) + size - 1) \div size) |->
        SubSeq(s, (b - 1) * size + 1, Min({b * size, Len(s)}))]
BatchSize(who) == IF who = "query" THEN QueryBatch ELSE IngestBatch
BatchTexts(b) == InBatches(inputs, BatchSize(client))[b]

----------------------------------------------------------------------------
(* The embedding service, and what the clients make of its replies.        *)

\* create_embeddings refuses nothing but blanks, and batches that are too large.
Accepts(texts) == Len(texts) <= setup.accepts /\ \E i \in DOMAIN texts : texts[i] # <<>>

\* The data of a reply in some order; short when the last vector is missing.
Shuffles(n) == {p \in [1..n -> 1..n] : IsInjective(p)}
Replies(texts) ==
    UNION {{[i \in 1..n |-> [index |-> p[i], vector |-> texts[p[i]]]] : p \in Shuffles(n)} :
            n \in {Len(texts), Len(texts) - 1} \ {0}}

\* Mutant: the order of the reply is kept.
AsReplied(data) == [i \in DOMAIN data |-> data[i].vector]

\* data.sort_by_key(index).
ByIndex(data) ==
    LET at == CHOOSE p \in Shuffles(Len(data)) :
                \A i, j \in 1..Len(data) : i < j => data[p[i]].index < data[p[j]].index
    IN [i \in 1..Len(data) |-> data[at[i]].vector]

\* Timeouts, refused connections and 5xx: is_retryable, the closure of embed_batch.
Passing == {"timeout", "connect", "5xx"}
Retryable(why) == why \in Passing

----------------------------------------------------------------------------

EmbedInit ==
    /\ client = "none" /\ text = <<>> /\ setup \in Setups
    /\ expanded = Pending /\ passages = <<>> /\ inputs = <<>>
    /\ batches = <<>> /\ answer = Pending

Waiting(state) == [state |-> state, tries |-> 0, got |-> <<>>, why |-> "none"]

\* join_all starts every batch; the loop of the ingestion client one at a time.
FirstCalls(who, texts) ==
    [b \in DOMAIN InBatches(texts, BatchSize(who)) |->
        Waiting(IF who = "query" \/ b = 1 THEN "sent" ELSE "queued")]

\* A query: the expander and HyDE start together.
Ask ==
    /\ client = "none" /\ client' = "query"
    /\ text' \in AskedQueries
    /\ passages' = [i \in 1..HydeDocs |-> Pending]
    /\ expanded' = IF setup.enabled /\ setup.llm THEN Pending ELSE Expand(setup, text', <<>>)
    /\ UNCHANGED <<setup, inputs, batches, answer>>

\* A document: embed_batch of the ingestion client.
EmbedDocument ==
    /\ client = "none" /\ client' = "ingest"
    /\ inputs' \in ChunkTexts
    /\ batches' = FirstCalls("ingest", inputs')
    /\ answer' = IF inputs' = <<>> THEN <<>> ELSE Pending
    /\ UNCHANGED <<text, setup, expanded, passages>>

\* expand_with_llm answers or fails; expand goes on without it.
LlmExpands ==
    /\ client = "query" /\ expanded = Pending
    /\ \E lines \in SeqOf(LlmLines, 2) : expanded' = Expand(setup, text, lines)
    /\ UNCHANGED <<client, text, setup, passages, inputs, batches, answer>>

\* generate_single_with_logging: a passage, or none.
HydeWrites(i) ==
    /\ passages[i] = Pending
    /\ \E p \in HydeTexts \cup {NoText} : passages' = [passages EXCEPT ![i] = p]
    /\ UNCHANGED <<client, text, setup, expanded, inputs, batches, answer>>

Enhanced == expanded # Pending /\ \A i \in DOMAIN passages : passages[i] # Pending
Written == Without(passages, {NoText})

\* tokio::join!, the inputs, and embed_query or embed_texts.
StartEmbedding ==
    /\ client = "query" /\ inputs = <<>> /\ Enhanced
    /\ inputs' = Inputs(text, expanded, Written)
    /\ batches' = FirstCalls("query", inputs')
    /\ UNCHANGED <<client, text, setup, expanded, passages, answer>>

\* What a reply of the right form comes to; only the query client counts.
Taken(b, data) ==
    IF client = "query" /\ Len(data) # Len(BatchTexts(b))
    THEN [batches[b] EXCEPT !.state = "failed", !.why = "short"]
    ELSE [batches[b] EXCEPT !.state = "ok", !.got = ByIndex(data)]

\* RetryPolicy::execute after an error.
NotTaken(b, why) ==
    IF Retryable(why) /\ batches[b].tries < EmbedRetries
    THEN [batches[b] EXCEPT !.state = "backoff", !.tries = @ + 1]
    ELSE [batches[b] EXCEPT !.state = "failed", !.why = why]

\* Whatever becomes of a call.
CallEnds(b) ==
    /\ batches[b].state = "sent"
    /\ \/ /\ Accepts(BatchTexts(b))
          /\ \E data \in Replies(BatchTexts(b)) :
                batches' = [batches EXCEPT ![b] = Taken(b, data)]
       \/ /\ Accepts(BatchTexts(b))
          /\ \E why \in Passing \cup {"garbled"} :
                batches' = [batches EXCEPT ![b] = NotTaken(b, why)]
       \/ /\ ~Accepts(BatchTexts(b))
          /\ batches' = [batches EXCEPT ![b] = NotTaken(b, "4xx")]
    /\ UNCHANGED <<client, text, setup, expanded, passages, inputs, answer>>

\* The sleep of the retry policy is over.
CallAgain(b) ==
    /\ batches[b].state = "backoff"
    /\ batches' = [batches EXCEPT ![b].state = "sent"]
    /\ UNCHANGED <<client, text, setup, expanded, passages, inputs, answer>>

\* The ingestion client's next sub-batch.
CallNext(b) ==
    /\ batches[b].state = "queued" /\ batches[b - 1].state = "ok"
    /\ batches' = [batches EXCEPT ![b].state = "sent"]
    /\ UNCHANGED <<client, text, setup, expanded, passages, inputs, answer>>

Settled(b) == batches[b].state \in {"ok", "failed"}
Collected == Joined([b \in DOMAIN batches |-> batches[b].got])

\* All batches have ended, or the first failed for the ingestion client; then
\* average_embeddings over what was collected.
Gather ==
    /\ batches # <<>> /\ answer = Pending
    /\ IF \E b \in DOMAIN batches : batches[b].state = "failed"
       THEN /\ client = "query" => \A b \in DOMAIN batches : Settled(b)
            /\ answer' = Failure
       ELSE /\ \A b \in DOMAIN batches : Settled(b)
            /\ answer' = Collected
    /\ UNCHANGED <<client, text, setup, expanded, passages, inputs, batches>>

EmbedStep ==
    \/ LlmExpands \/ StartEmbedding \/ Gather
    \/ \E i \in DOMAIN passages : HydeWrites(i)
    \/ \E b \in DOMAIN batches : CallEnds(b) \/ CallAgain(b) \/ CallNext(b)
EmbedNext == Ask \/ EmbedDocument \/ EmbedStep

EmbedSpec == EmbedInit /\ [][EmbedNext]_embedVars
\* Every request of the clients has a timeout of its own, and sleeps end.
EmbedFairSpec == EmbedSpec /\ WF_embedVars(EmbedStep)

----------------------------------------------------------------------------
(* Properties.                                                             *)

VectorsReturned == answer \notin {Pending, Failure}

\* The search is for what the user asked: whatever the synonyms, the LLM and
\* the limit on expansions leave, the query as it was asked is one of the texts
\* behind the averaged vector, unless it is blank (validate lets that pass), and
\* no text weighs twice (build_semantic_embedding, expand, dedupe_non_empty).
QueryIsSearched ==
    client = "query" /\ inputs # <<>> =>
        /\ Trim(text) # <<>> =>
               Cardinality({i \in DOMAIN inputs : inputs[i] = Trim(text)}) = 1
        /\ IsInjective(inputs)

\* The vectors are those of the texts, place by place, across batches that end
\* in any order and replies whose data come in any order; only the ingestion
\* client lets a short reply through, and then the number of vectors shows it
\* (embed_texts, process_response, send_request).
VectorsMatchTexts ==
    VectorsReturned =>
        /\ Len(answer) = Len(inputs) => answer = inputs
        /\ client = "query" => Len(answer) = Len(inputs)
        /\ Len(answer) <= Len(inputs)

\* An embedding fails only for a batch that failed for good or in all its
\* attempts; what happens to the expansion and to HyDE never fails it, and an
\* answer never leaves out a batch (build_semantic_embedding, RetryPolicy).
FailureHasCause ==
    answer # Pending =>
        (answer = Failure <=>
            \E b \in DOMAIN batches :
                /\ batches[b].state = "failed"
                /\ Retryable(batches[b].why) => batches[b].tries = EmbedRetries)

\* Every caller gets an answer.
EmbeddingEnds == client # "none" ~> answer # Pending

\* The vector of a query or of a chunk is that of its text, or the call fails
\* and has a batch to show for it.
EmbeddingFaithful == QueryIsSearched /\ VectorsMatchTexts /\ FailureHasCause
=============================================================================
