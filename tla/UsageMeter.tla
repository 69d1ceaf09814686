----------------------------- MODULE UsageMeter -----------------------------
(***************************************************************************)
(* Token usage and quotas of the orchestrator: UsageTracker counts in      *)
(* Redis (usage/tracker.py), UsageFlusher moves the counters to the table  *)
(* token_usage every five minutes and at shutdown (usage/flush.py), and    *)
(* the query route (api/routes/query.py) checks the quota first and        *)
(* records what a query has used last.  Several replicas flush.            *)
(*                                                                         *)
(* A key is one model of the tenant on one day of the month.  Prompt,      *)
(* completion and embedding tokens are treated alike and summed.           *)
(***************************************************************************)
EXTENDS Integers, FiniteSetsExt

CONSTANTS
    UsageKeys,      \* counters of a tenant
    Meters,         \* bound: queries of a behaviour
    Flushers,       \* flush jobs, of all replicas
    TokenCounts,    \* tokens of a prompt or a completion
    TokenLimits,    \* values of monthly_token_limit
    NoLimit,        \* no quota row, a disabled quota or no limit in it
    MaxUpsets       \* bound on failures, crashes and expired counters

ASSUME UsageAssumption ==
    /\ IsFiniteSet(UsageKeys)
    /\ TokenCounts \subseteq Nat /\ TokenLimits \subseteq Nat \cup {NoLimit}
    /\ NoLimit \notin Nat
    /\ MaxUpsets \in Nat

VARIABLES
    counter,    \* Redis: the tokens under each key
    present,    \* Redis: the keys there are
    billed,     \* token_usage: the committed tokens of each key
    flush,      \* what each flush job is at
    query,      \* what each query is at
    tokenLimit,
    used,       \* history: what was recorded of each key
    lossy,      \* history: keys of which tokens may have been lost
    doubled,    \* history: keys of which tokens may be billed twice
    upsets

countVars == <<counter, present, billed, flush, query, tokenLimit, used, lossy, doubled, upsets>>

Tally == [UsageKeys -> Nat]
NoTokens == [k \in UsageKeys |-> 0]
IdleFlush == [at |-> "idle", rest |-> {}, open |-> {}, got |-> NoTokens, doomed |-> {},
              broken |-> FALSE]
IdleMeter == [at |-> "idle", rest |-> {}, seen |-> NoTokens, start |-> NoTokens,
              missed |-> FALSE]

UsageInit ==
    /\ counter = NoTokens /\ present = {} /\ billed = NoTokens
    /\ flush = [f \in Flushers |-> IdleFlush]
    /\ query = [r \in Meters |-> IdleMeter]
    /\ tokenLimit \in TokenLimits
    /\ used = NoTokens /\ lossy = {} /\ doubled = {}
    /\ upsets = 0

Upset == upsets < MaxUpsets /\ upsets' = upsets + 1

\* The keys that a flush has read and not done with.
Held(f) == flush[f].open \cup flush[f].doomed
HeldByAny(k) == \E f \in Flushers : k \in Held(f)

----------------------------------------------------------------------------
(* A query.                                                                *)

\* get_current_month_usage: the rows first, then the keys that SCAN finds, one
\* by one. SCAN returns the keys that are there throughout, and maybe others.
CheckQuota(r) ==
    /\ query[r].at = "idle"
    /\ IF tokenLimit = NoLimit
       THEN query' = [query EXCEPT ![r].at = "run"]
       ELSE \E keys \in SUBSET UsageKeys :
                /\ present \subseteq keys
                /\ query' = [query EXCEPT ![r] =
                        [at |-> "check", rest |-> keys, seen |-> billed, start |-> used,
                         missed |-> FALSE]]
    /\ UNCHANGED <<counter, present, billed, flush, tokenLimit, used, lossy, doubled, upsets>>

CountKey(r, k) ==
    /\ query[r].at = "check" /\ k \in query[r].rest
    /\ query' = [query EXCEPT ![r].rest = @ \ {k}, ![r].seen[k] = @ + counter[k]]
    /\ UNCHANGED <<counter, present, billed, flush, tokenLimit, used, lossy, doubled, upsets>>

\* An error of Redis ends the count with what there is.
CountFails(r) ==
    /\ query[r].at = "check" /\ query[r].rest # {}
    /\ Upset
    /\ query' = [query EXCEPT ![r].rest = {}, ![r].missed = TRUE]
    /\ UNCHANGED <<counter, present, billed, flush, tokenLimit, used, lossy, doubled>>

TokenSum(tally) == MapThenSumSet(LAMBDA k : tally[k], UsageKeys)

\* Status 429 when no token remains.
Decide(r) ==
    /\ query[r].at = "check" /\ query[r].rest = {}
    /\ query' = [query EXCEPT ![r].at =
            IF tokenLimit - TokenSum(query[r].seen) > 0 THEN "run" ELSE "refused"]
    /\ UNCHANGED <<counter, present, billed, flush, tokenLimit, used, lossy, doubled, upsets>>

\* HINCRBY: what a flush has read already and will delete loses it.
Increment(k, n) ==
    /\ counter' = [counter EXCEPT ![k] = @ + n]
    /\ present' = present \cup {k}
    /\ used' = [used EXCEPT ![k] = @ + n]
    /\ lossy' = IF HeldByAny(k) THEN lossy \cup {k} ELSE lossy

\* The prompt and the completion are two increments: between them anything may
\* happen to the key.
RecordPrompt(r, k, n) ==
    /\ query[r].at = "run"
    /\ Increment(k, n)
    /\ query' = [query EXCEPT ![r].at = "prompt", ![r].rest = {k}]
    /\ UNCHANGED <<billed, flush, tokenLimit, doubled, upsets>>

RecordCompletion(r, k, n) ==
    /\ query[r].at = "prompt" /\ k \in query[r].rest
    /\ Increment(k, n)
    /\ query' = [query EXCEPT ![r].at = "done", ![r].rest = {}]
    /\ UNCHANGED <<billed, flush, tokenLimit, doubled, upsets>>

\* A query that fails before it records anything, and a recording that fails.
QueryEnds(r) ==
    /\ query[r].at \in {"run", "prompt"}
    /\ Upset
    /\ query' = [query EXCEPT ![r].at = "done", ![r].rest = {}]
    /\ UNCHANGED <<counter, present, billed, flush, tokenLimit, used, lossy, doubled>>

----------------------------------------------------------------------------
(* A flush.                                                                *)

StartFlush(f) ==
    /\ flush[f].at = "idle"
    /\ \E keys \in SUBSET UsageKeys :
           /\ present \subseteq keys
           /\ flush' = [flush EXCEPT ![f] = [IdleFlush EXCEPT !.at = "scan", !.rest = keys]]
    /\ UNCHANGED <<counter, present, billed, query, tokenLimit, used, lossy, doubled, upsets>>

Scanning(f, k) == flush[f].at = "scan" /\ flush[f].open = {} /\ k \in flush[f].rest

\* HGETALL: a key that has gone is passed over, one of zeros has no row to add.
ReadKey(f, k) ==
    /\ Scanning(f, k)
    /\ IF k \notin present
       THEN flush' = [flush EXCEPT ![f].rest = @ \ {k}] /\ UNCHANGED doubled
       ELSE /\ flush' =
                IF counter[k] = 0
                THEN [flush EXCEPT ![f].rest = @ \ {k}, ![f].doomed = @ \cup {k},
                                   ![f].got[k] = 0]
                ELSE [flush EXCEPT ![f].rest = @ \ {k}, ![f].open = {k},
                                   ![f].got[k] = counter[k]]
            /\ doubled' = IF HeldByAny(k) THEN doubled \cup {k} ELSE doubled
    /\ UNCHANGED <<counter, present, billed, query, tokenLimit, used, lossy, upsets>>

\* The error is counted and the key left for the next flush.
ReadFails(f, k) ==
    /\ Scanning(f, k)
    /\ Upset
    /\ flush' = [flush EXCEPT ![f].rest = @ \ {k}]
    /\ UNCHANGED <<counter, present, billed, query, tokenLimit, used, lossy, doubled>>

\* Another open transaction has written the row of k.
RowLocked(f, k) ==
    \E g \in Flushers \ {f} :
        flush[g].at = "scan" /\ ~flush[g].broken /\ k \in flush[g].doomed
        /\ flush[g].got[k] > 0

\* INSERT ... ON CONFLICT DO UPDATE; in a failed transaction, another error.
AddToRow(f, k) ==
    /\ flush[f].at = "scan" /\ k \in flush[f].open
    /\ flush[f].broken \/ ~RowLocked(f, k)
    /\ flush' = [flush EXCEPT ![f].open = {},
                              ![f].doomed = IF flush[f].broken THEN @ ELSE @ \cup {k}]
    /\ UNCHANGED <<counter, present, billed, query, tokenLimit, used, lossy, doubled, upsets>>

\* Mutant: the key is deleted although its upsert failed.
RowFailsAndDooms(f, k) ==
    /\ flush[f].at = "scan" /\ k \in flush[f].open /\ ~flush[f].broken
    /\ Upset
    /\ flush' = [flush EXCEPT ![f].open = {}, ![f].broken = TRUE, ![f].doomed = @ \cup {k}]
    /\ lossy' = lossy \cup {d \in flush[f].doomed : flush[f].got[d] > 0}
    /\ UNCHANGED <<counter, present, billed, query, tokenLimit, used, doubled>>

\* The statement of one key fails, also as the victim of a deadlock: PostgreSQL
\* aborts the transaction, the loop goes on, and the keys of the statements
\* before it stay in keys_to_delete.
RowFails(f, k) ==
    /\ flush[f].at = "scan" /\ k \in flush[f].open /\ ~flush[f].broken
    /\ Upset
    /\ flush' = [flush EXCEPT ![f].open = {}, ![f].broken = TRUE]
    /\ lossy' = lossy \cup {d \in flush[f].doomed : flush[f].got[d] > 0}
    /\ UNCHANGED <<counter, present, billed, query, tokenLimit, used, doubled>>

\* COMMIT; of an aborted transaction it is a rollback, and no error.
CommitFlush(f) ==
    /\ flush[f].at = "scan" /\ flush[f].rest = {} /\ flush[f].open = {}
    /\ billed' = IF flush[f].broken THEN billed
                 ELSE [k \in UsageKeys |->
                        IF k \in flush[f].doomed THEN billed[k] + flush[f].got[k] ELSE billed[k]]
    /\ flush' = [flush EXCEPT ![f] =
                    IF flush[f].doomed = {} THEN IdleFlush
                    ELSE [flush[f] EXCEPT !.at = "delete"]]
    /\ UNCHANGED <<counter, present, query, tokenLimit, used, lossy, doubled, upsets>>

\* The keys of flush f without k; with the last one the flush ends.
Forget(f, k) ==
    flush' = [flush EXCEPT ![f] =
                IF flush[f].doomed = {k} THEN IdleFlush
                ELSE [flush[f] EXCEPT !.doomed = @ \ {k}]]

\* A check that has still to count k misses what the row of k has got.
Vanish(k) ==
    /\ counter' = [counter EXCEPT ![k] = 0]
    /\ present' = present \ {k}
    /\ query' = [r \in Meters |->
            IF query[r].at = "check" /\ k \in query[r].rest
            THEN [query[r] EXCEPT !.missed = TRUE] ELSE query[r]]

DeleteCounter(f, k) ==
    /\ flush[f].at = "delete" /\ k \in flush[f].doomed
    /\ Vanish(k) /\ Forget(f, k)
    /\ UNCHANGED <<billed, tokenLimit, used, lossy, doubled, upsets>>

\* Logged only: the next flush bills the key again.
DropFails(f, k) ==
    /\ flush[f].at = "delete" /\ k \in flush[f].doomed
    /\ Upset
    /\ Forget(f, k)
    /\ doubled' = doubled \cup {k}
    /\ UNCHANGED <<counter, present, billed, query, tokenLimit, used, lossy>>

\* An error of the scan or of the commit, or the end of the process: before the
\* commit everything is rolled back, after it the keys stay.
FlushStops(f) ==
    /\ flush[f].at # "idle"
    /\ Upset
    /\ flush' = [flush EXCEPT ![f] = IdleFlush]
    /\ doubled' = IF flush[f].at = "delete" THEN doubled \cup flush[f].doomed ELSE doubled
    /\ UNCHANGED <<counter, present, billed, query, tokenLimit, used, lossy>>

\* Two days without a recording or a flush.
ExpireKey(k) ==
    /\ k \in present
    /\ Upset
    /\ Vanish(k)
    /\ lossy' = lossy \cup {k}
    /\ UNCHANGED <<billed, flush, tokenLimit, used, doubled>>

FlushKey(f, k) ==
    \/ ReadKey(f, k) \/ ReadFails(f, k) \/ AddToRow(f, k) \/ RowFails(f, k)
    \/ DeleteCounter(f, k) \/ DropFails(f, k)

UsageNext ==
    \/ \E r \in Meters :
        \/ CheckQuota(r) \/ CountFails(r) \/ Decide(r) \/ QueryEnds(r)
        \/ \E k \in UsageKeys :
            \/ CountKey(r, k)
            \/ \E n \in TokenCounts : RecordPrompt(r, k, n) \/ RecordCompletion(r, k, n)
    \/ \E f \in Flushers :
        \/ StartFlush(f) \/ CommitFlush(f) \/ FlushStops(f)
        \/ \E k \in UsageKeys : FlushKey(f, k)
    \/ \E k \in UsageKeys : ExpireKey(k)

UsageSpec == UsageInit /\ [][UsageNext]_countVars

----------------------------------------------------------------------------
(* Properties.                                                             *)

\* Tokens are lost only of a key that was recorded while a flush held it, that
\* expired, or whose flush went on past a failed statement; they are billed twice
\* only if two flushes held the key or a flush ended between commit and delete.
UsageCounted ==
    \A k \in UsageKeys :
        /\ k \notin lossy => billed[k] + counter[k] >= used[k]
        /\ k \notin doubled /\ ~HeldByAny(k) => billed[k] + counter[k] <= used[k]

\* A quota check that no flush overtakes sees all that was recorded before it.
ChecksSeeAll ==
    \A r \in Meters : query[r].at = "check" /\ query[r].rest = {} /\ ~query[r].missed =>
        \A k \in UsageKeys \ lossy : query[r].seen[k] >= query[r].start[k]

\* Table and counters together hold what was recorded, and a quota check sees it,
\* but for the races and failures that the history variables name.
UsageTruthful == UsageCounted /\ ChecksSeeAll
=============================================================================
