------------------------------- MODULE Records -------------------------------
(***************************************************************************)
(* The repositories of rag-database beside those of documents: role and    *)
(* group assignments and API keys (user_repository.rs), token usage and    *)
(* quotas (usage_repository.rs), the audit log and query feedback          *)
(* (audit_repository.rs, feedback_repository.rs).                          *)
(*                                                                         *)
(* A behaviour is about one family of tables. A statement is atomic; what  *)
(* takes two statements takes two steps. The schema is not the crates':    *)
(* whether it fills in a missing id, and whether a SUM of bigint columns   *)
(* fits the i64 it is read into, differs between databases, and a behaviour*)
(* chooses.                                                                *)
(***************************************************************************)
EXTENDS Integers, FiniteSetsExt, SequencesExt, Functions

CONSTANTS
    Members, Things,        \* users; roles or groups
    Admins,                 \* who assigns
    Never,                  \* no expires_at
    ApiKeys, KeyPrefixes,         \* API keys and their first characters
    Dates,                  \* of usage: year, month, day
    AskedMonths,            \* pairs year, month a caller asks for
    Amounts, Limits,        \* tokens used at once; limits of a quota
    Checkers,               \* callers of the quota routes
    Authors, Ratings,       \* of journal entries
    PageLimit,              \* LIMIT of a journal page
    MaxCalls, LastTick      \* bounds: calls that change a table, the clock

ASSUME RecordsAssumption ==
    /\ Dates \subseteq Nat \X (1..12) \X (1..31) /\ AskedMonths \subseteq Nat \X Nat
    /\ Amounts \subseteq Nat /\ Limits \subseteq Nat /\ Never \notin Nat
    /\ PageLimit \in Nat \ {0} /\ MaxCalls \in Nat /\ LastTick \in Nat

VARIABLES
    family,     \* the tables of this behaviour, and what their schema does
    instant,    \* the clock of the database
    log,        \* the calls that changed a table, as their callers know them
    links,      \* user_roles or user_groups
    retired,    \* roles or groups with deleted_at set
    apiKeys,
    usage,      \* token_usage: rows of a date and its tokens, as they were inserted
    quota,      \* the row of tenant_quotas, or NoQuota
    checks,     \* per checker: where its call stands
    journal,    \* audit_logs or query_feedback
    page        \* a reader of the journal

recordVars == <<family, instant, log, links, retired, apiKeys, usage, quota, checks, journal, page>>
linkVars == <<links, retired>>
usageVars == <<usage, quota, checks>>
journalVars == <<journal, page>>

Families == [tables : {"links", "keys", "usage", "journal"}, ids : BOOLEAN, sums : BOOLEAN]

Called(call) == Len(log) < MaxCalls /\ log' = Append(log, call)

----------------------------------------------------------------------------
(* Assignments. A role or group is held until its assignment expires.       *)

Until == {Never} \cup 0..LastTick
Lasts(until) == until = Never \/ until > instant

\* ON CONFLICT (user_id, ...) DO UPDATE SET expires_at: assigned_by stays.
AssignLink(user, thing, by, until) ==
    links' = IF <<user, thing>> \in DOMAIN links
             THEN [links EXCEPT ![<<user, thing>>].until = until]
             ELSE [p \in DOMAIN links \cup {<<user, thing>>} |->
                       IF p \in DOMAIN links THEN links[p] ELSE [until |-> until, by |-> by]]

Assign(user, thing, by, until) ==
    /\ family.ids \/ <<user, thing>> \in DOMAIN links
    /\ AssignLink(user, thing, by, until)
    /\ Called([op |-> "assign", user |-> user, thing |-> thing, until |-> until])
    /\ UNCHANGED <<family, instant, retired, apiKeys, usageVars, journalVars>>

Unassign(user, thing) ==
    /\ links' = Restrict(links, DOMAIN links \ {<<user, thing>>})
    /\ Called([op |-> "remove", user |-> user, thing |-> thing, until |-> 0])
    /\ UNCHANGED <<family, instant, retired, apiKeys, usageVars, journalVars>>

\* Another service sets deleted_at: these crates never do.
Retire(thing) ==
    /\ thing \notin retired /\ retired' = retired \cup {thing}
    /\ UNCHANGED <<family, instant, log, links, apiKeys, usageVars, journalVars>>

\* get_user_roles and get_user_groups.
Holds(user) ==
    {x \in Things \ retired : <<user, x>> \in DOMAIN links /\ Lasts(links[<<user, x>>].until)}

----------------------------------------------------------------------------
(* API keys.                                                               *)

CreateKey(k, user, prefix, until) ==
    /\ family.ids /\ k \notin DOMAIN apiKeys
    /\ apiKeys' = [other \in DOMAIN apiKeys \cup {k} |->
                      IF other = k THEN [user |-> user, prefix |-> prefix, until |-> until,
                                         uses |-> 0, deleted |-> FALSE]
                      ELSE apiKeys[other]]
    /\ Called([op |-> "key", key |-> k])
    /\ UNCHANGED <<family, instant, linkVars, usageVars, journalVars>>

\* Neither statement looks whether the key is deleted or has expired.
UseKey(k) ==
    /\ k \in DOMAIN apiKeys
    /\ apiKeys' = [apiKeys EXCEPT ![k].uses = @ + 1]
    /\ Called([op |-> "use", key |-> k])
    /\ UNCHANGED <<family, instant, linkVars, usageVars, journalVars>>
DeleteKey(k) ==
    /\ k \in DOMAIN apiKeys
    /\ apiKeys' = [apiKeys EXCEPT ![k].deleted = TRUE]
    /\ Called([op |-> "delete", key |-> k])
    /\ UNCHANGED <<family, instant, linkVars, usageVars, journalVars>>

LiveKeys == {k \in DOMAIN apiKeys : ~apiKeys[k].deleted}

\* find_api_key_by_prefix answers one of these, whichever comes first.
KeysWithPrefix(prefix) == {k \in LiveKeys : apiKeys[k].prefix = prefix}
KeysOf(user) == {k \in LiveKeys : apiKeys[k].user = user}

----------------------------------------------------------------------------
(* Usage and quotas.                                                       *)

NoQuota == [limit |-> Never, enabled |-> FALSE, row |-> FALSE]
Quota(limit, enabled) == [limit |-> limit, enabled |-> enabled, row |-> TRUE]
UnlimitedQuota == Quota(Never, FALSE)

UsageDates == {usage[i].date : i \in DOMAIN usage}

\* upsert_usage adds to the row of the day.
UpsertUsage(date, amount) ==
    /\ family.ids \/ date \in UsageDates
    /\ usage' = IF date \in UsageDates
                THEN [i \in DOMAIN usage |->
                         IF usage[i].date = date
                         THEN [date |-> date, tokens |-> usage[i].tokens + amount]
                         ELSE usage[i]]
                ELSE Append(usage, [date |-> date, tokens |-> amount])
    /\ Called([op |-> "usage", date |-> date, amount |-> amount])
    /\ UNCHANGED <<family, instant, linkVars, apiKeys, quota, checks, journalVars>>

Earlier(d, e) ==
    \/ d[1] < e[1]
    \/ d[1] = e[1] /\ d[2] < e[2]
    \/ d[1] = e[1] /\ d[2] = e[2] /\ d[3] < e[3]

Epoch == <<1970, 1, 1>>     \* unwrap_or_default of a date there is not
FirstOf(year, month) == IF month \in 1..12 THEN <<year, month, 1>> ELSE Epoch

NextFirst(year, month) ==
    IF month = 12 THEN FirstOf(year + 1, 1) ELSE FirstOf(year, month + 1)

\* get_monthly_usage: from the first of the month to the day before the next.
InMonth(d, year, month) == ~Earlier(d, FirstOf(year, month)) /\ Earlier(d, NextFirst(year, month))
MonthRows(year, month) == {i \in DOMAIN usage : InMonth(usage[i].date, year, month)}

RowSum(f) == LET upto[n \in 0..Len(f)] == IF n = 0 THEN 0 ELSE upto[n - 1] + f[n] IN upto[Len(f)]
Total(some) == RowSum([i \in DOMAIN usage |-> IF i \in some THEN usage[i].tokens ELSE 0])

\* What get_total_usage answers: without rows SUM is null and the answer 0.
Sums(some) == IF family.sums \/ some = {} THEN {Total(some)} ELSE {}

IsUnlimited(q) == ~q.enabled \/ q.limit = Never
IsOverQuota(q, used) == ~IsUnlimited(q) /\ used >= q.limit

At0 == [at |-> "idle"]

\* get_or_create_quota: the look, and the insertion of the default, which fails if
\* another was faster. is_over_quota goes on to the sum.
StartCheck(c, year, month) ==
    /\ checks[c].at \in {"idle", "done"}
    /\ checks' = [checks EXCEPT ![c] =
           [at |-> IF quota.row THEN "sum" ELSE "create", quota |-> quota, year |-> year, month |-> month,
            began |-> Total(MonthRows(year, month))]]
    /\ UNCHANGED <<family, instant, log, linkVars, apiKeys, usage, quota, journalVars>>

CreateQuota(c) ==
    /\ checks[c].at = "create"
    /\ IF quota.row
       THEN /\ checks' = [checks EXCEPT ![c] = At0]
            /\ UNCHANGED quota
       ELSE /\ quota' = UnlimitedQuota
            /\ checks' = [checks EXCEPT ![c].at = "sum", ![c].quota = UnlimitedQuota]
    /\ UNCHANGED <<family, instant, log, linkVars, apiKeys, usage, journalVars>>

\* The quota was raised, or lifted.
Raised(from, to) == IsUnlimited(to) \/ (~IsUnlimited(from) /\ to.limit > from.limit)

\* What a check answers, and for whom it ends: whether the tenant was over its quota
\* when the check began, whether it is now, and whether the quota was raised meanwhile.
Verdict(s, over) ==
    LET now == Total(MonthRows(s.year, s.month))
    IN [at |-> "done", over |-> over, before |-> IsOverQuota(s.quota, s.began),
        after |-> IsOverQuota(quota, now), raised |-> Raised(s.quota, quota)]

\* The verdict on all that was ever used.
SumUpEver(c) ==
    /\ checks[c].at = "sum"
    /\ LET s == checks[c]
       IN checks' = [checks EXCEPT ![c] =
              IF IsUnlimited(s.quota) THEN Verdict(s, FALSE)
              ELSE IF Sums(MonthRows(s.year, s.month)) = {} THEN At0
              ELSE Verdict(s, IsOverQuota(s.quota, Total(DOMAIN usage)))]
    /\ UNCHANGED <<family, instant, log, linkVars, apiKeys, usage, quota, journalVars>>

\* The sum, held against the limit as it was read; a sum that cannot be read is an error.
SumUp(c) ==
    /\ checks[c].at = "sum"
    /\ LET s == checks[c]
       IN checks' = [checks EXCEPT ![c] =
              IF IsUnlimited(s.quota) THEN Verdict(s, FALSE)
              ELSE IF Sums(MonthRows(s.year, s.month)) = {} THEN At0
              ELSE Verdict(s, IsOverQuota(s.quota, Total(MonthRows(s.year, s.month))))]
    /\ UNCHANGED <<family, instant, log, linkVars, apiKeys, usage, quota, journalVars>>

\* update_quota; without a row it is an error.
UpdateQuota(limit, enabled) ==
    /\ quota.row
    /\ quota' = Quota(limit, enabled)
    /\ Called([op |-> "quota", limit |-> limit, enabled |-> enabled])
    /\ UNCHANGED <<family, instant, linkVars, apiKeys, usage, checks, journalVars>>

----------------------------------------------------------------------------
(* Journals: audit_logs and query_feedback are only ever appended to.        *)

\* builder().build(): without one of its four required fields no entry is made.
BuildEntry(author, rating, complete) ==
    /\ complete /\ family.ids
    /\ Len(journal) < MaxCalls
    /\ journal' = Append(journal, [author |-> author, rating |-> rating])
    /\ UNCHANGED <<family, instant, log, linkVars, apiKeys, usageVars, page>>

Positive(author) == {i \in DOMAIN journal : journal[i].author = author /\ journal[i].rating >= 4}
Negative(author) == {i \in DOMAIN journal : journal[i].author = author /\ journal[i].rating <= 2}
ByRating(author, r) == {i \in DOMAIN journal : journal[i].author = author /\ journal[i].rating = r}

NoPage == [at |-> "closed"]

\* The entries of a tenant or a user.
EntriesOf(author) == {i \in DOMAIN journal : journal[i].author = author}

\* ORDER BY created_at DESC LIMIT .. OFFSET ..: those with so many newer ones.
Newer(entries, i) == {j \in entries : j > i}
PageRows(entries, limit, offset) ==
    {i \in entries : Cardinality(Newer(entries, i)) \in offset..(offset + limit - 1)}

OpenPage(author) ==
    /\ page.at # "open"
    /\ page' = [at |-> "open", author |-> author, offset |-> 0, seen |-> {},
                there |-> EntriesOf(author)]
    /\ UNCHANGED <<family, instant, log, linkVars, apiKeys, usageVars, journal>>

\* A caller reads on until a page is not full.
ReadPage ==
    /\ page.at = "open"
    /\ LET found == PageRows(EntriesOf(page.author), PageLimit, page.offset)
       IN page' = [page EXCEPT !.seen = @ \cup found, !.offset = @ + PageLimit,
                               !.at = IF Cardinality(found) < PageLimit THEN "read" ELSE "open"]
    /\ UNCHANGED <<family, instant, log, linkVars, apiKeys, usageVars, journal>>

----------------------------------------------------------------------------
(* The specification.                                                      *)

Ticks ==
    /\ family.tables \in {"links", "keys"} /\ instant < LastTick
    /\ instant' = instant + 1
    /\ UNCHANGED <<family, log, linkVars, apiKeys, usageVars, journalVars>>

RecordsInit ==
    /\ family \in Families /\ instant = 0 /\ log = <<>>
    /\ links = [p \in {} |-> 0] /\ retired = {} /\ apiKeys = [k \in {} |-> 0]
    /\ usage = <<>> /\ quota = NoQuota /\ checks = [c \in Checkers |-> At0]
    /\ journal = <<>> /\ page = NoPage

LinkStep ==
    \/ \E u \in Members, x \in Things : Unassign(u, x) \/ \E a \in Admins, t \in Until : Assign(u, x, a, t)
    \/ \E x \in Things : Retire(x)
KeyStep ==
    \E k \in ApiKeys : \/ UseKey(k) \/ DeleteKey(k)
                    \/ \E u \in Members, p \in KeyPrefixes, t \in Until : CreateKey(k, u, p, t)
UsageStep ==
    \/ \E d \in Dates, n \in Amounts : UpsertUsage(d, n)
    \/ \E c \in Checkers : CreateQuota(c) \/ SumUp(c) \/ \E ym \in AskedMonths : StartCheck(c, ym[1], ym[2])
    \/ \E l \in Limits \cup {Never}, e \in BOOLEAN : UpdateQuota(l, e)
JournalStep ==
    \/ \E a \in Authors : OpenPage(a) \/ \E r \in Ratings, ok \in BOOLEAN : BuildEntry(a, r, ok)
    \/ ReadPage

RecordsNext ==
    \/ family.tables = "links" /\ LinkStep
    \/ family.tables = "keys" /\ KeyStep
    \/ family.tables = "usage" /\ UsageStep
    \/ family.tables = "journal" /\ JournalStep
    \/ Ticks
RecordsSpec == RecordsInit /\ [][RecordsNext]_recordVars

----------------------------------------------------------------------------
(* Properties.                                                             *)

CallsAbout(u, x) == {i \in DOMAIN log : log[i].user = u /\ log[i].thing = x}

\* The last call about a user and a role decides: an assignment made again counts
\* from then on with its new end, sooner or later than the old one, and what was
\* removed or has expired is not held.
LastAssignmentRules ==
    family.tables = "links" =>
        \A u \in Members, x \in Things \ retired :
            LET about == CallsAbout(u, x)
            IN x \in Holds(u) <=>
                   /\ about # {}
                   /\ log[Max(about)].op = "assign" /\ Lasts(log[Max(about)].until)

\* The lookup by prefix takes one of the keys with that prefix that no call has
\* deleted: no deleted key, and the live one where there is but one.  Of two it takes
\* either, and whether it has expired is not asked.
LoneKeyFound ==
    LET deletion(k) == [op |-> "delete", key |-> k]
    IN \A k \in DOMAIN apiKeys :
           KeysWithPrefix(apiKeys[k].prefix) =
               {other \in DOMAIN apiKeys :
                   /\ apiKeys[other].prefix = apiKeys[k].prefix
                   /\ \A i \in DOMAIN log : log[i] # deletion(other)}

\* The calls that recorded tokens of a date, and how many.
Recorded(d) == {i \in DOMAIN log : log[i].op = "usage" /\ log[i].date = d}
TokensRecorded(d) ==
    RowSum([n \in DOMAIN log |-> IF n \in Recorded(d) THEN log[n].amount ELSE 0])

\* Every token recorded is in the sum of the month of its date and in that of no
\* other month, the last of a year and the first of the next included.
NoUsageLost ==
    family.tables = "usage" =>
        /\ \A d \in Dates : Recorded(d) # {} => d \in UsageDates
        /\ \A i \in DOMAIN usage :
            LET d == usage[i].date
            IN /\ Recorded(d) # {}
               /\ usage[i].tokens = TokensRecorded(d)
               /\ \A other \in DOMAIN usage \ {i} : usage[other].date # d
               /\ \A ym \in Nat \X (1..12) \cap AskedMonths :
                      i \in MonthRows(ym[1], ym[2]) <=> <<d[1], d[2]>> = ym

\* A check that says a tenant is over its quota is right when it says so, unless the
\* quota was raised after the check had read it; and a tenant that was over its quota
\* when the check began is said to be, whatever is recorded and changed meanwhile.
VerdictsTimely ==
    \A c \in Checkers :
        checks[c].at = "done" =>
            /\ checks[c].over => checks[c].after \/ checks[c].raised
            /\ checks[c].before => checks[c].over

\* A quota that a caller set is there until another is set: the default that two
\* callers of get_or_create_quota insert at once replaces nothing.
QuotaKept ==
    family.tables = "usage" =>
        LET set == {i \in DOMAIN log : log[i].op = "quota"}
        IN set # {} => quota = Quota(log[Max(set)].limit, log[Max(set)].enabled)

\* Who pages through a journal while it grows sees every entry that was there when he
\* began: what comes in is newer and moves the rest to later pages.
PagesMissNothing == page.at = "read" => page.there \subseteq page.seen

\* The repositories answer from the calls that were made, the last one first, over ends
\* of validity, months and pages, and under concurrent first calls; a verdict on a
\* quota may be one on the quota of the call's beginning.
RecordsTruthful ==
    /\ LastAssignmentRules /\ LoneKeyFound /\ NoUsageLost
    /\ VerdictsTimely /\ QuotaKept /\ PagesMissNothing
=============================================================================
