--------------------------- MODULE MCOrchestrator ---------------------------
(* Instances for TLC of what the orchestrator keeps in Redis: the answer     *)
(* cache, the token usage and the conversation sessions. They share nothing: *)
(* a behaviour plays one of them, its scene, while the others rest.          *)
EXTENDS AnswerCache, UsageMeter, SessionMemory

CONSTANTS k1, m1, m2, f1, f2

VARIABLE scene

orchVars == <<scene, vars, countVars, sessionVars>>

Scenes == {"answers", "usage", "sessions"}

\* All tasks answer the same query, for which retrieval may find any document.
MCQuery == [r \in Requests |-> k1]
MCRelevant == [r \in Requests |-> Docs]

\* Bound: of the queries and the flushes three have begun, two where no limit is set.
FewMeters ==
    Cardinality({f \in Flushers : flush[f].at # "idle"})
        + Cardinality({r \in Meters : query[r].at # "idle"}) <= IF tokenLimit = NoLimit THEN 2 ELSE 3

\* Bound: the queries are alike and so are the flush jobs, of those that have not begun
\* the first goes first.
FirstGoesFirst ==
    /\ query[m1].at = "idle" => query'[m2].at = "idle"
    /\ flush[f1].at = "idle" /\ flush[f2].at = "idle" => flush'[f2].at = "idle"

OrchInit ==
    /\ scene \in Scenes
    /\ Init
    /\ UsageInit /\ (scene # "usage" => tokenLimit # NoLimit)
    /\ SessionInit /\ (scene # "sessions" => \A s \in OldSessions : session[s].updated = 1)

\* Only the scene s moves.
Alone(s) ==
    /\ scene = s /\ UNCHANGED scene
    /\ IF s = "answers" THEN TRUE ELSE UNCHANGED vars
    /\ IF s = "usage" THEN TRUE ELSE UNCHANGED countVars
    /\ IF s = "sessions" THEN TRUE ELSE UNCHANGED sessionVars

OrchNext ==
    \/ Alone("answers") /\ Next
    \/ Alone("usage") /\ UsageNext /\ FewMeters' /\ FirstGoesFirst
    \/ Alone("sessions") /\ SessionNext

\* The fairness of the answer cache, where it plays.
OrchFairness ==
    /\ WF_orchVars(Alone("answers") /\ Tick)
    /\ \A r \in Requests : WF_orchVars(Alone("answers") /\ RequestStep(r))

OrchSpec == OrchInit /\ [][OrchNext]_orchVars /\ OrchFairness
=============================================================================
