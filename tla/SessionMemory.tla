--------------------------- MODULE SessionMemory ---------------------------
(***************************************************************************)
(* Conversation sessions of the orchestrator: SessionManager               *)
(* (memory/session.py) over RedisSessionStore (memory/store.py), called by *)
(* the routes of api/routes/sessions.py; add_message has no route yet.  A  *)
(* session is one JSON value under its key, the sessions of a user are a   *)
(* set.  Every method is a sequence of single Redis commands, with an      *)
(* await at each.  app.py gives the manager neither a summarizer nor a     *)
(* tokenizer: nothing is summarized and every token count is 0.            *)
(***************************************************************************)
EXTENDS Integers, Sequences, FiniteSetsExt

CONSTANTS
    Sessions,           \* of one user
    OldSessions,        \* those there are at the start
    SessionCallers,     \* bound: calls of a behaviour; each names its message
    MaxPerUser,         \* max_sessions_per_user
    MaxMessages,        \* max_messages
    MaxSessionFaults    \* bound on expired keys and calls that stop halfway

ASSUME SessionAssumption ==
    /\ IsFiniteSet(Sessions) /\ OldSessions \subseteq Sessions
    /\ MaxPerUser \in Nat \ {0} /\ MaxMessages \in Nat \ {0}
    /\ Cardinality(OldSessions) <= MaxPerUser
    /\ MaxSessionFaults \in Nat

VARIABLES
    session,    \* Redis: the value of each session, or GoneSession
    owned,      \* Redis: the user's set of sessions
    born,       \* the session ids that have been drawn
    visit,       \* what each call is at
    now,        \* counts the writes, for updated_at
    sent,       \* history: the messages written since the session was cleared
    contested,  \* history: sessions written from a copy that was out of date
    forgotten,  \* history: sessions that were deleted
    uncounted,  \* history: sessions that no limit needs to count
    sessionFaults

sessionVars == <<session, owned, born, visit, now, sent, contested, forgotten, uncounted,
                 sessionFaults>>

GoneSession == [live |-> FALSE, messages |-> <<>>, total |-> 0, updated |-> 0]
NewSession(t) == [live |-> TRUE, messages |-> <<>>, total |-> 0, updated |-> t]
NoVisit == [at |-> "idle", op |-> "none", id |-> {}, copy |-> GoneSession, stale |-> FALSE,
           unread |-> {}, ages |-> {}, surplus |-> {}]
SessionEnded == [NoVisit EXCEPT !.at = "end"]

SessionInit ==
    /\ session \in {v \in [Sessions -> {GoneSession} \cup {NewSession(t) : t \in 1..2}] :
                        \A s \in Sessions : v[s].live <=> s \in OldSessions}
    /\ owned = OldSessions /\ born = OldSessions
    /\ visit = [c \in SessionCallers |-> NoVisit]
    /\ now = 2
    /\ sent = [s \in Sessions |-> <<>>]
    /\ contested = {} /\ forgotten = {} /\ uncounted = {}
    /\ sessionFaults = 0

Reached(c, stage) == visit[c].at = stage
To(c, value) == visit' = [visit EXCEPT ![c] = value]

\* The value of s changes to v: a copy that another call holds is out of date.
Put(c, s, v, next) ==
    /\ session' = [session EXCEPT ![s] = v]
    /\ visit' = [d \in SessionCallers |->
            IF d = c THEN next
            ELSE IF s \in visit[d].id THEN [visit[d] EXCEPT !.stale = TRUE] ELSE visit[d]]

----------------------------------------------------------------------------
(* create_session.                                                         *)

CreateSession(c, s) ==
    /\ Reached(c, "idle") /\ s \notin born
    /\ Put(c, s, NewSession(now + 1), [NoVisit EXCEPT !.at = "sadd", !.op = "create", !.id = {s}])
    /\ born' = born \cup {s} /\ now' = now + 1
    /\ UNCHANGED <<owned, sent, contested, forgotten, uncounted, sessionFaults>>

\* _add_user_session: SADD.
AddToUser(c) ==
    /\ Reached(c, "sadd")
    /\ owned' = owned \cup visit[c].id
    /\ To(c, [visit[c] EXCEPT !.at = "list"])
    /\ UNCHANGED <<session, born, now, sent, contested, forgotten, uncounted, sessionFaults>>

\* get_user_sessions: SMEMBERS, then GET by GET.
ListSessions(c) ==
    /\ Reached(c, "list")
    /\ To(c, [visit[c] EXCEPT !.at = "read", !.unread = owned])
    /\ UNCHANGED <<session, owned, born, now, sent, contested, forgotten, uncounted, sessionFaults>>

ReadListed(c, s) ==
    /\ Reached(c, "read") /\ s \in visit[c].unread
    /\ To(c, [visit[c] EXCEPT !.unread = @ \ {s},
                             !.ages = IF session[s].live
                                      THEN @ \cup {<<s, session[s].updated>>} ELSE @])
    /\ UNCHANGED <<session, owned, born, now, sent, contested, forgotten, uncounted, sessionFaults>>

\* Mutant: one session more is kept.
EnforceLimitLate(c) ==
    /\ Reached(c, "read") /\ visit[c].unread = {}
    /\ \E kept \in SUBSET visit[c].ages :
           /\ Cardinality(kept) <= MaxPerUser + 1
           /\ kept # visit[c].ages => Cardinality(kept) = MaxPerUser + 1
           /\ \A a \in kept, b \in visit[c].ages \ kept : a[2] >= b[2]
           /\ LET surplus == {a[1] : a \in visit[c].ages \ kept}
              IN To(c, IF surplus = {} THEN SessionEnded
                       ELSE [visit[c] EXCEPT !.at = "drop", !.ages = {}, !.surplus = surplus])
    /\ UNCHANGED <<session, owned, born, now, sent, contested, forgotten, uncounted, sessionFaults>>

\* _enforce_session_limit: all but the newest are deleted, of a tie any.
EnforceLimit(c) ==
    /\ Reached(c, "read") /\ visit[c].unread = {}
    /\ \E kept \in SUBSET visit[c].ages :
           /\ Cardinality(kept) <= MaxPerUser
           /\ kept # visit[c].ages => Cardinality(kept) = MaxPerUser
           /\ \A a \in kept, b \in visit[c].ages \ kept : a[2] >= b[2]
           /\ LET surplus == {a[1] : a \in visit[c].ages \ kept}
              IN To(c, IF surplus = {} THEN SessionEnded
                       ELSE [visit[c] EXCEPT !.at = "drop", !.ages = {}, !.surplus = surplus])
    /\ UNCHANGED <<session, owned, born, now, sent, contested, forgotten, uncounted, sessionFaults>>

----------------------------------------------------------------------------
(* delete_session, of the route and of the limit.                          *)

DeleteSession(c, s) ==
    /\ Reached(c, "idle") /\ s \in born
    /\ To(c, [NoVisit EXCEPT !.at = "drop", !.op = "delete", !.surplus = {s}])
    /\ UNCHANGED <<session, owned, born, now, sent, contested, forgotten, uncounted, sessionFaults>>

AfterDrop(c, s) ==
    IF visit[c].surplus = {s} THEN SessionEnded
    ELSE [visit[c] EXCEPT !.at = "drop", !.surplus = @ \ {s}]

\* GET and DEL: a session that is gone is not found, and stays in the set.
DropSession(c, s) ==
    /\ Reached(c, "drop") /\ s \in visit[c].surplus
    /\ IF session[s].live
       THEN /\ Put(c, s, GoneSession, [visit[c] EXCEPT !.at = "srem", !.unread = {s}])
            /\ forgotten' = forgotten \cup {s}
       ELSE To(c, AfterDrop(c, s)) /\ UNCHANGED <<session, forgotten>>
    /\ UNCHANGED <<owned, born, now, sent, contested, uncounted, sessionFaults>>

RemoveFromUser(c, s) ==
    /\ Reached(c, "srem") /\ s \in visit[c].unread
    /\ owned' = owned \ {s}
    /\ To(c, [AfterDrop(c, s) EXCEPT !.unread = {}])
    /\ UNCHANGED <<session, born, now, sent, contested, forgotten, uncounted, sessionFaults>>

----------------------------------------------------------------------------
(* add_message and clear_session: GET, a change to the copy, SET.          *)

ReadSession(c, op, s) ==
    /\ Reached(c, "idle") /\ s \in born
    /\ To(c, IF session[s].live
             THEN [NoVisit EXCEPT !.at = "write", !.op = op, !.id = {s}, !.copy = session[s]]
             ELSE SessionEnded)
    /\ UNCHANGED <<session, owned, born, now, sent, contested, forgotten, uncounted, sessionFaults>>

\* _enforce_message_limit.
LastMessages(messages) ==
    SubSeq(messages, IF Len(messages) > MaxMessages THEN Len(messages) - MaxMessages + 1 ELSE 1,
           Len(messages))

\* SET, whatever the key holds by now, and its time to live anew.
Save(c, s, value, messages) ==
    /\ Put(c, s, [value EXCEPT !.updated = now + 1], SessionEnded)
    /\ now' = now + 1
    /\ sent' = [sent EXCEPT ![s] = messages]
    /\ contested' = IF visit[c].stale THEN contested \cup {s} ELSE contested
    /\ uncounted' = IF visit[c].stale THEN uncounted \cup {s} ELSE uncounted
    /\ UNCHANGED <<owned, born, forgotten, sessionFaults>>

AddMessage(c, s) ==
    /\ Reached(c, "write") /\ visit[c].op = "add" /\ s \in visit[c].id
    /\ Save(c, s, [visit[c].copy EXCEPT !.messages = LastMessages(Append(@, c)), !.total = @ + 1],
            Append(sent[s], c))

ClearSession(c, s) ==
    /\ Reached(c, "write") /\ visit[c].op = "clear" /\ s \in visit[c].id
    /\ Save(c, s, [visit[c].copy EXCEPT !.messages = <<>>, !.total = 0], <<>>)

----------------------------------------------------------------------------
(* Around the calls.                                                       *)

Fault == sessionFaults < MaxSessionFaults /\ sessionFaults' = sessionFaults + 1

\* A session lives session_ttl after its last write, the user's set twice that
\* after the last session was created.
ExpireSession(s) ==
    /\ session[s].live
    /\ Fault
    /\ session' = [session EXCEPT ![s] = GoneSession]
    /\ visit' = [d \in SessionCallers |->
            IF s \in visit[d].id THEN [visit[d] EXCEPT !.stale = TRUE] ELSE visit[d]]
    /\ UNCHANGED <<owned, born, now, sent, contested, forgotten, uncounted>>

ExpireUserSet ==
    /\ owned # {}
    /\ Fault
    /\ uncounted' = uncounted \cup owned
    /\ owned' = {}
    /\ UNCHANGED <<session, born, visit, now, sent, contested, forgotten>>

\* An error of Redis, or the end of the process.
CallStops(c) ==
    /\ visit[c].at \notin {"idle", "end"}
    /\ Fault
    /\ To(c, SessionEnded)
    /\ uncounted' = uncounted \cup (IF visit[c].op = "create" THEN visit[c].id ELSE {})
    /\ UNCHANGED <<session, owned, born, now, sent, contested, forgotten>>

SessionStep(c) ==
    \/ AddToUser(c) \/ ListSessions(c) \/ EnforceLimit(c)
    \/ \E s \in Sessions :
        \/ CreateSession(c, s) \/ ReadListed(c, s)
        \/ DeleteSession(c, s) \/ DropSession(c, s) \/ RemoveFromUser(c, s)
        \/ \E op \in {"add", "clear"} : ReadSession(c, op, s)
        \/ AddMessage(c, s) \/ ClearSession(c, s)

SessionNext ==
    \/ \E c \in SessionCallers : SessionStep(c) \/ CallStops(c)
    \/ \E s \in Sessions : ExpireSession(s)
    \/ ExpireUserSet

SessionSpec == SessionInit /\ [][SessionNext]_sessionVars

----------------------------------------------------------------------------
(* Properties.                                                             *)

\* A session holds the last of the messages it was given, and counts them all,
\* unless one call wrote it from a copy that another had overtaken.
MessagesKept ==
    \A s \in Sessions \ contested : session[s].live =>
        session[s].messages = LastMessages(sent[s]) /\ session[s].total = Len(sent[s])

\* Only such a call brings a deleted session back.
DeletedIsForgotten == \A s \in forgotten \ contested : ~session[s].live

\* When no session is being created, a user has at most max_sessions_per_user,
\* however the creations overlapped; not counting what was written back, what was
\* created by a call that stopped, and what the user's set forgot when it expired.
SessionsLimited ==
    (\A c \in SessionCallers : visit[c].op # "create")
        => Cardinality({s \in Sessions \ uncounted : session[s].live}) <= MaxPerUser

\* The sessions keep what they were given, and are no more than they may be.
SessionsTruthful == MessagesKept /\ DeletedIsForgotten /\ SessionsLimited
=============================================================================
