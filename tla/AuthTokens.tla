----------------------------- MODULE AuthTokens -----------------------------
(***************************************************************************)
(* Tokens and their revocation: rag-auth's JwtHandler (handler.rs) and the *)
(* two TokenBlocklists (blocklist.rs), with service tokens (service.rs).   *)
(*                                                                         *)
(* Several services, each with a handler, share a key. A handler that has  *)
(* a signing key issues, every one verifies; its blocklist is one it       *)
(* shares, one of its own or none. A token is known by its jti, and its    *)
(* signature is taken to be right. Refreshing awaits twice: the look into  *)
(* the blocklist and the entry made in it.                                 *)
(***************************************************************************)
EXTENDS Integers, Sequences, FiniteSets

CONSTANTS
    Handlers, Signers,      \* those with an encoding key
    Layouts,                \* the deployments: blocklist of each handler, or NoList
    Lists, SharedLists, NoList,     \* lists kept in Redis; the others are in memory
    AccessLife, RefreshLife, ServiceLife, Leeway,   \* seconds
    Clients,                \* callers of refresh_tokens
    TargetServices, Endpoints,
    MaxLogins, MaxServices, MaxTokens, LastSecond   \* bounds: pairs of a login,
                            \* service tokens, tokens in all, the clock

\* JwtConfig: durations in seconds, the leeway of the validation among them.
JwtConfigured == {AccessLife, RefreshLife, Leeway} \subseteq Nat

ASSUME TokensAssumption ==
    /\ JwtConfigured
    /\ Signers \subseteq Handlers /\ SharedLists \subseteq Lists
    /\ NoList \notin Lists /\ Layouts \subseteq [Handlers -> Lists \cup {NoList}]
    /\ {ServiceLife, LastSecond, MaxTokens, MaxLogins, MaxServices} \subseteq Nat

VARIABLES
    listOf,     \* the deployment
    clock,
    tokens,     \* the tokens issued; a jti is an index
    blocked,    \* per list: the entries, and when each goes
    redisUp,
    revoked,    \* per list: the tokens a caller was told are revoked
    refreshing  \* per client: what its refresh_tokens does

tokenVars == <<listOf, clock, tokens, blocked, redisUp, revoked, refreshing>>

----------------------------------------------------------------------------
(* Tokens.                                                                 *)

Jtis == DOMAIN tokens
Life == [access |-> AccessLife, refresh |-> RefreshLife, service |-> ServiceLife]

\* create_token and create_service_token. Metadata: email and name.
Token(type, metadata, audience, endpoints) ==
    [type |-> type, exp |-> clock + Life[type], metadata |-> metadata,
     audience |-> audience, endpoints |-> endpoints]

Pair(metadata) == <<Token("access", metadata, "api", {}), Token("refresh", metadata, "api", {})>>

Expired(j) == tokens[j].exp + Leeway < clock

\* verify_token: user claims of the expected type, still valid.
Verified(j, expected) ==
    /\ tokens[j].type \in {"access", "refresh"}     \* a service token has no sub
    /\ ~Expired(j)
    /\ expected \in {"any", tokens[j].type}

\* can_access_endpoint: no list allows all.
CanAccess(j, endpoint) ==
    \/ endpoint = "any"
    \/ tokens[j].endpoints = {} \/ endpoint \in tokens[j].endpoints

VerifiedService(j, audience, endpoint) ==
    /\ tokens[j].type = "service" /\ tokens[j].audience = audience
    /\ ~Expired(j) /\ CanAccess(j, endpoint)

----------------------------------------------------------------------------
(* Blocklists.                                                             *)

ListUp(list) == list \in SharedLists => redisUp

\* is_blocked: the entry is there and has not gone.
IsBlocked(list, j) == j \in DOMAIN blocked[list] /\ blocked[list][j] > clock

\* The look that counts a list it cannot reach as empty.
NotBlockedOrDown(h, j) ==
    LET list == listOf[h]
    IN list # NoList /\ ListUp(list) => ~IsBlocked(list, j)

\* The second half of verify_token_async: without the list there is no answer.
NotBlocked(h, j) ==
    LET list == listOf[h]
    IN list # NoList => ListUp(list) /\ ~IsBlocked(list, j)

\* verify_token_async and verify_service_token_async, which change nothing.
Accepts(h, j, expected) == Verified(j, expected) /\ NotBlocked(h, j)
AcceptsService(h, j, audience, endpoint) ==
    VerifiedService(j, audience, endpoint) /\ NotBlocked(h, j)

\* revoke_token computes the time the token has left; block keeps it that long.
Remaining(j) == tokens[j].exp - clock
BlockedFor(list, j, seconds) ==
    [blocked EXCEPT ![list] =
        [i \in DOMAIN @ \cup {j} |-> IF i = j THEN clock + seconds ELSE @[i]]]

\* Service claims are no TokenClaims: the decoding fails.
Revocable(h, j) ==
    listOf[h] # NoList /\ tokens[j].type # "service"

\* revoke_token: nothing to do for a token that has expired. refresh_tokens does
\* not look at the answer.
Revokes(h, j) ==
    IF Revocable(h, j) /\ (Remaining(j) <= 0 \/ ListUp(listOf[h]))
    THEN /\ revoked' = [revoked EXCEPT ![listOf[h]] = @ \cup {j}]
         /\ blocked' = IF Remaining(j) > 0 THEN BlockedFor(listOf[h], j, Remaining(j)) ELSE blocked
    ELSE UNCHANGED <<revoked, blocked>>

----------------------------------------------------------------------------
(* Operations.                                                             *)

Idle == [stage |-> "idle"]

TokInit ==
    /\ listOf \in Layouts /\ clock = 0 /\ tokens = <<>> /\ redisUp = TRUE
    /\ blocked = [l \in Lists |-> [j \in {} |-> 0]]
    /\ revoked = [l \in Lists |-> {}]
    /\ refreshing = [c \in Clients |-> Idle]

Issue(ts) ==
    /\ Len(tokens) + Len(ts) <= MaxTokens
    /\ tokens' = tokens \o ts

Count(type, metadata) ==
    Cardinality({j \in Jtis : tokens[j].type = type /\ tokens[j].metadata = metadata})

CreatePair(h) ==
    /\ h \in Signers /\ Count("access", TRUE) < MaxLogins
    /\ Issue(Pair(TRUE))
    /\ UNCHANGED <<listOf, clock, blocked, redisUp, revoked, refreshing>>

CreateService(h, audience, endpoints) ==
    /\ h \in Signers /\ Count("service", FALSE) < MaxServices
    /\ Issue(<<Token("service", FALSE, audience, endpoints)>>)
    /\ UNCHANGED <<listOf, clock, blocked, redisUp, revoked, refreshing>>

RevokeToken(h, j) ==
    /\ Revokes(h, j)
    /\ UNCHANGED <<listOf, clock, tokens, redisUp, refreshing>>

\* refresh_tokens up to the revocation: the verification of the old token.
RefreshStart(c, h, j) ==
    /\ refreshing[c] = Idle
    /\ Accepts(h, j, "refresh")
    /\ refreshing' = [refreshing EXCEPT ![c] = [stage |-> "verified", handler |-> h, jti |-> j]]
    /\ UNCHANGED <<listOf, clock, tokens, blocked, redisUp, revoked>>

\* The revocation, whose answer is dropped, and the new pair: subject, tenant,
\* roles, groups and permissions are kept, email and name are not. A handler that
\* cannot sign fails here, with the old token spent.
RefreshFinish(c) ==
    /\ refreshing[c].stage = "verified"
    /\ LET h == refreshing[c].handler
       IN /\ Revokes(h, refreshing[c].jti)
          /\ IF h \in Signers THEN Issue(Pair(FALSE)) ELSE UNCHANGED tokens
    /\ refreshing' = [refreshing EXCEPT ![c] = Idle]
    /\ UNCHANGED <<listOf, clock, redisUp>>

Forgetting(f, j) == [i \in DOMAIN f \ {j} |-> f[i]]

Unblock(h, j) ==
    LET list == listOf[h]
    IN /\ list # NoList /\ ListUp(list)
       /\ blocked' = [blocked EXCEPT ![list] = Forgetting(@, j)]
       /\ revoked' = [revoked EXCEPT ![list] = @ \ {j}]
       /\ UNCHANGED <<listOf, clock, tokens, redisUp, refreshing>>

\* Entries go when their time is over: by TTL in Redis, by cleanup in memory.
Expire(list) ==
    /\ \E j \in DOMAIN blocked[list] : blocked[list][j] <= clock
    /\ blocked' = [blocked EXCEPT ![list] = [j \in {i \in DOMAIN @ : @[i] > clock} |-> @[j]]]
    /\ UNCHANGED <<listOf, clock, tokens, redisUp, revoked, refreshing>>

\* A service is restarted: a list in memory is empty again, its refreshes are gone.
Restart(h) ==
    LET list == listOf[h]
    IN /\ IF list \in Lists \ SharedLists
          THEN /\ blocked' = [blocked EXCEPT ![list] = [j \in {} |-> 0]]
               /\ revoked' = [revoked EXCEPT ![list] = {}]
          ELSE UNCHANGED <<blocked, revoked>>
       /\ refreshing' = [c \in Clients |-> IF refreshing[c] # Idle /\ refreshing[c].handler = h
                                            THEN Idle ELSE refreshing[c]]
       /\ UNCHANGED <<listOf, clock, tokens, redisUp>>

RedisFails == redisUp /\ redisUp' = FALSE
RedisReturns == ~redisUp /\ redisUp' = TRUE
Redis ==
    /\ RedisFails \/ RedisReturns
    /\ UNCHANGED <<listOf, clock, tokens, blocked, revoked, refreshing>>

Passes ==
    /\ clock < LastSecond /\ clock' = clock + 1
    /\ UNCHANGED <<listOf, tokens, blocked, redisUp, revoked, refreshing>>

TokNext ==
    \/ \E h \in Handlers : CreatePair(h) \/ Restart(h)
    \/ \E h \in Handlers, a \in TargetServices, es \in SUBSET Endpoints : CreateService(h, a, es)
    \/ \E h \in Handlers, j \in Jtis : RevokeToken(h, j) \/ Unblock(h, j)
    \/ \E c \in Clients, h \in Handlers, j \in Jtis : RefreshStart(c, h, j)
    \/ \E c \in Clients : RefreshFinish(c)
    \/ \E list \in Lists : Expire(list)
    \/ Redis \/ Passes

TokSpec == TokInit /\ [][TokNext]_tokenVars

----------------------------------------------------------------------------
(* Properties.                                                             *)

\* No entry outlasts its token, and none goes before it: what a caller was told is
\* revoked is in the list for as long as it has not expired.
EntriesLastAsTokens ==
    \A list \in Lists :
        /\ \A j \in DOMAIN blocked[list] : blocked[list][j] = tokens[j].exp
        /\ \A j \in revoked[list] : clock < tokens[j].exp => IsBlocked(list, j)

\* Revoked by whichever service, directly or because it was refreshed, a token is
\* refused until its expiry by all that share the list, whatever fails and restarts
\* in between: only a refresh that had verified it before is still carried out.
RevokedStaysOut ==
    \A h \in Handlers, j \in Jtis :
        listOf[h] # NoList /\ j \in revoked[listOf[h]] /\ clock < tokens[j].exp =>
            /\ ~Accepts(h, j, "any")
            /\ \A a \in TargetServices, e \in Endpoints : ~AcceptsService(h, j, a, e)

\* A revocation lasts exactly as long as its token.
RevocationHolds == EntriesLastAsTokens /\ RevokedStaysOut
=============================================================================
