---------------------------- MODULE StoresProofs ----------------------------
(***************************************************************************)
(* Proofs about the components that keep data: the tokens and their        *)
(* blocklist, the re-embedding jobs, the tenants' configuration, the       *)
(* shared caches, the stores of the search and the repositories of the     *)
(* database, for any values of their constants.                            *)
(***************************************************************************)
EXTENDS Reembed, AuthTokens, TenantConfig, SharedCache, SearchStores, Records,
        FiniteSetTheorems, FunctionTheorems, SequenceTheorems, WellFoundedInduction, TLAPS

----------------------------------------------------------------------------
(* Tokens and their blocklist.                                             *)

\* The types, as far as the properties depend on them.
RefreshOK(r) ==
    r # Idle => r.stage = "verified" /\ r.handler \in Handlers /\ r.jti \in Jtis
TokTypeOK ==
    /\ listOf \in [Handlers -> Lists \cup {NoList}]
    /\ clock \in Nat
    /\ tokens \in Seq([type : {"access", "refresh", "service"}, exp : Nat, metadata : BOOLEAN,
                       audience : {"api"} \cup TargetServices, endpoints : SUBSET Endpoints])
    /\ blocked = [l \in Lists |-> blocked[l]]
    /\ \A l \in Lists : DOMAIN blocked[l] \subseteq Jtis
    /\ redisUp \in BOOLEAN
    /\ revoked \in [Lists -> SUBSET Jtis]
    /\ DOMAIN refreshing = Clients /\ \A c \in Clients : RefreshOK(refreshing[c])

TokenInv == TokTypeOK /\ EntriesLastAsTokens

\* The constants, as the proofs use them.
LEMMA TokenNumbers ==
    /\ AccessLife \in Nat /\ RefreshLife \in Nat /\ ServiceLife \in Nat
    /\ Signers \subseteq Handlers /\ NoList \notin Lists
    /\ Layouts \subseteq [Handlers -> Lists \cup {NoList}]
BY TokensAssumption DEF JwtConfigured

TokenValues ==
    [type : {"access", "refresh", "service"}, exp : Nat, metadata : BOOLEAN,
     audience : {"api"} \cup TargetServices, endpoints : SUBSET Endpoints]

\* What a token is made of.
LEMMA TokensAre ==
    ASSUME TokenInv, NEW j \in Jtis
    PROVE  tokens[j] \in TokenValues /\ tokens[j].exp \in Nat
<1>1. tokens \in Seq(TokenValues)
  BY DEF TokenInv, TokTypeOK, TokenValues
<1>2. tokens[j] \in TokenValues
  BY <1>1 DEF Jtis
<1> QED
  BY <1>2 DEF TokenValues

\* Tokens that are issued join those there are.
LEMMA IssueHolds ==
    ASSUME TokenInv, NEW ts \in Seq(TokenValues), Issue(ts)
    PROVE  /\ tokens' \in Seq(TokenValues) /\ Jtis \subseteq Jtis'
           /\ \A j \in Jtis : tokens'[j] = tokens[j]
<1>1. tokens \in Seq(TokenValues) /\ tokens' = tokens \o ts
  BY DEF TokenInv, TokTypeOK, TokenValues, Issue
<1> QED
  BY <1>1 DEF Jtis

\* Tokens that the issuer and a refresh make are tokens.
LEMMA TokensMade ==
    ASSUME TokenInv
    PROVE  /\ \A m \in BOOLEAN : Pair(m) \in Seq(TokenValues)
           /\ \A a \in TargetServices, es \in SUBSET Endpoints :
                <<Token("service", FALSE, a, es)>> \in Seq(TokenValues)
<1>1. clock \in Nat
  BY DEF TokenInv, TokTypeOK
<1>2. /\ clock + Life["access"] \in Nat /\ clock + Life["refresh"] \in Nat
      /\ clock + Life["service"] \in Nat
  BY <1>1, TokenNumbers DEF Life
<1>3. \A m \in BOOLEAN : Token("access", m, "api", {}) \in TokenValues
                          /\ Token("refresh", m, "api", {}) \in TokenValues
  BY <1>2 DEF Token, TokenValues
<1>4. \A a \in TargetServices, es \in SUBSET Endpoints :
          Token("service", FALSE, a, es) \in TokenValues
  BY <1>2 DEF Token, TokenValues
<1>5. ASSUME NEW x \in TokenValues, NEW y \in TokenValues
      PROVE  <<x, y>> \in Seq(TokenValues) /\ <<x>> \in Seq(TokenValues)
  OBVIOUS
<1>6. \A m \in BOOLEAN : Pair(m) \in Seq(TokenValues)
  BY <1>3, <1>5 DEF Pair
<1> QED
  BY <1>4, <1>5, <1>6

\* A revocation that is answered enters the token for as long as it has left.
LEMMA RevokesHolds ==
    ASSUME TokenInv, NEW h \in Handlers, NEW j \in Jtis, Revokes(h, j)
    PROVE  /\ blocked' = [l \in Lists |-> blocked'[l]]
           /\ \A l \in Lists :
                /\ DOMAIN blocked'[l] \subseteq Jtis
                /\ \A i \in DOMAIN blocked'[l] : blocked'[l][i] = tokens[i].exp
           /\ revoked' \in [Lists -> SUBSET Jtis]
           /\ \A l \in Lists : \A i \in revoked'[l] : clock < tokens[i].exp =>
                  i \in DOMAIN blocked'[l] /\ blocked'[l][i] > clock
<1> DEFINE list == listOf[h]
<1>1. /\ blocked = [l \in Lists |-> blocked[l]] /\ \A l \in Lists : DOMAIN blocked[l] \subseteq Jtis
      /\ \A l \in Lists : \A i \in DOMAIN blocked[l] : blocked[l][i] = tokens[i].exp
      /\ revoked \in [Lists -> SUBSET Jtis]
      /\ \A l \in Lists : \A i \in revoked[l] : clock < tokens[i].exp =>
             i \in DOMAIN blocked[l] /\ blocked[l][i] > clock
      /\ clock \in Nat /\ tokens[j].exp \in Nat
  BY TokensAre DEF TokenInv, TokTypeOK, EntriesLastAsTokens, IsBlocked
<1>2. CASE UNCHANGED <<revoked, blocked>>
  BY <1>1, <1>2
<1>3. CASE /\ list \in Lists /\ revoked' = [revoked EXCEPT ![list] = @ \cup {j}]
           /\ Remaining(j) > 0 /\ blocked' = BlockedFor(list, j, Remaining(j))
  <2>1. clock + Remaining(j) = tokens[j].exp
    BY <1>1 DEF Remaining
  <2>2. blocked' = [blocked EXCEPT ![list] =
            [i \in DOMAIN blocked[list] \cup {j} |->
                IF i = j THEN tokens[j].exp ELSE blocked[list][i]]]
    BY <1>3, <2>1 DEF BlockedFor
  <2> HIDE DEF list
  <2>3. /\ blocked' = [l \in Lists |-> blocked'[l]]
        /\ \A l \in Lists \ {list} : blocked'[l] = blocked[l]
        /\ DOMAIN blocked'[list] = DOMAIN blocked[list] \cup {j}
        /\ \A i \in DOMAIN blocked[list] \cup {j} :
               blocked'[list][i] = IF i = j THEN tokens[j].exp ELSE blocked[list][i]
    BY <1>1, <1>3, <2>2
  <2>4. /\ revoked' \in [Lists -> SUBSET Jtis] /\ revoked'[list] = revoked[list] \cup {j}
        /\ \A l \in Lists \ {list} : revoked'[l] = revoked[l]
    BY <1>1, <1>3
  <2>5. \A l \in Lists :
          /\ DOMAIN blocked'[l] \subseteq Jtis
          /\ \A i \in DOMAIN blocked'[l] : blocked'[l][i] = tokens[i].exp
    BY <1>1, <1>3, <2>3
  <2>6. \A l \in Lists : \A i \in revoked'[l] : clock < tokens[i].exp =>
            i \in DOMAIN blocked'[l] /\ blocked'[l][i] > clock
    BY <1>1, <1>3, <2>3, <2>4
  <2> QED
    BY <2>3, <2>4, <2>5, <2>6
<1>4. CASE /\ list \in Lists /\ revoked' = [revoked EXCEPT ![list] = @ \cup {j}]
           /\ ~(Remaining(j) > 0) /\ blocked' = blocked
  <2> HIDE DEF list
  <2>1. ~(clock < tokens[j].exp)
    BY <1>1, <1>4 DEF Remaining
  <2>2. /\ revoked' \in [Lists -> SUBSET Jtis] /\ revoked'[list] = revoked[list] \cup {j}
        /\ \A l \in Lists \ {list} : revoked'[l] = revoked[l]
    BY <1>1, <1>4
  <2> QED
    BY <1>1, <1>4, <2>1, <2>2
<1>5. Revocable(h, j) => list \in Lists
  BY DEF Revocable, TokenInv, TokTypeOK
<1> QED
  BY <1>2, <1>3, <1>4, <1>5 DEF Revokes

\* Every step preserves the invariant of the tokens.
LEMMA TokenInvStep ==
    ASSUME TokenInv, [TokNext]_tokenVars
    PROVE  TokenInv'
<1>0. /\ listOf \in [Handlers -> Lists \cup {NoList}] /\ clock \in Nat
      /\ tokens \in Seq(TokenValues)
      /\ blocked = [l \in Lists |-> blocked[l]]
      /\ \A l \in Lists : DOMAIN blocked[l] \subseteq Jtis
      /\ redisUp \in BOOLEAN
      /\ revoked \in [Lists -> SUBSET Jtis]
      /\ DOMAIN refreshing = Clients /\ \A c \in Clients : RefreshOK(refreshing[c])
  BY DEF TokenInv, TokTypeOK, TokenValues
<1>00. /\ \A l \in Lists : \A j \in DOMAIN blocked[l] : blocked[l][j] = tokens[j].exp
       /\ \A l \in Lists : \A j \in revoked[l] : clock < tokens[j].exp => 
              j \in DOMAIN blocked[l] /\ blocked[l][j] > clock
       /\ \A j \in Jtis : tokens[j].exp \in Nat
  <2>1. \A j \in Jtis : tokens[j].exp \in Nat
    BY TokensAre
  <2> QED
    BY <2>1 DEF TokenInv, EntriesLastAsTokens, IsBlocked
<1>1. ASSUME NEW ts \in Seq(TokenValues), Issue(ts),
             UNCHANGED <<listOf, clock, blocked, redisUp, revoked, refreshing>>
      PROVE  TokenInv'
  <2>1. /\ tokens' \in Seq(TokenValues) /\ Jtis \subseteq Jtis'
        /\ \A j \in Jtis : tokens'[j] = tokens[j]
    BY <1>1, IssueHolds
  <2>2. TokTypeOK'
    BY <1>0, <1>1, <2>1 DEF TokTypeOK, RefreshOK, TokenValues
  <2>3. EntriesLastAsTokens'
    BY <1>0, <1>00, <1>1, <2>1 DEF EntriesLastAsTokens, IsBlocked
  <2> QED
    BY <2>2, <2>3 DEF TokenInv
<1>2. ASSUME NEW h \in Handlers, CreatePair(h) PROVE TokenInv'
  BY <1>1, <1>2, TokensMade DEF CreatePair
<1>3. ASSUME NEW h \in Handlers, NEW a \in TargetServices, NEW es \in SUBSET Endpoints,
             CreateService(h, a, es)
      PROVE  TokenInv'
  BY <1>1, <1>3, TokensMade DEF CreateService
<1>4. ASSUME NEW h \in Handlers, NEW j \in Jtis, RevokeToken(h, j) PROVE TokenInv'
  <2>1. UNCHANGED <<listOf, clock, tokens, redisUp, refreshing>> /\ Revokes(h, j)
    BY <1>4 DEF RevokeToken
  <2>2. /\ blocked' = [l \in Lists |-> blocked'[l]]
        /\ \A l \in Lists :
             /\ DOMAIN blocked'[l] \subseteq Jtis
             /\ \A i \in DOMAIN blocked'[l] : blocked'[l][i] = tokens[i].exp
        /\ revoked' \in [Lists -> SUBSET Jtis]
        /\ \A l \in Lists : \A i \in revoked'[l] : clock < tokens[i].exp =>
               i \in DOMAIN blocked'[l] /\ blocked'[l][i] > clock
    BY <1>4, <2>1, RevokesHolds
  <2> QED
    BY <1>0, <2>1, <2>2
       DEF TokenInv, TokTypeOK, EntriesLastAsTokens, IsBlocked, RefreshOK, Jtis, TokenValues
<1>5. ASSUME NEW c \in Clients, NEW h \in Handlers, NEW j \in Jtis, RefreshStart(c, h, j)
      PROVE  TokenInv'
  <2>1. /\ UNCHANGED <<listOf, clock, tokens, blocked, redisUp, revoked>>
        /\ refreshing' = [refreshing EXCEPT ![c] =
                             [stage |-> "verified", handler |-> h, jti |-> j]]
    BY <1>5 DEF RefreshStart
  <2>2. DOMAIN refreshing' = Clients /\ \A d \in Clients : RefreshOK(refreshing[d])'
    BY <1>0, <2>1 DEF RefreshOK, Jtis
  <2> QED
    BY <1>0, <1>00, <2>1, <2>2
       DEF TokenInv, TokTypeOK, EntriesLastAsTokens, IsBlocked, Jtis, TokenValues
<1>6. ASSUME NEW c \in Clients, RefreshFinish(c) PROVE TokenInv'
  <2> DEFINE h == refreshing[c].handler
             j == refreshing[c].jti
  <2>1. /\ refreshing[c].stage = "verified" /\ Revokes(h, j)
        /\ IF h \in Signers THEN Issue(Pair(FALSE)) ELSE UNCHANGED tokens
        /\ refreshing' = [refreshing EXCEPT ![c] = Idle]
        /\ UNCHANGED <<listOf, clock, redisUp>>
    BY <1>6 DEF RefreshFinish
  <2>2. h \in Handlers /\ j \in Jtis
    BY <1>0, <2>1 DEF RefreshOK, Idle
  <2>3. /\ blocked' = [l \in Lists |-> blocked'[l]]
        /\ \A l \in Lists :
             /\ DOMAIN blocked'[l] \subseteq Jtis
             /\ \A i \in DOMAIN blocked'[l] : blocked'[l][i] = tokens[i].exp
        /\ revoked' \in [Lists -> SUBSET Jtis]
        /\ \A l \in Lists : \A i \in revoked'[l] : clock < tokens[i].exp =>
               i \in DOMAIN blocked'[l] /\ blocked'[l][i] > clock
    BY <2>1, <2>2, RevokesHolds
  <2>4. /\ tokens' \in Seq(TokenValues) /\ Jtis \subseteq Jtis'
        /\ \A i \in Jtis : tokens'[i] = tokens[i]
    <3>1. CASE UNCHANGED tokens
      BY <1>0, <3>1 DEF Jtis
    <3>2. CASE Issue(Pair(FALSE))
      BY <3>2, IssueHolds, TokensMade
    <3> QED
      BY <2>1, <3>1, <3>2
  <2>5. DOMAIN refreshing' = Clients /\ \A d \in Clients : RefreshOK(refreshing[d])'
    BY <1>0, <2>1, <2>4 DEF RefreshOK
  <2>6. TokTypeOK'
    BY <1>0, <2>1, <2>3, <2>4, <2>5 DEF TokTypeOK, TokenValues
  <2>7. EntriesLastAsTokens'
    BY <1>0, <2>1, <2>3, <2>4 DEF EntriesLastAsTokens, IsBlocked
  <2> QED
    BY <2>6, <2>7 DEF TokenInv
<1>7. ASSUME NEW h \in Handlers, NEW j \in Jtis, Unblock(h, j) PROVE TokenInv'
  <2> DEFINE list == listOf[h]
  <2>1. /\ list \in Lists
        /\ blocked' = [blocked EXCEPT ![list] = Forgetting(blocked[list], j)]
        /\ revoked' = [revoked EXCEPT ![list] = revoked[list] \ {j}]
        /\ UNCHANGED <<listOf, clock, tokens, redisUp, refreshing>>
    BY <1>0, <1>7 DEF Unblock
  <2> HIDE DEF list
  <2>2. /\ blocked' = [l \in Lists |-> blocked'[l]]
        /\ \A l \in Lists \ {list} : blocked'[l] = blocked[l]
        /\ DOMAIN blocked'[list] = DOMAIN blocked[list] \ {j}
        /\ \A i \in DOMAIN blocked[list] \ {j} : blocked'[list][i] = blocked[list][i]
    BY <1>0, <2>1 DEF Forgetting
  <2>3. /\ revoked' \in [Lists -> SUBSET Jtis] /\ revoked'[list] = revoked[list] \ {j}
        /\ \A l \in Lists \ {list} : revoked'[l] = revoked[l]
    BY <1>0, <2>1
  <2>4. TokTypeOK'
    BY <1>0, <2>1, <2>2, <2>3 DEF TokTypeOK, Jtis, RefreshOK, TokenValues
  <2>5. EntriesLastAsTokens'
    BY <1>00, <2>1, <2>2, <2>3 DEF EntriesLastAsTokens, IsBlocked
  <2> QED
    BY <2>4, <2>5 DEF TokenInv
<1>8. ASSUME NEW list \in Lists, Expire(list) PROVE TokenInv'
  <2>1. /\ blocked' = [blocked EXCEPT ![list] =
              [j \in {i \in DOMAIN blocked[list] : blocked[list][i] > clock} |-> blocked[list][j]]]
        /\ UNCHANGED <<listOf, clock, tokens, redisUp, revoked, refreshing>>
    BY <1>8 DEF Expire
  <2>2. /\ blocked' = [l \in Lists |-> blocked'[l]]
        /\ \A l \in Lists \ {list} : blocked'[l] = blocked[l]
        /\ DOMAIN blocked'[list] = {i \in DOMAIN blocked[list] : blocked[list][i] > clock}
        /\ \A i \in DOMAIN blocked'[list] : blocked'[list][i] = blocked[list][i]
    BY <1>0, <2>1
  <2>3. TokTypeOK'
    BY <1>0, <2>1, <2>2 DEF TokTypeOK, Jtis, RefreshOK, TokenValues
  <2>4. EntriesLastAsTokens'
    BY <1>00, <2>1, <2>2 DEF EntriesLastAsTokens, IsBlocked
  <2> QED
    BY <2>3, <2>4 DEF TokenInv
<1>9. ASSUME NEW h \in Handlers, Restart(h) PROVE TokenInv'
  <2> DEFINE list == listOf[h]
  <2>1. /\ IF list \in Lists \ SharedLists
           THEN /\ blocked' = [blocked EXCEPT ![list] = [j \in {} |-> 0]]
                /\ revoked' = [revoked EXCEPT ![list] = {}]
           ELSE UNCHANGED <<blocked, revoked>>
        /\ refreshing' = [c \in Clients |-> IF refreshing[c] # Idle /\ refreshing[c].handler = h
                                             THEN Idle ELSE refreshing[c]]
        /\ UNCHANGED <<listOf, clock, tokens, redisUp>>
    BY <1>9 DEF Restart
  <2> HIDE DEF list
  <2>2. /\ blocked' = [l \in Lists |-> blocked'[l]]
        /\ \A l \in Lists : \/ blocked'[l] = blocked[l]
                            \/ DOMAIN blocked'[l] = {} /\ revoked'[l] = {}
        /\ revoked' \in [Lists -> SUBSET Jtis]
        /\ \A l \in Lists : revoked'[l] \subseteq revoked[l]
    <3>1. CASE UNCHANGED <<blocked, revoked>>
      <4>1. blocked' = blocked /\ revoked' = revoked
        BY <3>1
      <4>2. blocked' = [l \in Lists |-> blocked'[l]]
        BY <1>0, <4>1
      <4> QED
        BY <1>0, <4>1, <4>2
    <3>2. CASE /\ list \in Lists
               /\ blocked' = [blocked EXCEPT ![list] = [j \in {} |-> 0]]
               /\ revoked' = [revoked EXCEPT ![list] = {}]
      <4> DEFINE none == [j \in {} |-> 0]
      <4>1. DOMAIN none = {}
        OBVIOUS
      <4> HIDE DEF none
      <4>2. /\ blocked' = [l \in Lists |-> blocked'[l]] /\ blocked'[list] = none
            /\ \A l \in Lists \ {list} : blocked'[l] = blocked[l]
        BY <1>0, <3>2 DEF none
      <4>3. /\ revoked' \in [Lists -> SUBSET Jtis] /\ revoked'[list] = {}
            /\ \A l \in Lists \ {list} : revoked'[l] = revoked[l]
        BY <1>0, <3>2
      <4>4. \A l \in Lists : \/ blocked'[l] = blocked[l]
                             \/ DOMAIN blocked'[l] = {} /\ revoked'[l] = {}
        BY <4>1, <4>2, <4>3
      <4>5. \A l \in Lists : revoked'[l] \subseteq revoked[l]
        BY <4>3
      <4> QED
        BY <4>2, <4>3, <4>4, <4>5
    <3> QED
      BY <2>1, <3>1, <3>2
  <2>3. DOMAIN refreshing' = Clients /\ \A c \in Clients : RefreshOK(refreshing[c])'
    BY <1>0, <2>1 DEF RefreshOK, Jtis
  <2>4. TokTypeOK'
    BY <1>0, <2>1, <2>2, <2>3 DEF TokTypeOK, Jtis, TokenValues
  <2>5. EntriesLastAsTokens'
    BY <1>00, <2>1, <2>2 DEF EntriesLastAsTokens, IsBlocked
  <2> QED
    BY <2>4, <2>5 DEF TokenInv
<1>10. CASE Redis \/ UNCHANGED tokenVars
  <2>1. UNCHANGED <<listOf, clock, tokens, blocked, revoked, refreshing>> /\ redisUp' \in BOOLEAN
    BY <1>0, <1>10 DEF Redis, RedisFails, RedisReturns, tokenVars
  <2> QED
    BY <1>0, <1>00, <2>1
       DEF TokenInv, TokTypeOK, EntriesLastAsTokens, IsBlocked, Jtis, RefreshOK, TokenValues
<1>11. CASE Passes
  <2>1. clock' = clock + 1 /\ UNCHANGED <<listOf, tokens, blocked, redisUp, revoked, refreshing>>
    BY <1>11 DEF Passes
  <2>2. TokTypeOK'
    BY <1>0, <2>1 DEF TokTypeOK, Jtis, RefreshOK, TokenValues
  <2>3. EntriesLastAsTokens'
    <3>1. \A l \in Lists : \A j \in revoked[l] : clock + 1 < tokens[j].exp => 
              j \in DOMAIN blocked[l] /\ blocked[l][j] > clock + 1
      <4> SUFFICES ASSUME NEW l \in Lists, NEW j \in revoked[l], clock + 1 < tokens[j].exp
                   PROVE  j \in DOMAIN blocked[l] /\ blocked[l][j] > clock + 1
        OBVIOUS
      <4>1. tokens[j].exp \in Nat
        BY <1>0, <1>00
      <4> QED
        BY <1>0, <1>00, <4>1
    <3> QED
      BY <1>00, <2>1, <3>1 DEF EntriesLastAsTokens, IsBlocked
  <2> QED
    BY <2>2, <2>3 DEF TokenInv
<1> QED
  BY <1>2, <1>3, <1>4, <1>5, <1>6, <1>7, <1>8, <1>9, <1>10, <1>11 DEF TokNext

\* The invariant of the tokens, for any tokens, lists, handlers, lifetimes and clocks: an
\* entry of the blocklist lasts as long as the token it stands for.
THEOREM TokensInductive == TokSpec => []TokenInv
<1>1. TokInit => TokenInv
  <2> SUFFICES ASSUME TokInit PROVE TokenInv
    OBVIOUS
  <2>1. listOf \in [Handlers -> Lists \cup {NoList}] /\ clock \in Nat /\ redisUp \in BOOLEAN
    BY TokenNumbers DEF TokInit
  <2>2. tokens = <<>> /\ tokens \in Seq(TokenValues)
    BY DEF TokInit
  <2>3. /\ blocked = [l \in Lists |-> [j \in {} |-> 0]] /\ revoked = [l \in Lists |-> {}]
        /\ refreshing = [c \in Clients |-> Idle]
    BY DEF TokInit
  <2> QED
    BY <2>1, <2>2, <2>3
       DEF TokenInv, TokTypeOK, EntriesLastAsTokens, RefreshOK, TokenValues
<1>2. TokenInv /\ [TokNext]_tokenVars => TokenInv'
  BY TokenInvStep
<1> QED
  BY <1>1, <1>2, PTL DEF TokSpec

\* A token whose revocation was answered is refused for as long as it would be valid, by
\* every handler, whatever the others do meanwhile (JwtHandler, TokenBlocklist).
THEOREM RevocationsHold == TokSpec => []RevocationHolds
<1>1. TokenInv => RevocationHolds
  <2> SUFFICES ASSUME TokenInv PROVE RevocationHolds
    OBVIOUS
  <2>1. ASSUME NEW h \in Handlers, NEW j \in Jtis, listOf[h] # NoList, j \in revoked[listOf[h]],
               clock < tokens[j].exp
        PROVE  ~NotBlocked(h, j)
    <3>1. listOf[h] \in Lists
      BY <2>1 DEF TokenInv, TokTypeOK
    <3> QED
      BY <2>1, <3>1 DEF TokenInv, EntriesLastAsTokens, NotBlocked
  <2> QED
    BY <2>1 DEF TokenInv, RevocationHolds, RevokedStaysOut, Accepts, AcceptsService
<1> QED
  BY <1>1, TokensInductive, PTL

----------------------------------------------------------------------------
(* Re-embedding jobs.                                                      *)

\* What is written of a document is embedded completely by then.
Embedded == jobAt \in {"erase", "write"} => embedded = ChunksOf[Current]

\* What the two stores may hold of a document at any time.
AllVectors == \A d \in Documents : vectors[d] \in {0, ChunksOf[d]}
PostingsKnown ==
    \A d \in Documents :
        /\ postings[d] \in SUBSET Whole(d)
        /\ postings[d] \in {{}, Whole(d)} \/ d \in bad \cup deletes \/ (jobAt = "write" /\ d = Current)
ReembedInv ==
    /\ vectors = [d \in Documents |-> vectors[d]] /\ postings = [d \in Documents |-> postings[d]]
    /\ AllVectors /\ PostingsKnown /\ Embedded

\* A deletion leaves all vectors of a document or none, and a part of its postings.
LEMMA ErasedIs ==
    ASSUME ReembedInv, NEW d, NEW a \in BOOLEAN, NEW b \in BOOLEAN, NEW c \in BOOLEAN,
           EraseFrom(d, a, b, c)
    PROVE  /\ vectors' = [e \in Documents |-> vectors'[e]]
           /\ postings' = [e \in Documents |-> postings'[e]]
           /\ AllVectors'
           /\ \A e \in Documents : postings'[e] \in SUBSET Whole(e)
           /\ \A e \in Documents \ {d} : vectors'[e] = vectors[e] /\ postings'[e] = postings[e]
           /\ chunked' = chunked \/ chunked' = chunked \ {d}
           /\ documents' = documents \/ documents' = Kept(documents, Documents \ {d})
<1>1. vectors' = vectors \/ vectors' = [vectors EXCEPT ![d] = 0]
  BY DEF EraseFrom
<1>2. PICK left \in SUBSET postings[d] : postings' = [postings EXCEPT ![d] = left]
  BY DEF EraseFrom
<1>3. /\ vectors = [e \in Documents |-> vectors[e]] /\ postings = [e \in Documents |-> postings[e]]
      /\ \A e \in Documents : vectors[e] \in {0, ChunksOf[e]} /\ postings[e] \in SUBSET Whole(e)
  BY DEF ReembedInv, AllVectors, PostingsKnown
<1>4. /\ vectors' = [e \in Documents |-> vectors'[e]]
      /\ \A e \in Documents : vectors'[e] \in {0, ChunksOf[e]}
      /\ \A e \in Documents \ {d} : vectors'[e] = vectors[e]
  BY <1>1, <1>3
<1>5. /\ postings' = [e \in Documents |-> postings'[e]]
      /\ \A e \in Documents : postings'[e] \in SUBSET Whole(e)
      /\ \A e \in Documents \ {d} : postings'[e] = postings[e]
  BY <1>2, <1>3 DEF Whole
<1>6. /\ chunked' = chunked \/ chunked' = chunked \ {d}
      /\ documents' = documents \/ documents' = Kept(documents, Documents \ {d})
  BY DEF EraseFrom
<1> QED
  BY <1>4, <1>5, <1>6 DEF AllVectors, Whole

\* The writes to the two stores, of a document that is embedded completely.
LEMMA WrittenIs ==
    ASSUME ReembedInv, NEW a \in BOOLEAN, NEW b \in BOOLEAN, NEW c \in BOOLEAN,
           jobAt = "write", WriteAll(a, b, c)
    PROVE  /\ vectors' = [e \in Documents |-> vectors'[e]]
           /\ postings' = [e \in Documents |-> postings'[e]]
           /\ AllVectors'
           /\ \A e \in Documents : postings'[e] \in SUBSET Whole(e)
           /\ \A e \in Documents \ {Current} :
                 vectors'[e] = vectors[e] /\ postings'[e] = postings[e]
           /\ Current \in Documents =>
                 /\ a => vectors'[Current] = ChunksOf[Current]
                 /\ b => postings'[Current] = Whole(Current)
<1> DEFINE w == Current
<1>1. embedded = ChunksOf[w] /\ Whole(w) = 1..embedded
  BY DEF ReembedInv, Embedded, Whole
<1>2. /\ vectors = [e \in Documents |-> vectors[e]] /\ postings = [e \in Documents |-> postings[e]]
      /\ \A e \in Documents : vectors[e] \in {0, ChunksOf[e]} /\ postings[e] \in SUBSET Whole(e)
  BY DEF ReembedInv, AllVectors, PostingsKnown
<1>3. /\ vectors' = vectors \/ vectors' = [vectors EXCEPT ![w] = ChunksOf[w]]
      /\ a => vectors' = [vectors EXCEPT ![w] = ChunksOf[w]]
  BY <1>1 DEF WriteAll, WriteToQdrant
<1>4. PICK done \in SUBSET Whole(w) :
          /\ b => done = Whole(w)
          /\ postings' = [postings EXCEPT ![w] = postings[w] \cup done]
  BY <1>1 DEF WriteAll, WriteToOpenSearch
<1>5. UNCHANGED ChunksOf /\ \A e : Whole(e)' = Whole(e)
  BY DEF Whole
<1> HIDE DEF w
<1>6. /\ vectors' = [e \in Documents |-> vectors'[e]]
      /\ \A e \in Documents : vectors'[e] \in {0, ChunksOf[e]}
      /\ \A e \in Documents \ {w} : vectors'[e] = vectors[e]
      /\ w \in Documents /\ a => vectors'[w] = ChunksOf[w]
  BY ONLY <1>2, <1>3
<1>7. /\ postings' = [e \in Documents |-> postings'[e]]
      /\ \A e \in Documents : postings'[e] \in SUBSET Whole(e)
      /\ \A e \in Documents \ {w} : postings'[e] = postings[e]
      /\ w \in Documents /\ b => postings'[w] = Whole(w)
  BY ONLY <1>2, <1>4
<1> QED
  BY <1>5, <1>6, <1>7 DEF AllVectors, w

\* The invariant of a re-embedding job: what is to be written of a document is embedded
\* completely, and what the stores hold a part of is being written or known.
THEOREM ReembedInductive == ReSpec => []ReembedInv
<1>1. ReInit => ReembedInv
  BY ReembedAssumption DEF ReInit, ReembedInv, AllVectors, PostingsKnown, Embedded
<1>2. ReembedInv /\ [ReNext]_reVars => ReembedInv'
  <2> SUFFICES ASSUME ReembedInv, [ReNext]_reVars PROVE ReembedInv'
    OBVIOUS
  <2>1. ASSUME UNCHANGED <<vectors, postings, deletes>>, bad \subseteq bad',
               jobAt # "write", jobAt' # "write", Embedded'
        PROVE  ReembedInv'
    BY <2>1 DEF ReembedInv, AllVectors, PostingsKnown, Whole
  <2>2. CASE ListScope \/ ListFails \/ Load \/ Retry
    BY <2>1, <2>2 DEF ListScope, ListFails, Load, Retry, storeVars, Embedded
  <2>3. CASE NotLoaded \/ BatchFails
    BY <2>1, <2>3 DEF NotLoaded, BatchFails, Skip, Advance, storeVars, Embedded
  <2>4. CASE EmbedBatch
    BY <2>1, <2>4 DEF EmbedBatch, storeVars, Embedded, Current
  <2>5. CASE Erase
    <3>1. /\ UNCHANGED <<remaining, embedded, bad, deletes>>
          /\ jobAt = "erase" /\ jobAt' = "write" /\ Current' = Current
      BY <2>5 DEF Erase, Current
    <3>2. PICK a, b, c \in BOOLEAN : EraseFrom(Current, a, b, c)
      BY <2>5 DEF Erase
    <3>3. /\ vectors' = [e \in Documents |-> vectors'[e]]
          /\ postings' = [e \in Documents |-> postings'[e]]
          /\ AllVectors'
          /\ \A e \in Documents : postings'[e] \in SUBSET Whole(e)
          /\ \A e \in Documents \ {Current} : postings'[e] = postings[e]
      BY <3>2, ErasedIs
    <3>4. PostingsKnown'
      BY <3>1, <3>3 DEF ReembedInv, PostingsKnown, Whole
    <3>5. Embedded'
      BY <3>1 DEF ReembedInv, Embedded
    <3> QED
      BY <3>3, <3>4, <3>5 DEF ReembedInv
  <2>6. CASE Write
    <3>1. jobAt = "write" /\ jobAt' = "mark" /\ UNCHANGED <<remaining, deletes>>
      BY <2>6 DEF Write
    <3>2. PICK a, b, c \in BOOLEAN :
              /\ WriteAll(a, b, c)
              /\ bad' = IF a /\ b /\ c THEN bad ELSE bad \cup {Current}
      BY <2>6 DEF Write
    <3>3. /\ vectors' = [e \in Documents |-> vectors'[e]]
          /\ postings' = [e \in Documents |-> postings'[e]]
          /\ AllVectors'
          /\ \A e \in Documents : postings'[e] \in SUBSET Whole(e)
          /\ \A e \in Documents \ {Current} : postings'[e] = postings[e]
          /\ Current \in Documents => (b => postings'[Current] = Whole(Current))
      BY <3>1, <3>2, WrittenIs
    <3>4. PostingsKnown'
      BY <3>1, <3>2, <3>3 DEF ReembedInv, PostingsKnown, Whole
    <3>5. Embedded'
      BY <3>1 DEF Embedded
    <3> QED
      BY <3>3, <3>4, <3>5 DEF ReembedInv
  <2>7. CASE Mark
    BY <2>1, <2>7 DEF Mark, Advance, Embedded
  <2>8. ASSUME NEW d \in Documents, DeleteDocument(d) PROVE ReembedInv'
    <3>1. UNCHANGED <<remaining, embedded, bad, jobAt>> /\ deletes' = deletes \cup {d}
      BY <2>8 DEF DeleteDocument, jobVars
    <3>2. PICK a, b, c \in BOOLEAN : EraseFrom(d, a, b, c)
      BY <2>8 DEF DeleteDocument
    <3>3. /\ vectors' = [e \in Documents |-> vectors'[e]]
          /\ postings' = [e \in Documents |-> postings'[e]]
          /\ AllVectors'
          /\ \A e \in Documents : postings'[e] \in SUBSET Whole(e)
          /\ \A e \in Documents \ {d} : postings'[e] = postings[e]
      BY <3>2, ErasedIs
    <3>4. PostingsKnown'
      BY <3>1, <3>3 DEF ReembedInv, PostingsKnown, Whole, Current
    <3>5. Embedded'
      BY <3>1 DEF ReembedInv, Embedded, Current
    <3> QED
      BY <3>3, <3>4, <3>5 DEF ReembedInv
  <2>9. CASE UNCHANGED reVars
    BY <2>9 DEF reVars, storeVars, jobVars, ReembedInv, AllVectors, PostingsKnown, Embedded,
                Current, Whole
  <2> QED
    BY <2>2, <2>3, <2>4, <2>5, <2>6, <2>7, <2>8, <2>9 DEF ReNext
<1> QED
  BY <1>1, <1>2, PTL DEF ReSpec

\* Whatever batch, call or part of a bulk fails, neither store holds a part of a
\* document, but for postings that are being written again, that the tracker has an
\* error of or that a deletion left (process_reembed, reindex_document).
THEOREM NoDocumentIsPartial == ReSpec => []NoPartialDocument
<1>1. ReembedInv => NoPartialDocument
  BY DEF ReembedInv, AllVectors, PostingsKnown, NoPartialDocument
<1> QED
  BY <1>1, ReembedInductive, PTL

\* A set of numbers that is not empty has a least one.
LEMMA LeastOf ==
    ASSUME NEW S \in SUBSET Nat, S # {}
    PROVE  LET v == CHOOSE x \in S : \A w \in S : x <= w
           IN v \in S /\ \A w \in S : v <= w
<1>1. PICK x \in S : \A y \in S : ~(<<y, x>> \in OpToRel(<, Nat))
  BY NatLessThanWellFounded, WFMin
<1>2. OpToRel(<, Nat) = {ss \in Nat \X Nat : ss[1] < ss[2]}
  BY DEF OpToRel
<1>3. \A y \in S : x <= y
  <2> SUFFICES ASSUME NEW y \in S, y < x PROVE FALSE
    OBVIOUS
  <2>1. <<y, x>> \in {ss \in Nat \X Nat : ss[1] < ss[2]}
    OBVIOUS
  <2> QED
    BY <1>1, <1>2, <2>1
<1> QED
  BY <1>3

\* A set of numbers from 0 to n that holds 0 and with each number below n the
\* next one holds them all.
LEMMA UpTo ==
    ASSUME NEW n \in Nat, NEW S, 0 \in S, \A k \in 0 .. n - 1 : k \in S => k + 1 \in S
    PROVE  \A k \in 0 .. n : k \in S
<1> SUFFICES ASSUME (0 .. n) \ S # {} PROVE FALSE
  OBVIOUS
<1> DEFINE v == CHOOSE x \in (0 .. n) \ S : \A w \in (0 .. n) \ S : x <= w
<1>1. (0 .. n) \ S \in SUBSET Nat
  OBVIOUS
<1>2. v \in (0 .. n) \ S /\ \A w \in (0 .. n) \ S : v <= w
  BY <1>1, LeastOf
<1> HIDE DEF v
<1>3. v \in 0 .. n /\ v # 0 /\ v - 1 \in 0 .. n - 1 /\ v - 1 \in 0 .. n /\ v - 1 < v
  BY <1>2
<1>4. v - 1 \in S
  BY <1>2, <1>3
<1>5. (v - 1) + 1 \in S /\ (v - 1) + 1 = v
  BY <1>3, <1>4
<1> QED
  BY <1>2, <1>5

KeptNext(s, T, f, i) ==
    IF i = 0 THEN <<>> ELSE IF s[i] \in T THEN Append(f[i - 1], s[i]) ELSE f[i - 1]

\* The recursive function that Kept is defined by exists.
LEMMA KeptFunction ==
    ASSUME NEW S, NEW s \in Seq(S), NEW T
    PROVE  \E f : f = [i \in 0 .. Len(s) |-> KeptNext(s, T, f, i)]
<1>1. Len(s) \in Nat
  BY LenProperties
<1> DEFINE Upto(m) == \E f : f = [i \in 0 .. m |-> KeptNext(s, T, f, i)]
           Good == {m \in 0 .. Len(s) : Upto(m)}
<1>2. 0 \in Good
  <2> DEFINE f == [i \in 0 .. 0 |-> <<>>]
  <2>1. f = [i \in 0 .. 0 |-> KeptNext(s, T, f, i)]
    BY DEF KeptNext
  <2> QED
    BY <1>1, <2>1
<1>3. ASSUME NEW k \in 0 .. Len(s) - 1, k \in Good PROVE k + 1 \in Good
  <2>1. PICK f : f = [i \in 0 .. k |-> KeptNext(s, T, f, i)]
    BY <1>3
  <2> DEFINE g == [i \in 0 .. k + 1 |-> IF i = k + 1 THEN KeptNext(s, T, f, k + 1) ELSE f[i]]
  <2>2. k \in Nat /\ k + 1 \in 0 .. Len(s)
    BY <1>1
  <2>3. ASSUME NEW i \in 0 .. k + 1 PROVE g[i] = KeptNext(s, T, g, i)
    <3>1. CASE i = 0
      <4>1. g[i] = f[i] /\ f[i] = KeptNext(s, T, f, i)
        BY <2>1, <2>2, <3>1
      <4> QED
        BY <3>1, <4>1 DEF KeptNext
    <3>2. CASE i # 0 /\ i # k + 1
      <4>1. i \in 0 .. k /\ i - 1 \in 0 .. k + 1 /\ i - 1 # k + 1 /\ i - 1 \in 0 .. k
        BY <2>2, <3>2
      <4>2. g[i] = f[i] /\ g[i - 1] = f[i - 1] /\ f[i] = KeptNext(s, T, f, i)
        BY <2>1, <3>2, <4>1
      <4> HIDE DEF g
      <4> QED
        BY <4>2 DEF KeptNext
    <3>3. CASE i = k + 1
      <4>1. i - 1 = k /\ k \in 0 .. k + 1 /\ k # k + 1
        BY <2>2, <3>3
      <4>2. g[k] = f[k] /\ g[k + 1] = KeptNext(s, T, f, k + 1)
        BY <4>1
      <4> HIDE DEF g
      <4> QED
        BY <2>2, <3>3, <4>1, <4>2 DEF KeptNext
    <3> QED
      BY <3>1, <3>2, <3>3
  <2>4. g = [i \in 0 .. k + 1 |-> g[i]]
    OBVIOUS
  <2> HIDE DEF g
  <2>5. g = [i \in 0 .. k + 1 |-> KeptNext(s, T, g, i)]
    BY <2>3, <2>4
  <2> QED
    BY <2>2, <2>5
<1> HIDE DEF Good
<1>4. Len(s) \in Good
  <2>1. \A k \in 0 .. Len(s) - 1 : k \in Good => k + 1 \in Good
    BY <1>3
  <2>2. \A k \in 0 .. Len(s) : k \in Good
    BY <1>1, <1>2, <2>1, UpTo
  <2> QED
    BY <1>1, <2>2
<1> QED
  BY <1>4 DEF Good

LEMMA RangeAppend ==
    ASSUME NEW S, NEW s \in Seq(S), NEW e \in S
    PROVE  Append(s, e) \in Seq(S) /\ Range(Append(s, e)) = Range(s) \cup {e}
<1>1. Append(s, e) = s \o <<e>> /\ <<e>> \in Seq(S) /\ Append(s, e) \in Seq(S)
  BY AppendIsConcat, AppendProperties
<1>2. Range(s \o <<e>>) = Range(s) \cup Range(<<e>>)
  <2> DEFINE x == <<e>>
  <2>1. x \in Seq(S)
    BY <1>1
  <2> HIDE DEF x
  <2>2. Range(s \o x) = Range(s) \cup Range(x)
    BY <2>1, RangeConcatenation
  <2> QED
    BY <2>2 DEF x
<1>3. Range(<<e>>) = {e}
  <2>1. DOMAIN <<e>> = {1} /\ <<e>>[1] = e
    OBVIOUS
  <2> QED
    BY <2>1 DEF Range
<1> QED
  BY <1>1, <1>2, <1>3

\* What is kept of a list.
LEMMA KeptIs ==
    ASSUME NEW S, NEW s \in Seq(S), NEW T
    PROVE  Kept(s, T) \in Seq(S) /\ Range(Kept(s, T)) = Range(s) \cap T
<1> DEFINE f == CHOOSE g : g = [i \in 0 .. Len(s) |-> KeptNext(s, T, g, i)]
<1>1. f = [i \in 0 .. Len(s) |-> KeptNext(s, T, f, i)]
  BY KeptFunction
<1>2. Kept(s, T) = f[Len(s)]
  BY DEF Kept, KeptNext
<1> HIDE DEF f
<1>3. Len(s) \in Nat /\ s \in [1 .. Len(s) -> S] /\ Range(s) = {s[i] : i \in 1 .. Len(s)}
  BY LenProperties, RangeEquality
<1> DEFINE Good == {m \in 0 .. Len(s) :
                       f[m] \in Seq(S) /\ Range(f[m]) = {s[i] : i \in 1 .. m} \cap T}
<1>4. 0 \in Good
  <2>1. f[0] = <<>>
    BY <1>1, <1>3 DEF KeptNext
  <2>2. <<>> \in Seq(S) /\ 1 .. 0 = {} /\ {s[i] : i \in {}} = {}
    BY EmptySeq
  <2>3. Range(<<>>) = {}
    <3>1. DOMAIN <<>> = {}
      OBVIOUS
    <3> QED
      BY <3>1 DEF Range
  <2>4. {s[i] : i \in 1 .. 0} \cap T = {}
    BY <2>2
  <2>5. f[0] \in Seq(S) /\ Range(f[0]) = {s[i] : i \in 1 .. 0} \cap T /\ 0 \in 0 .. Len(s)
    BY <1>3, <2>1, <2>2, <2>3, <2>4
  <2> QED
    BY <2>5
<1>5. ASSUME NEW k \in 0 .. Len(s) - 1, k \in Good PROVE k + 1 \in Good
  <2>1. k + 1 \in 0 .. Len(s) /\ k + 1 \in 1 .. Len(s) /\ k \in Nat /\ k + 1 # 0 /\ (k + 1) - 1 = k
    BY <1>3
  <2>2. f[k + 1] = IF s[k + 1] \in T THEN Append(f[k], s[k + 1]) ELSE f[k]
    BY <1>1, <2>1 DEF KeptNext
  <2>3. {s[i] : i \in 1 .. k + 1} = {s[i] : i \in 1 .. k} \cup {s[k + 1]}
    <3>1. 1 .. k + 1 = (1 .. k) \cup {k + 1}
      BY <2>1
    <3> QED
      BY <3>1
  <2>4. s[k + 1] \in S /\ f[k] \in Seq(S) /\ Range(f[k]) = {s[i] : i \in 1 .. k} \cap T
    BY <1>3, <1>5, <2>1
  <2>5. CASE s[k + 1] \in T
    <3>1. /\ Append(f[k], s[k + 1]) \in Seq(S)
          /\ Range(Append(f[k], s[k + 1])) = Range(f[k]) \cup {s[k + 1]}
      BY <2>4, RangeAppend
    <3>2. f[k + 1] = Append(f[k], s[k + 1])
      BY <2>2, <2>5
    <3>3. Range(f[k + 1]) = {s[i] : i \in 1 .. k + 1} \cap T
      BY <2>3, <2>4, <2>5, <3>1, <3>2
    <3> QED
      BY <2>1, <3>1, <3>2, <3>3
  <2>6. CASE s[k + 1] \notin T
    <3>1. Range(f[k]) = {s[i] : i \in 1 .. k + 1} \cap T
      BY <2>3, <2>4, <2>6
    <3> QED
      BY <2>1, <2>2, <2>4, <2>6, <3>1
  <2> QED
    BY <2>5, <2>6
<1> HIDE DEF Good
<1>6. Len(s) \in Good
  <2>1. \A k \in 0 .. Len(s) - 1 : k \in Good => k + 1 \in Good
    BY <1>5
  <2>2. \A k \in 0 .. Len(s) : k \in Good
    BY <1>3, <1>4, <2>1, UpTo
  <2> QED
    BY <1>3, <2>2
<1> QED
  BY <1>2, <1>3, <1>6 DEF Good

\* What the stores hold of a document that is done.
InStores(d) == d \in chunked /\ vectors[d] = ChunksOf[d] /\ postings[d] = Whole(d)
Handling == {"load", "embed", "erase", "write", "mark"}
Listing(n) == {documents[i] : i \in {j \in 1 .. Len(documents) : j <= n}}

\* Of what a job has listed, what it has not yet to do is done, unless the tracker
\* has an error of it or the API deleted it; and a first attempt that nothing
\* disturbs has listed what lies before the offset, and at last its scope.
JobInv ==
    /\ documents \in Seq(Documents) /\ remaining \in Seq(Documents) /\ offset \in Nat
    /\ status = [d \in Documents |-> status[d]]
    /\ listed \subseteq Documents /\ attempt \in Nat \ {0}
    /\ jobAt \in Handling \cup {"list", "failed", "completed"}
    /\ jobAt \in Handling => remaining # <<>>
    /\ jobAt = "completed" => remaining = <<>>
    /\ \A d \in listed \ (bad \cup deletes) : d \in Range(remaining) \/ Complete(d)
    /\ jobAt = "mark" =>
          Current \in bad \cup deletes \/ InStores(Current)
    /\ attempt = 1 /\ deletes = {} =>
          /\ jobAt = "list" =>
                Range(documents) = Documents /\ listed = Listing(offset) \cap InScope
          /\ jobAt \in Handling \cup {"completed"} => listed = InScope

LEMMA HeadAndTail ==
    ASSUME NEW S, NEW s \in Seq(S), s # <<>>
    PROVE  /\ Head(s) \in S /\ Tail(s) \in Seq(S) /\ Range(s) = {Head(s)} \cup Range(Tail(s))
           /\ Len(s) \in Nat \ {0} /\ (Len(s) > 1 <=> Tail(s) # <<>>)
<1>1. /\ Head(s) \in S /\ Tail(s) \in Seq(S) /\ Len(Tail(s)) = Len(s) - 1
      /\ \A i \in 1 .. Len(Tail(s)) : Tail(s)[i] = s[i + 1]
  BY HeadTailProperties
<1>2. Len(s) \in Nat \ {0} /\ Head(s) = s[1]
  BY EmptySeq
<1>3. Range(s) = {s[i] : i \in 1 .. Len(s)} /\ Range(Tail(s)) = {Tail(s)[i] : i \in 1 .. Len(Tail(s))}
  BY <1>1, RangeEquality
<1>4. Range(s) \subseteq {Head(s)} \cup Range(Tail(s))
  <2> SUFFICES ASSUME NEW i \in 1 .. Len(s), i # 1 PROVE s[i] \in Range(Tail(s))
    BY <1>2, <1>3
  <2>1. i - 1 \in 1 .. Len(Tail(s)) /\ (i - 1) + 1 = i
    BY <1>1, <1>2
  <2>2. Tail(s)[i - 1] = s[i]
    BY <1>1, <2>1
  <2> QED
    BY <1>3, <2>1, <2>2
<1>5. Range(Tail(s)) \subseteq Range(s)
  <2> SUFFICES ASSUME NEW i \in 1 .. Len(Tail(s)) PROVE Tail(s)[i] \in Range(s)
    BY <1>3
  <2>1. i + 1 \in 1 .. Len(s)
    BY <1>1, <1>2
  <2> QED
    BY <1>1, <1>3, <2>1
<1>6. Head(s) \in Range(s)
  BY <1>2, <1>3
<1>7. Len(s) > 1 <=> Tail(s) # <<>>
  <2>1. Tail(s) = <<>> <=> Len(Tail(s)) = 0
    BY <1>1, EmptySeq
  <2> QED
    BY <1>1, <1>2, <2>1
<1> QED
  BY <1>1, <1>2, <1>4, <1>5, <1>6, <1>7

\* A page is what lies in the list from the offset on; one that is not full is the
\* last one.
LEMMA PageIs ==
    ASSUME JobInv
    PROVE  /\ Page \in Seq(Documents)
           /\ Listing(offset + PageSize) = Listing(offset) \cup Range(Page)
           /\ Len(Page) # PageSize => Range(documents) = Listing(offset + PageSize)
<1>1. /\ documents \in Seq(Documents) /\ Len(documents) \in Nat /\ offset \in Nat
      /\ PageSize \in Nat \ {0} /\ \A i \in 1 .. Len(documents) : documents[i] \in Documents
      /\ Range(documents) = {documents[i] : i \in 1 .. Len(documents)}
  BY LenProperties, RangeEquality, ElementOfSeq, ReembedAssumption DEF JobInv
<1> DEFINE last == Min({offset + PageSize, Len(documents)})
<1>2. /\ last \in {offset + PageSize, Len(documents)}
      /\ last <= offset + PageSize /\ last <= Len(documents)
  <2>1. CASE offset + PageSize <= Len(documents)
    BY <1>1, <2>1 DEF Min
  <2>2. CASE Len(documents) < offset + PageSize
    BY <1>1, <2>2 DEF Min
  <2> QED
    BY <1>1, <2>1, <2>2
<1> HIDE DEF last
<1>3. Page = SubSeq(documents, offset + 1, last)
  BY DEF Page, last
<1>4. offset + 1 \in Int /\ last \in Int /\ \A i \in offset + 1 .. last : documents[i] \in Documents
  BY <1>1, <1>2
<1>5. /\ Page \in Seq(Documents)
      /\ Len(Page) = IF offset + 1 <= last THEN last - (offset + 1) + 1 ELSE 0
      /\ \A i \in 1 .. last - (offset + 1) + 1 : Page[i] = documents[offset + 1 + i - 1]
  BY <1>3, <1>4, SubSeqProperties
<1>6. Range(Page) = {Page[i] : i \in 1 .. Len(Page)}
  BY <1>5, RangeEquality
<1>7. Range(Page) \subseteq Listing(offset + PageSize)
  <2> SUFFICES ASSUME NEW i \in 1 .. Len(Page) PROVE Page[i] \in Listing(offset + PageSize)
    BY <1>6
  <2>1. i \in 1 .. last - (offset + 1) + 1 /\ offset + 1 + i - 1 = offset + i
    BY <1>1, <1>4, <1>5
  <2>2. offset + i \in 1 .. Len(documents) /\ offset + i <= offset + PageSize
    <3>1. i \in Nat \ {0} /\ i <= last - offset /\ offset + i <= last
      BY <1>1, <1>4, <2>1
    <3> QED
      BY <1>1, <1>2, <1>4, <3>1
  <2> QED
    BY <1>5, <2>1, <2>2 DEF Listing
<1>8. Listing(offset) \subseteq Listing(offset + PageSize)
  BY <1>1 DEF Listing
<1>9. Listing(offset + PageSize) \subseteq Listing(offset) \cup Range(Page)
  <2> SUFFICES ASSUME NEW j \in 1 .. Len(documents), j <= offset + PageSize, ~(j <= offset)
               PROVE  documents[j] \in Range(Page)
    BY DEF Listing
  <2>1. j - offset \in 1 .. last - (offset + 1) + 1 /\ j - offset \in 1 .. Len(Page)
    BY <1>1, <1>2, <1>5
  <2>2. offset + 1 + (j - offset) - 1 = j
    BY <1>1
  <2>3. Page[j - offset] = documents[j]
    BY <1>5, <2>1, <2>2
  <2> QED
    BY <1>6, <2>1, <2>3
<1>10. ASSUME Len(Page) # PageSize PROVE Range(documents) = Listing(offset + PageSize)
  <2>1. Len(documents) < offset + PageSize \/ last = Len(documents)
    BY <1>1, <1>2, <1>5, <1>10
  <2>2. \A j \in 1 .. Len(documents) : j <= offset + PageSize
    BY <1>1, <1>2, <2>1
  <2> QED
    BY <1>1, <2>2 DEF Listing
<1> QED
  BY <1>5, <1>7, <1>8, <1>9, <1>10

\* The list of the database begins with every document.
LEMMA AllListed ==
    ASSUME NEW s \in SetToSeqs(Documents)
    PROVE  s \in Seq(Documents) /\ Range(s) = Documents
<1> DEFINE n == Cardinality(Documents)
<1>1. IsFiniteSet(Documents) /\ n \in Nat
  BY FS_CardinalityType, ReembedAssumption
<1>2. s \in [1 .. n -> Documents] /\ \A i, j \in 1 .. n : i # j => s[i] # s[j]
  BY DEF SetToSeqs
<1>3. s \in Injection(1 .. n, Documents)
  BY <1>2 DEF Injection, IsInjective
<1>4. IsFiniteSet(1 .. n) /\ Cardinality(1 .. n) = n
  BY <1>1, FS_Interval
<1> HIDE DEF n
<1>5. s \in Surjection(1 .. n, Documents)
  BY <1>1, <1>3, <1>4, FS_Injection DEF n
<1>6. s \in Seq(Documents) /\ DOMAIN s = 1 .. n
  BY <1>1, <1>2
<1>7. Range(s) = Documents
  BY <1>2, <1>5, <1>6 DEF Range, Surjection
<1> QED
  BY <1>6, <1>7

LEMMA JobStart == ReInit => JobInv
<1> SUFFICES ASSUME ReInit PROVE JobInv
  OBVIOUS
<1>1. documents \in Seq(Documents) /\ Range(documents) = Documents
  BY AllListed DEF ReInit
<1>2. /\ remaining = <<>> /\ remaining \in Seq(Documents) /\ offset = 0 /\ listed = {}
      /\ attempt = 1 /\ jobAt = "list"
      /\ status = [d \in Documents |-> status[d]]
  BY EmptySeq DEF ReInit
<1>3. Listing(0) = {}
  BY <1>1, LenProperties DEF Listing
<1> QED
  BY <1>1, <1>2, <1>3 DEF JobInv, Handling

\* The loop goes on when the document at hand is done or has an error.
LEMMA AdvanceKeeps ==
    ASSUME JobInv, jobAt \in Handling, Advance(0) \/ Advance(1), NEW c, c = Current,
           UNCHANGED <<documents, chunked, vectors, postings, offset, attempt, listed, deletes>>,
           bad \subseteq bad', status' = [d \in Documents |-> status'[d]],
           \A d \in Documents \ {c} : status'[d] = status[d],
           c \in bad' \cup deletes \/ Complete(c)'
    PROVE  JobInv'
<1>1. remaining \in Seq(Documents) /\ remaining # <<>>
  BY DEF JobInv
<1>2. /\ c \in Documents /\ Tail(remaining) \in Seq(Documents)
      /\ Range(remaining) = {c} \cup Range(Tail(remaining))
      /\ Len(remaining) > 1 <=> Tail(remaining) # <<>>
  BY <1>1, HeadAndTail DEF Current
<1>3. remaining' = Tail(remaining)
  BY DEF Advance
<1>4. /\ jobAt' \in {"load", "failed", "completed"}
      /\ jobAt' = "load" => remaining' # <<>>
      /\ jobAt' = "completed" => remaining' = <<>>
  BY <1>2, <1>3 DEF Advance
<1>5. \A d \in listed \ (bad' \cup deletes) : d \in Range(remaining') \/ Complete(d)'
  <2> SUFFICES ASSUME NEW d \in listed, d \notin bad', d \notin deletes, d \notin Range(remaining')
               PROVE  Complete(d)'
    OBVIOUS
  <2>1. CASE d = c
    BY <2>1
  <2>2. CASE d # c
    <3>1. Complete(d) /\ d \in Documents
      BY <1>2, <1>3, <2>2 DEF JobInv
    <3> QED
      BY <2>2, <3>1 DEF Complete, InStores, Whole, Existing
  <2> QED
    BY <2>1, <2>2
<1>6. attempt = 1 /\ deletes = {} => listed = InScope
  BY DEF JobInv
<1> QED
  BY <1>2, <1>3, <1>4, <1>5, <1>6 DEF JobInv, Handling

LEMMA JobStep == ReembedInv /\ JobInv /\ [ReNext]_reVars => JobInv'
<1> SUFFICES ASSUME ReembedInv, JobInv, [ReNext]_reVars PROVE JobInv'
  OBVIOUS
<1>0. ASSUME jobAt \in Handling
      PROVE  /\ remaining # <<>> /\ Current \in Documents /\ Current \in Range(remaining)
             /\ remaining \in Seq(Documents)
  BY <1>0, HeadAndTail DEF JobInv, Current
<1>1. CASE ListScope
  <2>1. /\ Page \in Seq(Documents)
        /\ Listing(offset + PageSize) = Listing(offset) \cup Range(Page)
        /\ Len(Page) # PageSize => Range(documents) = Listing(offset + PageSize)
    BY PageIs
  <2>2. /\ Matching(Page) \in Seq(Documents)
        /\ Range(Matching(Page)) = Range(Page) \cap InScope
    BY <2>1, KeptIs DEF Matching
  <2>3. /\ jobAt = "list" /\ remaining' = remaining \o Matching(Page)
        /\ listed' = listed \cup (Range(Page) \cap InScope) /\ offset' = offset + PageSize
        /\ UNCHANGED <<storeVars, bad, attempt, deletes>>
        /\ jobAt' = (IF Len(Page) = PageSize THEN "list"
                     ELSE IF remaining' = <<>> THEN "completed" ELSE "load")
    BY <1>1, <2>2 DEF ListScope
  <2>4. remaining \in Seq(Documents)
    BY DEF JobInv
  <2>5. /\ remaining' \in Seq(Documents)
        /\ Range(remaining') = Range(remaining) \cup (Range(Page) \cap InScope)
    BY <2>2, <2>3, <2>4, ConcatProperties, RangeConcatenation
  <2>6. offset' \in Nat /\ listed' \subseteq Documents
    BY <2>3, ReembedAssumption DEF JobInv
  <2>7. \A d \in listed' \ (bad' \cup deletes') : d \in Range(remaining') \/ Complete(d)'
    BY <2>3, <2>5 DEF JobInv, Complete, InStores, Whole, Existing, storeVars
  <2>8. ASSUME attempt' = 1, deletes' = {}
        PROVE  /\ jobAt' = "list" =>
                    Range(documents') = Documents /\ listed' = Listing(offset)' \cap InScope
               /\ jobAt' \in Handling \cup {"completed"} => listed' = InScope
    <3>1. Range(documents) = Documents /\ listed = Listing(offset) \cap InScope
      BY <2>3, <2>8 DEF JobInv
    <3>2. listed' = Listing(offset + PageSize) \cap InScope
      BY <2>1, <2>3, <3>1
    <3>3. Listing(offset)' = Listing(offset + PageSize)
      BY <2>3 DEF Listing, storeVars
    <3>4. jobAt' # "list" => Listing(offset + PageSize) = Documents
      BY <2>1, <2>3, <3>1
    <3>5. UNCHANGED documents /\ InScope \subseteq Documents
      BY <2>3, ReembedAssumption DEF storeVars
    <3> QED
      BY <3>1, <3>2, <3>3, <3>4, <3>5 DEF Handling
  <2> QED
    BY <2>3, <2>5, <2>6, <2>7, <2>8 DEF JobInv, Handling, storeVars
<1>2. CASE ListFails
  BY <1>2 DEF ListFails, JobInv, Handling, storeVars, Complete, InStores, Whole, Existing
<1>3. ASSUME jobAt \in Handling, jobAt' \in Handling \ {"mark"},
             UNCHANGED <<storeVars, offset, remaining, bad, attempt, listed, deletes>>
      PROVE  JobInv'
  BY <1>3 DEF JobInv, Handling, storeVars, Complete, InStores, Whole, Existing
<1>4. CASE Load
  BY <1>3, <1>4 DEF Load, Handling
<1>5. CASE EmbedBatch
  BY <1>3, <1>5 DEF EmbedBatch, Handling
<1>6. CASE NotLoaded \/ BatchFails
  <2>1. /\ jobAt \in Handling /\ Advance(0) /\ bad' = bad \cup {Current}
        /\ UNCHANGED <<documents, chunked, vectors, postings, status, offset, attempt, listed, deletes>>
    BY <1>6 DEF NotLoaded, BatchFails, Skip, storeVars, Handling
  <2>2. status' = [d \in Documents |-> status'[d]]
    BY <2>1 DEF JobInv
  <2>3. PICK c : c = Current
    OBVIOUS
  <2> QED
    BY <2>1, <2>2, <2>3, AdvanceKeeps
<1>7. CASE Erase
  <2>1. /\ jobAt = "erase" /\ jobAt' = "write"
        /\ UNCHANGED <<status, offset, remaining, bad, attempt, listed, deletes>>
    BY <1>7 DEF Erase
  <2>2. PICK x, y, z \in BOOLEAN : EraseFrom(Current, x, y, z)
    BY <1>7 DEF Erase
  <2>3. /\ \A e \in Documents \ {Current} : vectors'[e] = vectors[e] /\ postings'[e] = postings[e]
        /\ chunked' = chunked \/ chunked' = chunked \ {Current}
        /\ documents' = documents \/ documents' = Kept(documents, Documents \ {Current})
    BY <2>2, ErasedIs
  <2>4. Current \in Range(remaining) /\ Current \in Documents /\ documents \in Seq(Documents)
    BY <1>0, <2>1 DEF Handling, JobInv
  <2>5. /\ documents' \in Seq(Documents)
        /\ \A d \in Documents \ {Current} : d \in Range(documents) => d \in Range(documents')
    BY <2>3, <2>4, KeptIs
  <2>6. \A d \in listed' \ (bad' \cup deletes') : d \in Range(remaining') \/ Complete(d)'
    BY <2>1, <2>3, <2>4, <2>5 DEF JobInv, Complete, Existing, Whole
  <2> QED
    BY <2>1, <2>5, <2>6 DEF JobInv, Handling
<1>8. CASE Write
  <2>1. /\ jobAt = "write" /\ jobAt' = "mark" /\ Current' = Current
        /\ UNCHANGED <<offset, remaining, attempt, listed, deletes>>
    BY <1>8 DEF Write, Current
  <2>2. PICK x, y, z \in BOOLEAN :
          /\ WriteAll(x, y, z)
          /\ bad' = IF x /\ y /\ z THEN bad ELSE bad \cup {Current}
    BY <1>8 DEF Write
  <2>3. Current \in Range(remaining) /\ Current \in Documents /\ documents \in Seq(Documents)
    BY <1>0, <2>1 DEF Handling, JobInv
  <2>4. /\ \A e \in Documents \ {Current} : vectors'[e] = vectors[e] /\ postings'[e] = postings[e]
        /\ x => vectors'[Current] = ChunksOf[Current]
        /\ y => postings'[Current] = Whole(Current)
    BY <2>1, <2>2, <2>3, WrittenIs
  <2>5. WriteToDatabase(z)
    BY <2>2 DEF WriteAll
  <2>6. documents' = documents \/ documents' = <<Current>> \o documents
    BY <2>5 DEF WriteToDatabase
  <2>7. documents' \in Seq(Documents) /\ Range(documents) \subseteq Range(documents')
    <3> DEFINE first == <<Current>>
    <3>1. first \in Seq(Documents)
      BY <2>3
    <3>2. documents' = documents \/ documents' = first \o documents
      BY <2>6
    <3> HIDE DEF first
    <3>3. first \o documents \in Seq(Documents)
      BY <2>3, <3>1, ConcatProperties
    <3>4. Range(first \o documents) = Range(first) \cup Range(documents)
      BY <2>3, <3>1, RangeConcatenation
    <3> QED
      BY <2>3, <3>2, <3>3, <3>4
  <2>8. /\ status' = [d \in Documents |-> status'[d]]
        /\ \A d \in Documents \ {Current} : status'[d] = status[d]
        /\ chunked \subseteq chunked' /\ (z => Current \in chunked')
    BY <2>3, <2>5 DEF JobInv, WriteToDatabase
  <2>9. Current \in bad' \cup deletes' \/ InStores(Current)'
    BY <2>1, <2>2, <2>4, <2>8 DEF InStores, Whole
  <2>10. \A d \in listed' \ (bad' \cup deletes') : d \in Range(remaining') \/ Complete(d)'
    BY <2>1, <2>2, <2>3, <2>4, <2>7, <2>8 DEF JobInv, Complete, Existing, Whole
  <2> QED
    BY <2>1, <2>7, <2>8, <2>9, <2>10 DEF JobInv, Handling
<1>9. CASE Mark
  <2>1. /\ jobAt = "mark" /\ Advance(1)
        /\ UNCHANGED <<documents, chunked, vectors, postings, offset, attempt, listed, deletes>>
    BY <1>9 DEF Mark
  <2>2. PICK c : c = Current /\ c \in Documents
    BY <1>0, <2>1 DEF Handling
  <2>3. c \in bad \cup deletes \/ InStores(c)
    BY <2>1, <2>2 DEF JobInv
  <2>4. CASE /\ c \in Existing /\ bad' = bad
             /\ status' = [status EXCEPT ![c] = "completed"]
    <3>1. /\ status' = [d \in Documents |-> status'[d]] /\ status'[c] = "completed"
          /\ \A d \in Documents \ {c} : status'[d] = status[d]
      BY <2>2, <2>4 DEF JobInv
    <3>2. c \in bad' \cup deletes \/ Complete(c)'
      BY <2>1, <2>3, <2>4, <3>1 DEF Complete, InStores, Whole, Existing
    <3> QED
      BY <2>1, <2>2, <2>4, <3>1, <3>2, AdvanceKeeps DEF Handling
  <2>5. CASE bad' = bad \cup {c} /\ UNCHANGED status
    <3>1. status' = [d \in Documents |-> status'[d]]
      BY <2>5 DEF JobInv
    <3> QED
      BY <2>1, <2>2, <2>5, <3>1, AdvanceKeeps DEF Handling
  <2> QED
    BY <1>9, <2>2, <2>4, <2>5 DEF Mark
<1>10. CASE Retry
  <2>1. attempt' \in Nat \ {0} /\ attempt' # 1
    BY <1>10 DEF Retry, JobInv
  <2> QED
    BY <1>10, <2>1, EmptySeq DEF Retry, JobInv, storeVars, Handling
<1>11. ASSUME NEW d \in Documents, DeleteDocument(d) PROVE JobInv'
  <2>1. deletes' = deletes \cup {d} /\ UNCHANGED <<status, jobVars>>
    BY <1>11 DEF DeleteDocument
  <2>2. PICK x, y, z \in BOOLEAN : EraseFrom(d, x, y, z)
    BY <1>11 DEF DeleteDocument
  <2>3. /\ \A e \in Documents \ {d} : vectors'[e] = vectors[e] /\ postings'[e] = postings[e]
        /\ chunked' = chunked \/ chunked' = chunked \ {d}
        /\ documents' = documents \/ documents' = Kept(documents, Documents \ {d})
    BY <2>2, ErasedIs
  <2>4. /\ documents' \in Seq(Documents)
        /\ \A e \in Documents \ {d} : e \in Range(documents) => e \in Range(documents')
    <3>1. documents \in Seq(Documents)
      BY DEF JobInv
    <3> QED
      BY <2>3, <3>1, KeptIs
  <2>5. \A e \in listed' \ (bad' \cup deletes') : e \in Range(remaining') \/ Complete(e)'
    BY <2>1, <2>3, <2>4 DEF JobInv, Complete, Existing, Whole, jobVars
  <2>6. jobAt = "mark" => Current \in bad \cup deletes' \/ InStores(Current)'
    <3>1. ASSUME jobAt = "mark" PROVE Current \in Documents /\ Current' = Current
      BY <1>0, <2>1, <3>1 DEF Handling, Current, jobVars
    <3> QED
      BY <2>1, <2>3, <3>1 DEF JobInv, InStores, Whole
  <2>7. deletes' # {}
    BY <2>1
  <2> QED
    BY <2>1, <2>3, <2>4, <2>5, <2>6, <2>7 DEF JobInv, jobVars, Current
<1>12. CASE UNCHANGED reVars
  BY <1>12 DEF reVars, storeVars, jobVars, JobInv, Complete, InStores, Whole, Existing, Current, Listing
<1> QED
  BY <1>1, <1>2, <1>4, <1>5, <1>6, <1>7, <1>8, <1>9, <1>10, <1>11, <1>12 DEF ReNext

\* What a finished job says is so: it has listed its scope, and of each document it
\* listed it has an error or the document is done.
THEOREM JobsAccount == ReSpec => []JobAccounts
<1>1. JobInv => JobAccounts
  <2> SUFFICES ASSUME JobInv PROVE JobAccounts
    OBVIOUS
  <2>1. jobAt = "completed" => Range(remaining) = {}
    <3>1. Range(<<>>) = {}
      <4>1. DOMAIN <<>> = {}
        OBVIOUS
      <4> QED
        BY <4>1 DEF Range
    <3> QED
      BY <3>1 DEF JobInv
  <2>2. ErrorsReported
    BY <2>1 DEF ErrorsReported, JobInv
  <2>3. ScopeCovered
    BY DEF ScopeCovered, JobInv
  <2> QED
    BY <2>2, <2>3 DEF JobAccounts
<1> QED
  BY <1>1, JobStart, JobStep, ReembedInductive, PTL DEF ReSpec

----------------------------------------------------------------------------
(* The tenants' configuration.                                             *)

\* The rows a tenant may have had.
AllRows == TenantRows \cup {[row EXCEPT !.deleted = TRUE] : row \in TenantRows}

\* A config that was read from a row of the tenant, or made by a caller.
ReadFrom(t, version, config, made) ==
    /\ version \in 1..Len(versions[t])
    /\ ~made => config = BuildConfig(versions[t][version], t)

EntryOK(e, t) ==
    /\ e = [version |-> e.version, config |-> e.config, left |-> e.left, age |-> e.age,
            made |-> e.made]
    /\ ReadFrom(t, e.version, e.config, e.made) /\ e.version >= floor[t]
    /\ e.left \in Nat /\ e.age \in Nat
    /\ cacheKind = "redis" => e.left >= 1 /\ e.age + e.left <= ConfigTtl + SetDelay

LookupOK(c) ==
    /\ c.at = "load" => c.tenant \in Tenants
    /\ c.at = "set" =>
        /\ c = [at |-> "set", tenant |-> c.tenant, version |-> c.version, config |-> c.config,
                age |-> c.age]
        /\ c.tenant \in Tenants /\ ReadFrom(c.tenant, c.version, c.config, FALSE)
        /\ c.version >= floor[c.tenant]
        /\ c.age \in Nat /\ c.age <= SetDelay
    /\ c.at = "answered" =>
        /\ c.tenant \in Tenants /\ ReadFrom(c.tenant, c.version, c.config, c.made)
        /\ c.version >= c.floor
        /\ cacheKind = "redis" => c.age <= ConfigTtl + SetDelay

TenantTypeOK ==
    /\ cacheKind \in {"redis", "memory"}
    /\ versions \in [Tenants -> Seq(AllRows)] /\ \A t \in Tenants : Len(versions[t]) >= 1
    /\ floor \in [Tenants -> Nat] /\ \A t \in Tenants : floor[t] <= Len(versions[t])
    /\ cached = [t \in Tenants |-> cached[t]] /\ lookup = [l \in Lookups |-> lookup[l]]

TenantInv ==
    /\ TenantTypeOK
    /\ \A t \in Tenants : cached[t] # Uncached => EntryOK(cached[t], t)
    /\ \A l \in Lookups : LookupOK(lookup[l])

\* The row of a tenant is the last of its versions, and the floor is no later.
LEMMA RowOf ==
    ASSUME TenantInv, NEW t \in Tenants
    PROVE  /\ versions[t] \in Seq(AllRows) /\ Len(versions[t]) \in Nat /\ Len(versions[t]) >= 1
           /\ Row(t) = versions[t][Len(versions[t])] /\ Row(t) \in AllRows
           /\ floor[t] \in Nat /\ floor[t] <= Len(versions[t])
<1>1. versions[t] \in Seq(AllRows) /\ Len(versions[t]) \in Nat /\ Len(versions[t]) >= 1
  BY DEF TenantInv, TenantTypeOK
<1>2. versions[t][Len(versions[t])] \in AllRows
  BY <1>1
<1> QED
  BY <1>1, <1>2 DEF TenantInv, TenantTypeOK, Row, Last

\* A call answers.
LEMMA FoundOK ==
    ASSUME TenantInv, NEW t \in Tenants, NEW e,
           ReadFrom(t, e.version, e.config, e.made), e.version >= floor[t],
           cacheKind = "redis" => e.age <= ConfigTtl + SetDelay
    PROVE  LookupOK(Found(e, t))
BY DEF Found, LookupOK, ReadFrom

\* What the invariant says of versions and floor is kept when they grow.
LEMMA SameRows ==
    ASSUME TenantInv, UNCHANGED <<cacheKind, versions, floor>>
    PROVE  /\ \A e, t : EntryOK(e, t)' <=> EntryOK(e, t)
           /\ \A c : LookupOK(c)' <=> LookupOK(c)
BY DEF EntryOK, LookupOK, ReadFrom

\* Rows are added, and the floor stays below them.
LEMMA MoreRows ==
    ASSUME TenantInv, NEW t \in Tenants, NEW row \in AllRows,
           versions' = [versions EXCEPT ![t] = Append(versions[t], row)],
           UNCHANGED <<cacheKind, moment, floor, cached, lookup, reachable>>
    PROVE  TenantInv'
<1>1. /\ \A x \in Tenants : versions[x] \in Seq(AllRows) /\ Len(versions[x]) \in Nat
      /\ \A x \in Tenants : Len(versions[x]) >= 1 /\ floor[x] \in Nat /\ floor[x] <= Len(versions[x])
  BY RowOf
<1>2. /\ versions' \in [Tenants -> Seq(AllRows)]
      /\ \A x \in Tenants : x # t => versions'[x] = versions[x]
      /\ versions'[t] = Append(versions[t], row)
  BY <1>1 DEF TenantInv, TenantTypeOK
<1>3. /\ Len(versions'[t]) = Len(versions[t]) + 1
      /\ \A i \in 1..Len(versions[t]) : versions'[t][i] = versions[t][i]
  BY <1>1, <1>2
<1>4. \A x \in Tenants :
        /\ Len(versions'[x]) \in Nat /\ Len(versions'[x]) >= Len(versions[x])
        /\ \A i \in 1..Len(versions[x]) :
              i \in 1..Len(versions'[x]) /\ versions'[x][i] = versions[x][i]
  BY <1>1, <1>2, <1>3
<1>5. TenantTypeOK'
  BY <1>1, <1>2, <1>4 DEF TenantInv, TenantTypeOK
<1>6. ASSUME NEW x \in Tenants, NEW v, NEW c, NEW m, ReadFrom(x, v, c, m)
      PROVE  ReadFrom(x, v, c, m)'
  BY <1>4, <1>6 DEF ReadFrom
<1>7. \A x \in Tenants : cached'[x] # Uncached => EntryOK(cached[x], x)'
  BY <1>6 DEF TenantInv, EntryOK
<1>8. \A l \in Lookups : LookupOK(lookup[l])'
  BY <1>6 DEF TenantInv, LookupOK
<1> QED
  BY <1>5, <1>7, <1>8 DEF TenantInv

\* The calls and the cache's entries move, the rows do not.
LEMMA SameRowsMove ==
    ASSUME TenantInv, UNCHANGED <<cacheKind, versions, floor>>,
           cached' = [t \in Tenants |-> cached'[t]], lookup' = [l \in Lookups |-> lookup'[l]],
           \A t \in Tenants : cached'[t] # Uncached => EntryOK(cached'[t], t),
           \A l \in Lookups : LookupOK(lookup'[l])
    PROVE  TenantInv'
<1>1. TenantTypeOK'
  BY DEF TenantInv, TenantTypeOK
<1>2. \A t \in Tenants : EntryOK(cached'[t], t) <=> EntryOK(cached[t], t)'
  BY DEF EntryOK, ReadFrom
<1>3. \A l \in Lookups : LookupOK(lookup'[l]) <=> LookupOK(lookup[l])'
  BY DEF LookupOK, ReadFrom
<1> QED
  BY <1>1, <1>2, <1>3 DEF TenantInv

\* One call moves, and nothing else.
LEMMA OneLookup ==
    ASSUME TenantInv, UNCHANGED <<cacheKind, versions, floor, cached>>, NEW l \in Lookups, NEW v,
           lookup' = [lookup EXCEPT ![l] = v], LookupOK(v)
    PROVE  TenantInv'
<1>1. /\ lookup' = [k \in Lookups |-> lookup'[k]] /\ lookup'[l] = v
      /\ \A k \in Lookups : k # l => lookup'[k] = lookup[k]
  BY DEF TenantInv, TenantTypeOK
<1> QED
  BY <1>1, SameRowsMove DEF TenantInv, TenantTypeOK

\* One entry of the cache changes.
LEMMA OneEntry ==
    ASSUME TenantInv, NEW t \in Tenants, NEW e, cached' = [cached EXCEPT ![t] = e]
    PROVE  /\ cached' = [x \in Tenants |-> cached'[x]] /\ cached'[t] = e
           /\ \A x \in Tenants : x # t => cached'[x] = cached[x]
BY DEF TenantInv, TenantTypeOK

\* invalidate: the floor of the tenant rises, and what is older is told.
LEMMA InvalidateHolds ==
    ASSUME TenantInv, NEW t \in Tenants, InvalidateConfig(t)
    PROVE  TenantInv'
<1> DEFINE earliest == {lookup[l].version : l \in Setting(t)} \cup {Len(versions[t])}
           least == CHOOSE v \in earliest : \A w \in earliest : v <= w
<1>1. /\ cached' = [cached EXCEPT ![t] = Uncached]
      /\ floor' = [floor EXCEPT ![t] = least]
      /\ UNCHANGED <<cacheKind, moment, versions, lookup, reachable>>
  BY DEF InvalidateConfig, Raise
<1>2. \A l \in Setting(t) : lookup[l].version \in Nat
  <2> SUFFICES ASSUME NEW l \in Setting(t) PROVE lookup[l].version \in Nat
    OBVIOUS
  <2>1. LookupOK(lookup[l]) /\ lookup[l].at = "set" /\ lookup[l].tenant = t
    BY DEF TenantInv, Setting
  <2>2. lookup[l].version \in 1..Len(versions[t])
    BY <2>1 DEF LookupOK, ReadFrom
  <2> QED
    BY <2>2, RowOf
<1>3. earliest \in SUBSET Nat /\ earliest # {} /\ Len(versions[t]) \in earliest
  BY <1>2, RowOf
<1> HIDE DEF earliest
<1>4. least \in Nat /\ \A w \in earliest : least <= w
  BY <1>3, LeastOf
<1> HIDE DEF least
<1>5. \A l \in Setting(t) : lookup[l].version >= least
  BY <1>2, <1>4 DEF earliest
<1>6. /\ floor' \in [Tenants -> Nat] /\ floor'[t] = least
      /\ \A x \in Tenants : x # t => floor'[x] = floor[x]
  BY <1>1, <1>4 DEF TenantInv, TenantTypeOK
<1>7. /\ cached' = [x \in Tenants |-> cached'[x]] /\ cached'[t] = Uncached
      /\ \A x \in Tenants : x # t => cached'[x] = cached[x]
  BY <1>1, OneEntry
<1>8. TenantTypeOK'
  <2>1. \A x \in Tenants : floor'[x] <= Len(versions[x])
    BY <1>3, <1>4, <1>6, RowOf
  <2> QED
    BY <1>1, <1>6, <1>7, <2>1 DEF TenantInv, TenantTypeOK
<1>9. \A x \in Tenants : cached'[x] # Uncached => EntryOK(cached[x], x)'
  BY <1>1, <1>6, <1>7 DEF TenantInv, EntryOK, ReadFrom
<1>10. \A l \in Lookups : LookupOK(lookup[l])'
  <2> SUFFICES ASSUME NEW l \in Lookups PROVE LookupOK(lookup[l])'
    OBVIOUS
  <2>1. LookupOK(lookup[l])
    BY DEF TenantInv
  <2>2. lookup[l].at = "set" => lookup[l].version >= floor'[lookup[l].tenant]
    BY <1>5, <1>6, <2>1 DEF LookupOK, Setting
  <2> QED
    BY <1>1, <2>1, <2>2 DEF LookupOK, ReadFrom
<1> QED
  BY <1>8, <1>9, <1>10 DEF TenantInv

\* Time passes for the entries and for the calls.
LEMMA PassTimeHolds ==
    ASSUME TenantInv, PassTime
    PROVE  TenantInv'
<1>1. /\ \A l \in Lookups : lookup[l].at = "set" => lookup[l].age < SetDelay
      /\ cached' = [t \in Tenants |-> OneOlder(cached[t])]
      /\ lookup' = [l \in Lookups |->
             IF lookup[l].at = "set" THEN [lookup[l] EXCEPT !.age = @ + 1] ELSE lookup[l]]
      /\ UNCHANGED <<cacheKind, versions, floor>>
  BY DEF PassTime
<1>2. ASSUME NEW t \in Tenants, cached'[t] # Uncached PROVE EntryOK(cached'[t], t)
  <2> DEFINE e == cached[t]
  <2>1. cached'[t] = OneOlder(e) /\ e # Uncached
    BY <1>1, <1>2 DEF OneOlder, AgedKept
  <2>2. EntryOK(e, t)
    BY <2>1 DEF TenantInv
  <2> HIDE DEF e
  <2>3. CASE cacheKind = "memory"
    <3>1. cached'[t] = [e EXCEPT !.age = e.age + 1]
      BY <2>1, <2>3 DEF OneOlder, AgedKept
    <3>2. cached'[t] = [version |-> e.version, config |-> e.config, left |-> e.left,
                        age |-> e.age + 1, made |-> e.made]
      BY <2>2, <3>1 DEF EntryOK
    <3> QED
      BY <2>2, <2>3, <3>2 DEF EntryOK
  <2>4. CASE cacheKind = "redis"
    <3>1. e.left # 1 /\ cached'[t] = [e EXCEPT !.left = e.left - 1, !.age = e.age + 1]
      BY <1>2, <2>1, <2>4 DEF OneOlder
    <3>2. cached'[t] = [version |-> e.version, config |-> e.config, left |-> e.left - 1,
                        age |-> e.age + 1, made |-> e.made]
      BY <2>2, <3>1 DEF EntryOK
    <3>3. e.left \in Nat /\ e.age \in Nat /\ e.left >= 1 /\ e.age + e.left <= ConfigTtl + SetDelay
      BY <2>2, <2>4 DEF EntryOK
    <3>4. /\ e.left - 1 \in Nat /\ e.left - 1 >= 1 /\ e.age + 1 \in Nat
          /\ (e.age + 1) + (e.left - 1) <= ConfigTtl + SetDelay
      BY <3>1, <3>3, TenantConfigAssumption
    <3> QED
      BY <2>2, <3>2, <3>4 DEF EntryOK
  <2> QED
    BY <2>3, <2>4 DEF TenantInv, TenantTypeOK
<1>3. ASSUME NEW l \in Lookups PROVE LookupOK(lookup'[l])
  <2> DEFINE c == lookup[l]
  <2>1. LookupOK(c) /\ lookup'[l] = IF c.at = "set" THEN [c EXCEPT !.age = c.age + 1] ELSE c
    BY <1>1 DEF TenantInv
  <2>2. c.at = "set" => c.age < SetDelay
    BY <1>1
  <2> HIDE DEF c
  <2>3. CASE c.at = "set"
    <3>1. lookup'[l] = [at |-> "set", tenant |-> c.tenant, version |-> c.version,
                        config |-> c.config, age |-> c.age + 1]
      BY <2>1, <2>3 DEF LookupOK
    <3>2. c.age + 1 \in Nat /\ c.age + 1 <= SetDelay
      BY <2>1, <2>2, <2>3, TenantConfigAssumption DEF LookupOK
    <3> QED
      BY <2>1, <2>3, <3>1, <3>2 DEF LookupOK
  <2>4. CASE c.at # "set"
    BY <2>1, <2>4
  <2> QED
    BY <2>3, <2>4
<1> QED
  BY <1>1, <1>2, <1>3, SameRowsMove

\* Every step preserves the invariant of the tenants.
LEMMA TenantInvStep ==
    ASSUME TenantInv, [TenantNext]_tenantVars
    PROVE  TenantInv'
<1>1. ASSUME NEW l \in Lookups, NEW t \in Tenants, GetConfig(l, t) PROVE TenantInv'
  <2> DEFINE v == IF Answers /\ Cached(t) THEN Found(cached[t], t) ELSE [at |-> "load", tenant |-> t]
  <2>1. lookup' = [lookup EXCEPT ![l] = v] /\ UNCHANGED <<cacheKind, versions, floor, cached>>
    BY <1>1 DEF GetConfig
  <2>2. LookupOK([at |-> "load", tenant |-> t])
    BY DEF LookupOK
  <2>3. ASSUME Cached(t) PROVE LookupOK(Found(cached[t], t))
    <3>1. EntryOK(cached[t], t)
      BY <2>3 DEF TenantInv, Cached
    <3>2. cacheKind = "redis" => cached[t].age <= ConfigTtl + SetDelay
      BY <3>1, TenantConfigAssumption DEF EntryOK
    <3> QED
      BY <3>1, <3>2, FoundOK DEF EntryOK
  <2>4. LookupOK(v)
    BY <2>2, <2>3
  <2> HIDE DEF v
  <2> QED
    BY <2>1, <2>4, OneLookup
<1>2. ASSUME NEW l \in Lookups, LoadRow(l) PROVE TenantInv'
  <2> DEFINE t == lookup[l].tenant
             read == [at |-> "set", tenant |-> t, version |-> Len(versions[t]),
                      config |-> BuildConfig(Row(t), t), age |-> 0]
             v == IF Row(t).deleted THEN Failed ELSE read
  <2>1. /\ lookup[l].at = "load" /\ lookup' = [lookup EXCEPT ![l] = v]
        /\ UNCHANGED <<cacheKind, versions, floor, cached>>
    BY <1>2 DEF LoadRow
  <2>2. t \in Tenants
    BY <2>1 DEF TenantInv, LookupOK
  <2>3. LookupOK(read)
    <3>1. ReadFrom(t, Len(versions[t]), BuildConfig(Row(t), t), FALSE)
      BY <2>2, RowOf DEF ReadFrom
    <3>2. Len(versions[t]) >= floor[t]
      BY <2>2, RowOf
    <3>3. 0 \in Nat /\ 0 <= SetDelay
      BY TenantConfigAssumption
    <3>4. ASSUME NEW n, NEW made, ReadFrom(t, n, made, FALSE), n >= floor[t]
          PROVE  LookupOK([at |-> "set", tenant |-> t, version |-> n, config |-> made, age |-> 0])
      <4> HIDE DEF t
      <4> QED
        BY <2>2, <3>3, <3>4 DEF LookupOK
    <3> QED
      BY <3>1, <3>2, <3>4
  <2>4. LookupOK(Failed)
    BY DEF Failed, LookupOK
  <2>5. LookupOK(v)
    BY <2>3, <2>4
  <2> HIDE DEF v
  <2> QED
    BY <2>1, <2>5, OneLookup
<1>3. ASSUME NEW l \in Lookups, LoadFails(l) PROVE TenantInv'
  <2>1. LookupOK(Failed)
    BY DEF Failed, LookupOK
  <2> QED
    BY <1>3, <2>1, OneLookup DEF LoadFails
<1>4. ASSUME NEW l \in Lookups, SetConfig(l) PROVE TenantInv'
  <2> DEFINE c == lookup[l]
             t == c.tenant
             e == Entry(c.version, c.config, c.age, FALSE)
  <2>1. /\ c.at = "set"
        /\ cached' = IF SetWorks THEN [cached EXCEPT ![t] = e] ELSE cached
        /\ lookup' = [lookup EXCEPT ![l] = Found(e, t)]
        /\ UNCHANGED <<cacheKind, versions, floor>>
    BY <1>4 DEF SetConfig
  <2>2. /\ t \in Tenants /\ ReadFrom(t, c.version, c.config, FALSE) /\ c.version >= floor[t]
        /\ c.age \in Nat /\ c.age <= SetDelay
    BY <2>1 DEF TenantInv, LookupOK
  <2> HIDE DEF c, t
  <2>3. /\ e = [version |-> c.version, config |-> c.config, left |-> ConfigTtl, age |-> c.age,
                made |-> FALSE]
    BY DEF Entry
  <2> HIDE DEF e
  <2>4. LookupOK(Found(e, t))
    <3>1. c.age <= ConfigTtl + SetDelay
      BY <2>2, TenantConfigAssumption
    <3> QED
      BY <2>2, <2>3, <3>1, FoundOK
  <2>5. SetWorks => EntryOK(e, t)
    <3>1. ConfigTtl \in Nat /\ c.age + ConfigTtl <= ConfigTtl + SetDelay
      BY <2>2, TenantConfigAssumption
    <3> QED
      BY <2>2, <2>3, <3>1 DEF EntryOK, SetWorks
  <2>6. /\ lookup' = [k \in Lookups |-> lookup'[k]] /\ lookup'[l] = Found(e, t)
        /\ \A k \in Lookups : k # l => lookup'[k] = lookup[k]
    BY <2>1 DEF TenantInv, TenantTypeOK
  <2>7. /\ cached' = [x \in Tenants |-> cached'[x]]
        /\ \A x \in Tenants : cached'[x] = cached[x] \/ (SetWorks /\ x = t /\ cached'[x] = e)
    <3>1. CASE SetWorks
      <4>1. cached' = [cached EXCEPT ![t] = e]
        BY <2>1, <3>1
      <4> QED
        BY <2>2, <3>1, <4>1, OneEntry
    <3>2. CASE ~SetWorks
      BY <2>1, <3>2 DEF TenantInv, TenantTypeOK
    <3> QED
      BY <3>1, <3>2
  <2> QED
    BY <2>1, <2>4, <2>5, <2>6, <2>7, SameRowsMove DEF TenantInv
<1>5. ASSUME NEW t \in Tenants, NEW row \in TenantRows, EditRow(t, row) PROVE TenantInv'
  BY <1>5, MoreRows DEF EditRow, AllRows
<1>6. ASSUME NEW t \in Tenants, DeleteTenant(t) PROVE TenantInv'
  <2> DEFINE row == [Row(t) EXCEPT !.deleted = TRUE]
  <2>1. /\ ~Row(t).deleted /\ versions' = [versions EXCEPT ![t] = Append(versions[t], row)]
        /\ UNCHANGED <<cacheKind, moment, floor, cached, lookup, reachable>>
    BY <1>6 DEF DeleteTenant, EditRow
  <2>2. \A r \in TenantRows : [r EXCEPT !.deleted = TRUE].deleted = TRUE
    BY TenantConfigAssumption
  <2>3. Row(t) \in TenantRows
    BY <2>1, <2>2, RowOf DEF AllRows
  <2>4. row \in AllRows
    BY <2>3 DEF AllRows
  <2> HIDE DEF row
  <2> QED
    BY <2>1, <2>4, MoreRows
<1>7. ASSUME NEW t \in Tenants, NEW config \in CallerConfigs, CreateConfig(t, config)
      PROVE  TenantInv'
  <2> DEFINE e == Entry(Len(versions[t]), [config EXCEPT !.tenant = t], 0, TRUE)
  <2>1. /\ SetWorks /\ cached' = [cached EXCEPT ![t] = e]
        /\ UNCHANGED <<cacheKind, versions, floor, lookup>>
    BY <1>7 DEF CreateConfig
  <2>2. EntryOK(e, t)
    <3> DEFINE made == [config EXCEPT !.tenant = t]
    <3>1. e = [version |-> Len(versions[t]), config |-> made, left |-> ConfigTtl, age |-> 0,
               made |-> TRUE]
      BY DEF Entry
    <3> HIDE DEF e, made
    <3>2. /\ ReadFrom(t, Len(versions[t]), made, TRUE) /\ Len(versions[t]) >= floor[t]
          /\ ConfigTtl \in Nat /\ 0 + ConfigTtl <= ConfigTtl + SetDelay
      BY RowOf, TenantConfigAssumption DEF ReadFrom
    <3> QED
      BY <2>1, <3>1, <3>2 DEF EntryOK, SetWorks
  <2> HIDE DEF e
  <2>3. /\ cached' = [x \in Tenants |-> cached'[x]] /\ cached'[t] = e
        /\ \A x \in Tenants : x # t => cached'[x] = cached[x]
    BY <2>1, OneEntry
  <2> QED
    BY <2>1, <2>2, <2>3, SameRowsMove DEF TenantInv, TenantTypeOK
<1>8. ASSUME NEW t \in Tenants, InvalidateConfig(t) PROVE TenantInv'
  BY <1>8, InvalidateHolds
<1>9. CASE PassTime
  BY <1>9, PassTimeHolds
<1>10. CASE RedisComesAndGoes \/ UNCHANGED tenantVars
  <2>1. UNCHANGED <<cacheKind, versions, floor, cached, lookup>>
    BY <1>10 DEF RedisComesAndGoes, tenantVars
  <2> QED
    BY <2>1, SameRowsMove DEF TenantInv, TenantTypeOK
<1>11. CASE RestartProcess
  <2>1. /\ lookup' = [l \in Lookups |-> AtRest] /\ UNCHANGED <<cacheKind, versions, floor>>
        /\ cached' = IF cacheKind = "memory" THEN [t \in Tenants |-> Uncached] ELSE cached
    BY <1>11 DEF RestartProcess
  <2>2. LookupOK(AtRest)
    BY DEF AtRest, LookupOK
  <2>3. /\ lookup' = [l \in Lookups |-> lookup'[l]] /\ \A l \in Lookups : lookup'[l] = AtRest
    BY <2>1
  <2>4. /\ cached' = [t \in Tenants |-> cached'[t]]
        /\ \A t \in Tenants : cached'[t] = Uncached \/ cached'[t] = cached[t]
    BY <2>1 DEF TenantInv, TenantTypeOK
  <2> QED
    BY <2>1, <2>2, <2>3, <2>4, SameRowsMove DEF TenantInv
<1> QED
  BY <1>1, <1>2, <1>3, <1>4, <1>5, <1>6, <1>7, <1>8, <1>9, <1>10, <1>11
     DEF TenantNext, TenantStep

\* The invariant of the tenants' configuration, for any tenants, rows, lookups and times to
\* live: no entry and no call that will store one is older than the last invalidation, nor
\* older than the entry's time to live allows.
THEOREM TenantInductive == TenantSpec => []TenantInv
<1>1. TenantInit => TenantInv
  <2> SUFFICES ASSUME TenantInit PROVE TenantInv
    OBVIOUS
  <2>1. /\ cacheKind \in {"redis", "memory"} /\ versions \in [Tenants -> {<<row>> : row \in TenantRows}]
        /\ floor = [t \in Tenants |-> 1] /\ cached = [t \in Tenants |-> Uncached]
        /\ lookup = [l \in Lookups |-> AtRest]
    BY DEF TenantInit
  <2>2. \A row \in TenantRows : <<row>> \in Seq(AllRows) /\ Len(<<row>>) = 1
    BY DEF AllRows
  <2>3. \A t \in Tenants : versions[t] \in Seq(AllRows) /\ Len(versions[t]) = 1
    BY <2>1, <2>2
  <2>4. LookupOK(AtRest)
    BY DEF AtRest, LookupOK
  <2>5. TenantTypeOK
    <3>1. versions = [t \in Tenants |-> versions[t]]
      BY <2>1
    <3>2. versions \in [Tenants -> Seq(AllRows)]
      BY <2>3, <3>1
    <3>5. floor \in [Tenants -> Nat] /\ \A t \in Tenants : floor[t] = 1
      BY <2>1
    <3>3. \A t \in Tenants : Len(versions[t]) >= 1 /\ floor[t] <= Len(versions[t])
      <4> SUFFICES ASSUME NEW t \in Tenants PROVE Len(versions[t]) >= 1 /\ floor[t] <= Len(versions[t])
        OBVIOUS
      <4>1. Len(versions[t]) = 1 /\ floor[t] = 1
        BY <2>3, <3>5
      <4>2. 1 >= 1 /\ 1 <= 1
        OBVIOUS
      <4> QED
        BY <4>1, <4>2
    <3>4. cached = [t \in Tenants |-> cached[t]] /\ lookup = [l \in Lookups |-> lookup[l]]
      BY <2>1
    <3> QED
      BY <2>1, <3>5, <3>2, <3>3, <3>4 DEF TenantTypeOK
  <2> QED
    BY <2>1, <2>4, <2>5 DEF TenantInv
<1>2. TenantInv /\ [TenantNext]_tenantVars => TenantInv'
  BY TenantInvStep
<1> QED
  BY <1>1, <1>2, PTL DEF TenantSpec

\* A lookup answers the configuration of a row that the tenant had, read no longer ago
\* than the TTL and the time of a load, and none from before an invalidation that had
\* been answered, but for what some call was just caching (TenantConfigService).
THEOREM ConfigsAreCurrent == TenantSpec => []ConfigsCurrent
<1>1. TenantInv => ConfigsCurrent
  <2> SUFFICES ASSUME TenantInv PROVE ConfigsCurrent
    OBVIOUS
  <2>1. \A a \in Answered : a.at = "answered" /\ LookupOK(a)
    BY DEF Answered, TenantInv
  <2>2. StaleConfigBounded
    BY <2>1 DEF StaleConfigBounded, LookupOK
  <2>3. InvalidationHolds
    BY <2>1 DEF InvalidationHolds, SaysRow, LookupOK, ReadFrom
  <2> QED
    BY <2>2, <2>3 DEF ConfigsCurrent
<1> QED
  BY <1>1, TenantInductive, PTL

----------------------------------------------------------------------------
(* The shared caches.                                                      *)

\* A hit that answers its query, and an answer of embeddings that answers its texts.
AnswersQuery(a) ==
    /\ a.results.query.tenant = a.asked.tenant /\ a.results.query.text = a.asked.text
    /\ usedAs.perUser => a.results.query.user = a.asked.user
    /\ a.results.length <= a.results.of /\ a.results.length <= MaxCachedResults
AnswersTexts(a) ==
    \A f \in a.found : f[2] = Vector(a.tenant, f[1]) /\ f[1] \in ToSet(a.texts)

CallOK(r) ==
    /\ r.at = "count" =>
        /\ Querying /\ r.counter \in Counters
        /\ r.get <=> r.counter \in {"hits", "misses"}
        /\ \A a \in r.answer : AnswersQuery(a)
    /\ r.at \in {"done", "pipe"} => Embeds
    /\ r.at = "done" => \A a \in r.answer : AnswersTexts(a)
    /\ r.at \in {"scan", "scanned"} =>
        /\ Querying
        /\ r = [at |-> r.at, tenant |-> r.tenant, due |-> r.due, since |-> r.since]

\* What a scan has still to delete, of a keyspace with the keys ks.
ScanOK(r, ks) ==
    /\ r.at = "scan" => r.since \cap ks \subseteq r.due
    /\ r.at = "scanned" => r.since \cap ks = {}

\* An entry is under the key of what it was stored for.
ValueOK(k, v) ==
    v # Unreadable =>
        /\ Querying => k = BuildKey(v.query) /\ v.length <= v.of /\ v.length <= MaxCachedResults
        /\ Embeds => k = EmbeddingKey(v.tenant, v.text) /\ v = Vector(v.tenant, v.text)

CountsOK ==
    /\ tally \in [Counters -> Int] /\ lookups \in Int
    /\ meter.at = "reset" => lookups = NotCounted
    /\ EveryLookupCounted

SharedInv ==
    /\ usedAs \in Uses
    /\ keyspace = [k \in DOMAIN keyspace |-> keyspace[k]]
    /\ \A k \in DOMAIN keyspace : ValueOK(k, keyspace[k])
    /\ call = [c \in CacheCallers |-> call[c]]
    /\ \A c \in CacheCallers : CallOK(call[c]) /\ ScanOK(call[c], DOMAIN keyspace)
    /\ CountsOK

\* A behaviour is about query results or about embeddings.
LEMMA AreasDiffer ==
    ASSUME SharedInv
    PROVE  Querying <=> ~Embeds
BY DEF SharedInv, Uses, Querying, Embeds

\* Keys go, and the calls that scan are told.
LEMMA KeysGo ==
    ASSUME SharedInv, NEW ks, NEW c \in CacheCallers, NEW space, space \subseteq DOMAIN keyspace \ ks
    PROVE  /\ CallOK(ScanForgets(call, ks)[c]) /\ ScanOK(ScanForgets(call, ks)[c], space)
           /\ CallOK(call[c]) /\ ScanOK(call[c], space)
<1>1. CallOK(call[c]) /\ ScanOK(call[c], DOMAIN keyspace)
  BY DEF SharedInv
<1>2. ScanOK(call[c], space)
  BY <1>1 DEF ScanOK
<1> DEFINE r == call[c]
           f == ScanForgets(call, ks)[c]
<1>3. f = IF r.at = "scan" THEN [r EXCEPT !.due = r.due \ ks] ELSE r
  BY DEF ScanForgets
<1> HIDE DEF r, f
<1>4. CASE r.at = "scan"
  <2>1. f = [at |-> "scan", tenant |-> r.tenant, due |-> r.due \ ks, since |-> r.since]
    BY <1>1, <1>3, <1>4 DEF CallOK, r
  <2>2. CallOK(f)
    BY <1>1, <1>4, <2>1 DEF CallOK, r
  <2>3. ScanOK(f, space)
    BY <1>1, <1>4, <2>1 DEF ScanOK, r
  <2> QED
    BY <1>1, <1>2, <2>2, <2>3 DEF f
<1>5. CASE r.at # "scan"
  BY <1>1, <1>2, <1>3, <1>5 DEF r, f
<1> QED
  BY <1>4, <1>5

\* A key is stored, and the calls that scan are told.
LEMMA KeyComes ==
    ASSUME SharedInv, NEW k, NEW c \in CacheCallers
    PROVE  /\ CallOK(Resaved(k)[c]) /\ ScanOK(Resaved(k)[c], DOMAIN keyspace \cup {k})
<1>1. CallOK(call[c]) /\ ScanOK(call[c], DOMAIN keyspace)
  BY DEF SharedInv
<1> DEFINE r == call[c]
           f == Resaved(k)[c]
<1>2. f = IF r.at \in {"scan", "scanned"} THEN [r EXCEPT !.since = r.since \ {k}] ELSE r
  BY DEF Resaved
<1> HIDE DEF r, f
<1>3. CASE r.at \in {"scan", "scanned"}
  <2>1. f = [at |-> r.at, tenant |-> r.tenant, due |-> r.due, since |-> r.since \ {k}]
    BY <1>1, <1>2, <1>3 DEF CallOK, r
  <2>2. CallOK(f)
    BY <1>1, <1>3, <2>1 DEF CallOK, r
  <2>3. ScanOK(f, DOMAIN keyspace \cup {k})
    BY <1>1, <1>3, <2>1 DEF ScanOK, r
  <2> QED
    BY <2>2, <2>3 DEF f
<1>4. CASE r.at \notin {"scan", "scanned"}
  <2>1. f = r
    BY <1>2, <1>4
  <2>2. ScanOK(r, DOMAIN keyspace \cup {k})
    BY <1>4 DEF ScanOK
  <2> QED
    BY <1>1, <2>1, <2>2 DEF r, f
<1> QED
  BY <1>3, <1>4

\* What Redis holds after a key is stored, and after some are deleted.
LEMMA PutKeeps ==
    ASSUME SharedInv, NEW k, NEW v, PutEx(k, v), ValueOK(k, v)
    PROVE  /\ keyspace' = [x \in DOMAIN keyspace' |-> keyspace'[x]]
           /\ DOMAIN keyspace' = DOMAIN keyspace \cup {k}
           /\ \A x \in DOMAIN keyspace' : ValueOK(x, keyspace'[x])
BY DEF SharedInv, PutEx, With

\* Keys are deleted.
LEMMA DelKeeps ==
    ASSUME SharedInv, NEW ks, Del(ks)
    PROVE  /\ keyspace' = [x \in DOMAIN keyspace' |-> keyspace'[x]]
           /\ DOMAIN keyspace' = DOMAIN keyspace \ ks
           /\ \A x \in DOMAIN keyspace' : ValueOK(x, keyspace'[x])
BY DEF SharedInv, Del, Restrict

\* A step that counts nothing.
LEMMA CacheMoves ==
    ASSUME SharedInv, UNCHANGED <<usedAs, tally, lookups, meter>>,
           keyspace' = [x \in DOMAIN keyspace' |-> keyspace'[x]],
           \A x \in DOMAIN keyspace' : ValueOK(x, keyspace'[x]),
           call' = [c \in CacheCallers |-> call'[c]],
           \A c \in CacheCallers : CallOK(call'[c]) /\ ScanOK(call'[c], DOMAIN keyspace')
    PROVE  SharedInv'
<1>1. CountsOK'
  BY DEF SharedInv, CountsOK, EveryLookupCounted
<1>2. /\ \A x, v : ValueOK(x, v) <=> ValueOK(x, v)'
      /\ \A r : CallOK(r) <=> CallOK(r)'
      /\ \A r, ks : ScanOK(r, ks) <=> ScanOK(r, ks)'
  BY DEF ValueOK, CallOK, ScanOK, Querying, Embeds, BuildKey, AnswersQuery, AnswersTexts
<1> QED
  BY <1>1, <1>2 DEF SharedInv

\* One call moves, and nothing else.
LEMMA OneCallMoves ==
    ASSUME SharedInv, NEW c \in CacheCallers, NEW r, call' = [call EXCEPT ![c] = r],
           CallOK(r), ScanOK(r, DOMAIN keyspace),
           UNCHANGED <<usedAs, keyspace, tally, lookups, meter>>
    PROVE  SharedInv'
<1>1. /\ call' = [d \in CacheCallers |-> call'[d]] /\ call'[c] = r
      /\ \A d \in CacheCallers : d # c => call'[d] = call[d]
  BY DEF SharedInv
<1> QED
  BY <1>1, CacheMoves DEF SharedInv

\* A call that goes on to be counted keeps the answer it got.
LEMMA CountingOK ==
    ASSUME SharedInv, Querying, NEW x \in Counters \ {"hits", "misses"}, NEW ks
    PROVE  CallOK(Counting(x)) /\ ScanOK(Counting(x), ks)
BY DEF CallOK, ScanOK, Counting, NoAnswer

\* So does a lookup.
LEMMA LookupCounts ==
    ASSUME SharedInv, Querying, NEW x \in {"hits", "misses"}, NEW answer, NEW ks,
           \A a \in answer : AnswersQuery(a)
    PROVE  CallOK(CountingGet(x, answer)) /\ ScanOK(CountingGet(x, answer), ks)
BY DEF CallOK, ScanOK, CountingGet, Counters

\* A call that has ended.
LEMMA IdleOK ==
    ASSUME NEW ks
    PROVE  CallOK(NoCall) /\ ScanOK(NoCall, ks)
BY DEF CallOK, ScanOK, NoCall

\* QueryCache::get.
LEMMA GetResultsKeeps ==
    ASSUME SharedInv, NEW c \in CacheCallers, NEW q, GetResults(c, q)
    PROVE  SharedInv'
<1>1. CASE /\ usedAs.enabled /\ Parses(BuildKey(q))
           /\ call' = [call EXCEPT ![c] =
                 CountingGet("hits", {[asked |-> q, results |-> keyspace[BuildKey(q)]]})]
  <2> DEFINE v == keyspace[BuildKey(q)]
             answer == {[asked |-> q, results |-> v]}
  <2>1. BuildKey(q) \in DOMAIN keyspace /\ v # Unreadable
    BY <1>1 DEF Parses, Present
  <2>2. /\ BuildKey(q) = BuildKey(v.query)
        /\ v.length <= v.of /\ v.length <= MaxCachedResults
    BY <2>1 DEF SharedInv, ValueOK, GetResults
  <2>3. v.query.tenant = q.tenant /\ v.query.text = q.text /\ (usedAs.perUser => v.query.user = q.user)
    BY <2>2 DEF BuildKey
  <2>4. \A a \in answer : AnswersQuery(a)
    BY <2>2, <2>3 DEF AnswersQuery
  <2> HIDE DEF v, answer
  <2>5. CallOK(CountingGet("hits", answer)) /\ ScanOK(CountingGet("hits", answer), DOMAIN keyspace)
    BY <2>4, LookupCounts DEF GetResults
  <2>6. call' = [call EXCEPT ![c] = CountingGet("hits", answer)]
    BY <1>1 DEF answer, v
  <2> QED
    BY <2>5, <2>6, OneCallMoves DEF GetResults
<1>2. CASE call' = [call EXCEPT ![c] = Miss]
  <2>1. CallOK(Miss) /\ ScanOK(Miss, DOMAIN keyspace)
    BY LookupCounts DEF GetResults, Miss, NoAnswer
  <2> QED
    BY <1>2, <2>1, OneCallMoves DEF GetResults
<1> QED
  BY <1>1, <1>2 DEF GetResults

\* QueryCache::set.
LEMMA SetResultsKeeps ==
    ASSUME SharedInv, NEW c \in CacheCallers, NEW q, NEW n \in Lengths, SetResults(c, q, n)
    PROVE  SharedInv'
<1>1. CASE /\ usedAs.enabled
           /\ PutEx(BuildKey(q), [query |-> q, length |-> Cap(n), of |-> n])
           /\ call' = [Resaved(BuildKey(q)) EXCEPT ![c] = Counting("sets")]
  <2> DEFINE k == BuildKey(q)
             v == [query |-> q, length |-> Cap(n), of |-> n]
  <2>1. Querying /\ ~Embeds
    BY AreasDiffer DEF SetResults
  <2>2. Cap(n) <= n /\ Cap(n) <= MaxCachedResults
    BY SharedCacheAssumption DEF Cap
  <2>3. ValueOK(k, v)
    BY <2>1, <2>2 DEF ValueOK
  <2>4. PutEx(k, v)
    BY <1>1
  <2> HIDE DEF k, v
  <2>5. /\ keyspace' = [x \in DOMAIN keyspace' |-> keyspace'[x]]
        /\ DOMAIN keyspace' = DOMAIN keyspace \cup {k}
        /\ \A x \in DOMAIN keyspace' : ValueOK(x, keyspace'[x])
    BY <2>3, <2>4, PutKeeps
  <2>6. /\ call' = [d \in CacheCallers |-> call'[d]] /\ call'[c] = Counting("sets")
        /\ \A d \in CacheCallers : d # c => call'[d] = Resaved(k)[d]
    BY <1>1 DEF Resaved, k
  <2>7. CallOK(call'[c]) /\ ScanOK(call'[c], DOMAIN keyspace')
    BY <2>1, <2>6, CountingOK DEF Counters
  <2>8. \A d \in CacheCallers : CallOK(call'[d]) /\ ScanOK(call'[d], DOMAIN keyspace')
    <3> SUFFICES ASSUME NEW d \in CacheCallers
                 PROVE  CallOK(call'[d]) /\ ScanOK(call'[d], DOMAIN keyspace')
      OBVIOUS
    <3>1. CASE d = c
      BY <2>7, <3>1
    <3>2. CASE d # c
      <4>1. call'[d] = Resaved(k)[d]
        BY <2>6, <3>2
      <4>2. CallOK(Resaved(k)[d]) /\ ScanOK(Resaved(k)[d], DOMAIN keyspace \cup {k})
        BY KeyComes
      <4> QED
        BY <2>5, <4>1, <4>2
    <3> QED
      BY <3>1, <3>2
  <2> QED
    BY <2>5, <2>6, <2>8, CacheMoves DEF SetResults
<1>2. CASE /\ call' = [call EXCEPT ![c] = Counting(IF usedAs.enabled THEN "errors" ELSE "sets")]
           /\ UNCHANGED <<keyspace, writes>>
  <2> DEFINE x == IF usedAs.enabled THEN "errors" ELSE "sets"
  <2>1. x \in Counters \ {"hits", "misses"}
    BY DEF Counters
  <2> HIDE DEF x
  <2>2. CallOK(Counting(x)) /\ ScanOK(Counting(x), DOMAIN keyspace)
    BY <2>1, CountingOK DEF SetResults
  <2>3. call' = [call EXCEPT ![c] = Counting(x)]
    BY <1>2 DEF x
  <2> QED
    BY <1>2, <2>2, <2>3, OneCallMoves DEF SetResults
<1> QED
  BY <1>1, <1>2 DEF SetResults

\* QueryCache::invalidate.
LEMMA InvalidateResultsKeeps ==
    ASSUME SharedInv, NEW c \in CacheCallers, NEW q, InvalidateResults(c, q)
    PROVE  SharedInv'
<1>1. CASE /\ usedAs.enabled /\ Del({BuildKey(q)})
           /\ call' = [ScanForgets(call, {BuildKey(q)}) EXCEPT ![c] = Counting("invalidations")]
  <2> DEFINE ks == {BuildKey(q)}
  <2>1. Del(ks) /\ call' = [ScanForgets(call, ks) EXCEPT ![c] = Counting("invalidations")]
    BY <1>1
  <2> HIDE DEF ks
  <2>2. /\ keyspace' = [x \in DOMAIN keyspace' |-> keyspace'[x]]
        /\ DOMAIN keyspace' = DOMAIN keyspace \ ks
        /\ \A x \in DOMAIN keyspace' : ValueOK(x, keyspace'[x])
    BY <2>1, DelKeeps
  <2>3. /\ call' = [d \in CacheCallers |-> call'[d]] /\ call'[c] = Counting("invalidations")
        /\ \A d \in CacheCallers : d # c => call'[d] = ScanForgets(call, ks)[d]
    BY <2>1 DEF ScanForgets
  <2>4. CallOK(call'[c]) /\ ScanOK(call'[c], DOMAIN keyspace')
    BY <2>3, CountingOK DEF Counters, InvalidateResults
  <2>5. \A d \in CacheCallers : CallOK(call'[d]) /\ ScanOK(call'[d], DOMAIN keyspace')
    BY <2>2, <2>3, <2>4, KeysGo
  <2> QED
    BY <2>2, <2>3, <2>5, CacheMoves DEF InvalidateResults
<1>2. CASE /\ call' = [call EXCEPT ![c] =
                 Counting(IF usedAs.enabled THEN "errors" ELSE "invalidations")]
           /\ UNCHANGED keyspace
  <2> DEFINE x == IF usedAs.enabled THEN "errors" ELSE "invalidations"
  <2>1. x \in Counters \ {"hits", "misses"}
    BY DEF Counters
  <2> HIDE DEF x
  <2>2. CallOK(Counting(x)) /\ ScanOK(Counting(x), DOMAIN keyspace)
    BY <2>1, CountingOK DEF InvalidateResults
  <2>3. call' = [call EXCEPT ![c] = Counting(x)]
    BY <1>2 DEF x
  <2> QED
    BY <1>2, <2>2, <2>3, OneCallMoves DEF InvalidateResults
<1> QED
  BY <1>1, <1>2 DEF InvalidateResults

\* CacheStats counts the call.
LEMMA CountCallKeeps ==
    ASSUME SharedInv, NEW c \in CacheCallers, CountCall(c)
    PROVE  SharedInv'
<1> DEFINE x == call[c].counter
<1>1. /\ call[c].at = "count" /\ CallOK(call[c])
      /\ tally' = [tally EXCEPT ![x] = tally[x] + 1]
      /\ call' = [call EXCEPT ![c] = NoCall]
  BY DEF CountCall, SharedInv
<1>2. x \in Counters /\ (call[c].get <=> x \in {"hits", "misses"})
  BY <1>1 DEF CallOK
<1>3. tally \in [Counters -> Int] /\ lookups \in Int
  BY DEF SharedInv, CountsOK
<1> HIDE DEF x
<1>4. tally' \in [Counters -> Int] /\ lookups' \in Int
  BY <1>1, <1>2, <1>3 DEF CountCall
<1>5. EveryLookupCounted'
  <2>1. /\ tally.hits \in Int /\ tally.misses \in Int
        /\ tally'.hits = IF x = "hits" THEN tally.hits + 1 ELSE tally.hits
        /\ tally'.misses = IF x = "misses" THEN tally.misses + 1 ELSE tally.misses
    BY <1>1, <1>2, <1>3 DEF Counters
  <2>2. lookups' = IF lookups # NotCounted /\ x \in {"hits", "misses"} THEN lookups + 1 ELSE lookups
    BY <1>2 DEF CountCall
  <2>3. lookups # NotCounted => tally.hits + tally.misses = lookups
    BY DEF SharedInv, CountsOK, EveryLookupCounted
  <2>4. ASSUME lookups' # NotCounted
        PROVE  lookups # NotCounted
    BY <2>2, <2>4
  <2>5. ASSUME lookups' # NotCounted
        PROVE  tally'.hits + tally'.misses = lookups'
    BY <1>3, <2>1, <2>2, <2>3, <2>4, <2>5
  <2> QED
    BY <2>5 DEF EveryLookupCounted
<1>6. CountsOK'
  BY <1>2, <1>4, <1>5 DEF CountsOK, SharedInv, CountCall, NotCounted
<1>7. /\ call' = [d \in CacheCallers |-> call'[d]] /\ call'[c] = NoCall
      /\ \A d \in CacheCallers : d # c => call'[d] = call[d]
  BY <1>1 DEF SharedInv
<1>8. /\ \A k, v : ValueOK(k, v) <=> ValueOK(k, v)'
      /\ \A r : CallOK(r) <=> CallOK(r)'
      /\ \A r, ks : ScanOK(r, ks) <=> ScanOK(r, ks)'
  BY DEF ValueOK, CallOK, ScanOK, Querying, Embeds, BuildKey, AnswersQuery, AnswersTexts, CountCall
<1>9. \A d \in CacheCallers : CallOK(call'[d]) /\ ScanOK(call'[d], DOMAIN keyspace)
  BY <1>7, IdleOK DEF SharedInv
<1> QED
  BY <1>6, <1>7, <1>8, <1>9 DEF SharedInv, CountCall

\* invalidate_tenant begins: what is there is due.
LEMMA InvalidateTenantKeeps ==
    ASSUME SharedInv, NEW c \in CacheCallers, NEW t, InvalidateTenant(c, t)
    PROVE  SharedInv'
<1> DEFINE r == [at |-> "scan", tenant |-> t, due |-> KeysOfTenant(t), since |-> KeysOfTenant(t)]
<1>1. CallOK(r)
  BY DEF CallOK, InvalidateTenant
<1>2. ScanOK(r, DOMAIN keyspace)
  BY DEF ScanOK
<1>3. call' = [call EXCEPT ![c] = r]
  BY DEF InvalidateTenant
<1> HIDE DEF r
<1> QED
  BY <1>1, <1>2, <1>3, OneCallMoves DEF InvalidateTenant

\* The batch that ends the scan has every key that is still due.
LEMMA ScanBatchKeeps ==
    ASSUME SharedInv, NEW c \in CacheCallers, NEW batch, NEW last \in BOOLEAN, ScanBatch(c, batch, last)
    PROVE  SharedInv'
<1> DEFINE r == call[c]
           s == [at |-> IF last THEN "scanned" ELSE "scan", tenant |-> r.tenant,
                 due |-> (r.due \ batch) \ batch, since |-> r.since]
<1>1. /\ r.at = "scan" /\ CallOK(r) /\ ScanOK(r, DOMAIN keyspace)
      /\ last => r.due \subseteq batch
      /\ Del(batch)
  BY DEF ScanBatch, Scanned, SharedInv
<1>2. /\ keyspace' = [x \in DOMAIN keyspace' |-> keyspace'[x]]
      /\ DOMAIN keyspace' = DOMAIN keyspace \ batch
      /\ \A x \in DOMAIN keyspace' : ValueOK(x, keyspace'[x])
  BY <1>1, DelKeeps
<1>3. r = [at |-> "scan", tenant |-> r.tenant, due |-> r.due, since |-> r.since] /\ Querying
  BY <1>1 DEF CallOK
<1>4. /\ call' = [d \in CacheCallers |-> call'[d]] /\ call'[c] = s
      /\ \A d \in CacheCallers : d # c => call'[d] = ScanForgets(call, batch)[d]
  <2>1. ScanForgets(call, batch)[c] =
            [at |-> "scan", tenant |-> r.tenant, due |-> r.due \ batch, since |-> r.since]
    <3>1. ScanForgets(call, batch)[c] = [call[c] EXCEPT !.due = call[c].due \ batch]
      BY <1>1 DEF ScanForgets
    <3> HIDE DEF r
    <3>2. call[c] = r
      BY DEF r
    <3> QED
      BY <1>3, <3>1, <3>2
  <2> DEFINE calls == ScanForgets(call, batch)
  <2>2. calls = [d \in CacheCallers |-> calls[d]]
    BY DEF ScanForgets
  <2>3. call' = [calls EXCEPT ![c] =
           [at |-> IF last THEN "scanned" ELSE "scan", tenant |-> calls[c].tenant,
            due |-> calls[c].due \ batch, since |-> calls[c].since]]
    BY DEF ScanBatch, CursorEnds
  <2>4. calls[c].tenant = r.tenant /\ calls[c].due = r.due \ batch /\ calls[c].since = r.since
    BY <2>1
  <2> HIDE DEF calls, r
  <2>5. /\ call' = [d \in CacheCallers |-> call'[d]] /\ call'[c] = s
        /\ \A d \in CacheCallers : d # c => call'[d] = calls[d]
    BY <2>2, <2>3, <2>4
  <2> QED
    BY <2>5 DEF calls
<1>5. CallOK(s)
  BY <1>3 DEF CallOK
<1>6. ScanOK(s, DOMAIN keyspace')
  BY <1>1, <1>2 DEF ScanOK
<1> HIDE DEF r, s
<1>7. \A d \in CacheCallers : CallOK(call'[d]) /\ ScanOK(call'[d], DOMAIN keyspace')
  BY <1>2, <1>4, <1>5, <1>6, KeysGo
<1> QED
  BY <1>2, <1>4, <1>7, CacheMoves DEF ScanBatch

\* A failing command ends the call.
LEMMA CallEnds ==
    ASSUME SharedInv, NEW c \in CacheCallers, ScanFails(c) \/ CommandFails(c)
    PROVE  SharedInv'
<1>1. call' = [call EXCEPT ![c] = NoCall]
  BY DEF ScanFails, CommandFails
<1>2. UNCHANGED <<usedAs, keyspace, tally, lookups, meter>>
  BY DEF ScanFails, CommandFails
<1> QED
  BY <1>1, <1>2, IdleOK, OneCallMoves

\* Where embeddings are cached, nothing scans.
LEMMA NothingScans ==
    ASSUME SharedInv, Embeds, NEW c \in CacheCallers, NEW ks
    PROVE  /\ call[c].at \notin {"scan", "scanned"}
           /\ CallOK(call[c]) /\ ScanOK(call[c], ks)
BY AreasDiffer DEF SharedInv, CallOK, ScanOK

\* EmbeddingCache::get and get_many: the values are in the order of the keys.
LEMMA GetEmbeddingsKeeps ==
    ASSUME SharedInv, NEW c \in CacheCallers, NEW t, NEW texts \in Batches, GetEmbeddings(c, t, texts)
    PROVE  SharedInv'
<1> DEFINE values == Values(t, texts)
           a == [tenant |-> t, texts |-> texts, found |-> Zipped(texts, values)]
           r == [at |-> "done", answer |-> {a}]
<1>1. Embeds /\ ~Querying
  BY AreasDiffer DEF GetEmbeddings
<1>2. CASE \E i \in DOMAIN texts : values[i] = Unreadable
  <2>1. call' = [call EXCEPT ![c] = NoCall]
    BY <1>2 DEF GetEmbeddings
  <2> QED
    BY <2>1, IdleOK, OneCallMoves DEF GetEmbeddings
<1>3. CASE ~\E i \in DOMAIN texts : values[i] = Unreadable
  <2>1. call' = [call EXCEPT ![c] = r]
    BY <1>3 DEF GetEmbeddings
  <2>2. ASSUME NEW i \in DOMAIN texts, values[i] # NoVector
        PROVE  values[i] = Vector(t, texts[i])
    <3> DEFINE k == EmbeddingKey(t, texts[i])
    <3>1. k \in DOMAIN keyspace /\ values[i] = keyspace[k]
      BY <2>2 DEF Values, Present
    <3>2. values[i] # Unreadable
      BY <1>3
    <3> HIDE DEF values
    <3>3. /\ k = EmbeddingKey(keyspace[k].tenant, keyspace[k].text)
          /\ keyspace[k] = Vector(keyspace[k].tenant, keyspace[k].text)
      BY <1>1, <3>1, <3>2 DEF SharedInv, ValueOK
    <3>4. keyspace[k].tenant = t /\ keyspace[k].text = texts[i]
      BY <3>3 DEF EmbeddingKey
    <3> QED
      BY <3>1, <3>3, <3>4
  <2> HIDE DEF values
  <2>3. \A f \in Zipped(texts, values) :
            \E i \in DOMAIN texts : values[i] # NoVector /\ f = <<texts[i], values[i]>>
    BY DEF Zipped
  <2>4. \A i \in DOMAIN texts : texts[i] \in ToSet(texts)
    BY DEF ToSet
  <2>5. AnswersTexts(a)
    BY <2>2, <2>3, <2>4 DEF AnswersTexts
  <2>6. CallOK(r) /\ ScanOK(r, DOMAIN keyspace)
    BY <1>1, <2>5 DEF CallOK, ScanOK
  <2> HIDE DEF r
  <2> QED
    BY <2>1, <2>6, OneCallMoves DEF GetEmbeddings
<1> QED
  BY <1>2, <1>3

\* EmbeddingCache::set and set_many begin.
LEMMA SetEmbeddingsKeeps ==
    ASSUME SharedInv, NEW c \in CacheCallers, NEW t, NEW texts, SetEmbeddings(c, t, texts)
    PROVE  SharedInv'
<1> DEFINE r == [at |-> "pipe", tenant |-> t, texts |-> texts]
<1>1. CallOK(r) /\ ScanOK(r, DOMAIN keyspace)
  BY DEF CallOK, ScanOK, SetEmbeddings
<1>2. call' = [call EXCEPT ![c] = r]
  BY DEF SetEmbeddings
<1> HIDE DEF r
<1> QED
  BY <1>1, <1>2, OneCallMoves DEF SetEmbeddings

\* One command of their pipeline.
LEMMA PipeNextKeeps ==
    ASSUME SharedInv, NEW c \in CacheCallers, PipeNext(c)
    PROVE  SharedInv'
<1> DEFINE r == call[c]
           k == EmbeddingKey(r.tenant, Head(r.texts))
           v == Vector(r.tenant, Head(r.texts))
<1>1. r.at = "pipe" /\ Embeds /\ ~Querying
  BY AreasDiffer DEF PipeNext, SharedInv, CallOK
<1>2. v.tenant = r.tenant /\ v.text = Head(r.texts)
  BY DEF Vector
<1>3. ValueOK(k, v)
  BY <1>1, <1>2 DEF ValueOK
<1>4. PutEx(k, v)
  BY DEF PipeNext
<1> HIDE DEF k, v
<1>5. /\ keyspace' = [x \in DOMAIN keyspace' |-> keyspace'[x]]
      /\ \A x \in DOMAIN keyspace' : ValueOK(x, keyspace'[x])
  BY <1>3, <1>4, PutKeeps
<1>6. /\ call' = [d \in CacheCallers |-> call'[d]]
      /\ \A d \in CacheCallers : d # c => call'[d] = call[d]
  BY DEF PipeNext, SharedInv
<1>7. CallOK(call'[c]) /\ ScanOK(call'[c], DOMAIN keyspace')
  <2>1. CASE Tail(r.texts) = <<>>
    <3>1. call'[c] = [at |-> "done", answer |-> NoAnswer]
      BY <2>1 DEF PipeNext, SharedInv
    <3> QED
      BY <1>1, <3>1 DEF CallOK, ScanOK, NoAnswer
  <2>2. CASE Tail(r.texts) # <<>>
    <3>1. call'[c] = [call[c] EXCEPT !.texts = Tail(r.texts)]
      BY <2>2 DEF PipeNext, SharedInv
    <3>2. call'[c].at = "pipe"
      BY <1>1, <3>1
    <3> QED
      BY <1>1, <3>2 DEF CallOK, ScanOK
  <2> QED
    BY <2>1, <2>2
<1>8. \A d \in CacheCallers : CallOK(call'[d]) /\ ScanOK(call'[d], DOMAIN keyspace')
  BY <1>1, <1>6, <1>7, NothingScans
<1> QED
  BY <1>5, <1>6, <1>8, CacheMoves DEF PipeNext

\* EmbeddingCache::delete.
LEMMA DeleteEmbeddingKeeps ==
    ASSUME SharedInv, NEW c \in CacheCallers, NEW t, NEW text, DeleteEmbedding(c, t, text)
    PROVE  SharedInv'
<1> DEFINE r == [at |-> "done", answer |-> NoAnswer]
<1>1. /\ keyspace' = [x \in DOMAIN keyspace' |-> keyspace'[x]]
      /\ \A x \in DOMAIN keyspace' : ValueOK(x, keyspace'[x])
  BY DelKeeps DEF DeleteEmbedding
<1>2. CallOK(r) /\ ScanOK(r, DOMAIN keyspace')
  BY DEF CallOK, ScanOK, NoAnswer, DeleteEmbedding
<1>3. /\ call' = [d \in CacheCallers |-> call'[d]] /\ call'[c] = r
      /\ \A d \in CacheCallers : d # c => call'[d] = call[d]
  BY DEF DeleteEmbedding, SharedInv
<1> HIDE DEF r
<1>4. \A d \in CacheCallers : CallOK(call'[d]) /\ ScanOK(call'[d], DOMAIN keyspace')
  BY <1>2, <1>3, NothingScans DEF DeleteEmbedding
<1> QED
  BY <1>1, <1>3, <1>4, CacheMoves DEF DeleteEmbedding

\* An entry ends on its own.
LEMMA ExpireEntryKeeps ==
    ASSUME SharedInv, NEW k, ExpireEntry(k)
    PROVE  SharedInv'
<1> DEFINE ks == {k}
<1>1. Del(ks) /\ call' = ScanForgets(call, ks)
  BY DEF ExpireEntry
<1> HIDE DEF ks
<1>2. /\ keyspace' = [x \in DOMAIN keyspace' |-> keyspace'[x]]
      /\ DOMAIN keyspace' = DOMAIN keyspace \ ks
      /\ \A x \in DOMAIN keyspace' : ValueOK(x, keyspace'[x])
  BY <1>1, DelKeeps
<1>3. call' = [d \in CacheCallers |-> call'[d]]
  BY <1>1 DEF ScanForgets
<1>4. \A d \in CacheCallers : CallOK(call'[d]) /\ ScanOK(call'[d], DOMAIN keyspace')
  BY <1>1, <1>2, KeysGo
<1> QED
  BY <1>2, <1>3, <1>4, CacheMoves DEF ExpireEntry

\* Another version of the code stores a value.
LEMMA StoreUnreadableKeeps ==
    ASSUME SharedInv, NEW k, StoreUnreadable(k)
    PROVE  SharedInv'
<1>1. k \in DOMAIN keyspace /\ keyspace' = [keyspace EXCEPT ![k] = Unreadable]
  BY DEF StoreUnreadable, Present
<1>2. /\ DOMAIN keyspace' = DOMAIN keyspace
      /\ keyspace' = [x \in DOMAIN keyspace' |-> keyspace'[x]]
      /\ \A x \in DOMAIN keyspace : keyspace'[x] = IF x = k THEN Unreadable ELSE keyspace[x]
  BY <1>1 DEF SharedInv
<1>3. \A x \in DOMAIN keyspace' : ValueOK(x, keyspace'[x])
  BY <1>2 DEF SharedInv, ValueOK
<1> QED
  BY <1>2, <1>3, CacheMoves DEF StoreUnreadable, SharedInv

\* Reading the rate changes no counter; a reset ends the comparison.
LEMMA MeterKeeps ==
    ASSUME SharedInv, ReadRate \/ Reset
    PROVE  SharedInv'
<1>1. UNCHANGED <<usedAs, keyspace, call>>
  BY DEF ReadRate, Reset
<1>2. /\ \A k, v : ValueOK(k, v) <=> ValueOK(k, v)'
      /\ \A r : CallOK(r) <=> CallOK(r)'
      /\ \A r, ks : ScanOK(r, ks) <=> ScanOK(r, ks)'
  BY <1>1 DEF ValueOK, CallOK, ScanOK, Querying, Embeds, BuildKey, AnswersQuery, AnswersTexts
<1>3. CountsOK'
  <2>1. CASE ReadRate
    <3>1. UNCHANGED <<tally, lookups>>
      BY <2>1 DEF ReadRate
    <3>2. meter'.at = "reset" => meter.at = "reset"
      <4>1. CASE ReadHits
        BY <4>1 DEF ReadHits
      <4>2. CASE ReadMisses
        BY <4>2 DEF ReadMisses
      <4>3. CASE ReadHitsAgain
        BY <4>3 DEF ReadHitsAgain
      <4>4. CASE ReportRate
        BY <4>4 DEF ReportRate, MeterOff
      <4> QED
        BY <2>1, <4>1, <4>2, <4>3, <4>4 DEF ReadRate
    <3> QED
      BY <3>1, <3>2 DEF SharedInv, CountsOK, EveryLookupCounted
  <2>2. CASE Reset
    <3>1. lookups' = NotCounted /\ NotCounted \in Int
      BY <2>2 DEF Reset, NotCounted
    <3>2. tally' = tally \/ \E x : tally' = [tally EXCEPT ![x] = 0]
      BY <2>2 DEF Reset
    <3>3. tally' \in [Counters -> Int]
      BY <3>2 DEF SharedInv, CountsOK
    <3> QED
      BY <3>1, <3>3 DEF CountsOK, EveryLookupCounted
  <2> QED
    BY <2>1, <2>2
<1> QED
  BY <1>1, <1>2, <1>3 DEF SharedInv

\* The invariant of the caches holds at the start.
LEMMA SharedStarts ==
    ASSUME CacheInit
    PROVE  SharedInv
<1>1. keyspace = <<>> /\ DOMAIN keyspace = {}
  BY DEF CacheInit
<1>2. keyspace = [k \in DOMAIN keyspace |-> keyspace[k]]
  BY <1>1
<1>3. \A c \in CacheCallers : CallOK(call[c]) /\ ScanOK(call[c], DOMAIN keyspace)
  BY IdleOK DEF CacheInit
<1>4. CountsOK
  BY DEF CacheInit, CountsOK, EveryLookupCounted, Counters, MeterOff
<1> QED
  BY <1>1, <1>2, <1>3, <1>4 DEF CacheInit, SharedInv

\* Every step preserves it.
LEMMA SharedStep ==
    ASSUME SharedInv, [CacheNext]_cacheVars
    PROVE  SharedInv'
<1>1. ASSUME NEW c \in CacheCallers, QueryCacheStep(c)
      PROVE  SharedInv'
  BY <1>1, GetResultsKeeps, SetResultsKeeps, InvalidateResultsKeeps, CountCallKeeps,
     InvalidateTenantKeeps, ScanBatchKeeps, CallEnds DEF QueryCacheStep
<1>2. ASSUME NEW c \in CacheCallers, EmbeddingCacheStep(c)
      PROVE  SharedInv'
  BY <1>2, GetEmbeddingsKeeps, SetEmbeddingsKeeps, PipeNextKeeps, CallEnds, DeleteEmbeddingKeeps
     DEF EmbeddingCacheStep
<1>3. ASSUME NEW k, ExpireEntry(k) \/ StoreUnreadable(k)
      PROVE  SharedInv'
  BY <1>3, ExpireEntryKeeps, StoreUnreadableKeeps
<1>4. CASE UNCHANGED cacheVars
  <2>1. UNCHANGED <<usedAs, keyspace, call, tally, lookups, meter>>
    BY <1>4 DEF cacheVars
  <2> QED
    BY <2>1, CacheMoves DEF SharedInv
<1> QED
  BY <1>1, <1>2, <1>3, <1>4, MeterKeeps DEF CacheNext

\* The invariant of the caches, for any callers, queries, texts, limits and failures.
THEOREM SharedInductive == CacheSpec => []SharedInv
<1>1. CacheInit => SharedInv
  BY SharedStarts
<1>2. SharedInv /\ [CacheNext]_cacheVars => SharedInv'
  BY SharedStep
<1> QED
  BY <1>1, <1>2, PTL DEF CacheSpec

\* What the shared caches answer was stored for that query, tenant and user, or for those
\* texts; a tenant that is invalidated is deleted completely whatever SCAN returns; and
\* every lookup is counted (QueryCache, CacheStats, EmbeddingCache).
THEOREM CachesAreTruthful == CacheSpec => []CacheTruthful
<1>1. SharedInv => CacheTruthful
  <2> SUFFICES ASSUME SharedInv
               PROVE  CacheTruthful
    OBVIOUS
  <2>1. TenantScanComplete
    BY DEF TenantScanComplete, SharedInv, ScanOK
  <2>2. ASSUME NEW c \in CacheCallers, NEW a \in AnswerOf(c)
        PROVE  /\ Querying => AnswersQuery(a)
               /\ Embeds => AnswersTexts(a)
    <3>1. CallOK(call[c])
      BY DEF SharedInv
    <3>2. call[c].at \in {"count", "done"} /\ a \in call[c].answer
      BY DEF AnswerOf, NoAnswer
    <3> QED
      BY <3>1, <3>2, AreasDiffer DEF CallOK
  <2>3. HitsAnswerTheQuery
    BY <2>2 DEF HitsAnswerTheQuery, AnswersQuery
  <2>4. EmbeddingsMatchTexts
    BY <2>2 DEF EmbeddingsMatchTexts, AnswersTexts
  <2> QED
    BY <2>1, <2>3, <2>4 DEF CacheTruthful, SharedInv, CountsOK
<1> QED
  BY <1>1, SharedInductive, PTL

----------------------------------------------------------------------------
(* The stores of the search.                                               *)

\* The values of a function on a finite set are finitely many.
LEMMA ImageFinite ==
    ASSUME NEW S, IsFiniteSet(S), NEW f
    PROVE  IsFiniteSet({f[x] : x \in S})
<1> DEFINE T == {f[x] : x \in S}
           g == [x \in S |-> f[x]]
<1>1. g \in [S -> T] /\ \A t \in T : \E x \in S : g[x] = t
  OBVIOUS
<1> HIDE DEF T, g
<1>2. g \in Surjection(S, T)
  BY <1>1, Fun_IsSurj
<1>3. IsFiniteSet(T)
  BY <1>2, FS_Surjection
<1> QED
  BY <1>3 DEF T

\* The order in which a search shows what it has found.
Descends(s, score) == \A i, j \in DOMAIN s : i < j => score[s[i]] >= score[s[j]]

LEMMA SeqsAre ==
    ASSUME NEW S, NEW f
    PROVE  f \in SetToSeqs(S) <=>
               /\ f \in [1 .. Cardinality(S) -> S]
               /\ \A i, j \in 1 .. Cardinality(S) : i # j => f[i] # f[j]
BY DEF SetToSeqs

\* A finite set can be listed in the order of its scores.
LEMMA SortedExists ==
    ASSUME NEW S, IsFiniteSet(S), NEW score, \A c \in S : score[c] \in Nat
    PROVE  \E s \in SetToSeqs(S) : Descends(s, score)
<1> DEFINE n == Cardinality(S)
           Sorted(T) == \E s \in SetToSeqs(T) : Descends(s, score)
           Good == {m \in 0 .. n : \A T \in SUBSET S : Cardinality(T) = m => Sorted(T)}
<1>1. n \in Nat /\ 0 \in 0 .. n
  BY FS_CardinalityType
<1>2. 0 \in Good
  <2> SUFFICES ASSUME NEW T \in SUBSET S, Cardinality(T) = 0 PROVE Sorted(T)
    BY <1>1
  <2>1. <<>> \in [1 .. 0 -> T] /\ DOMAIN <<>> = {} /\ 1 .. 0 = {}
    OBVIOUS
  <2>2. <<>> \in SetToSeqs(T)
    BY <2>1, SeqsAre
  <2> QED
    BY <2>1, <2>2 DEF Descends
<1>3. ASSUME NEW m \in 0 .. n - 1, m \in Good PROVE m + 1 \in Good
  <2>1. m \in Nat /\ m + 1 \in 0 .. n
    BY <1>1
  <2> SUFFICES ASSUME NEW T \in SUBSET S, Cardinality(T) = m + 1 PROVE Sorted(T)
    BY <2>1
  <2>2. IsFiniteSet(T) /\ T # {}
    BY <2>1, FS_Subset, FS_EmptySet
  <2> DEFINE Scores == {score[c] : c \in T}
             least == CHOOSE x \in Scores : \A w \in Scores : x <= w
  <2>3. Scores \in SUBSET Nat /\ Scores # {}
    BY <2>2
  <2>4. least \in Scores /\ \A w \in Scores : least <= w
    <3> HIDE DEF Scores
    <3> QED
      BY <2>3, LeastOf
  <2> HIDE DEF least
  <2>5. PICK e \in T : \A c \in T : score[c] >= score[e]
    BY <2>4
  <2>6. Cardinality(T \ {e}) = m /\ T \ {e} \in SUBSET S
    <3>1. Cardinality(T \ {e}) = Cardinality(T) - 1
      BY <2>2, <2>5, FS_RemoveElement
    <3> QED
      BY <2>1, <3>1
  <2>7. PICK s \in SetToSeqs(T \ {e}) : Descends(s, score)
    BY <1>3, <2>6
  <2>8. s \in [1 .. m -> T \ {e}] /\ \A i, j \in 1 .. m : i # j => s[i] # s[j]
    BY <2>6, SeqsAre
  <2> DEFINE t == [i \in 1 .. m + 1 |-> IF i = m + 1 THEN e ELSE s[i]]
  <2>9. ASSUME NEW i \in 1 .. m + 1
        PROVE  t[i] \in T /\ (i # m + 1 => i \in 1 .. m /\ t[i] = s[i] /\ t[i] # e)
                          /\ (i = m + 1 => t[i] = e)
    BY <2>1, <2>8
  <2>10. DOMAIN t = 1 .. m + 1 /\ t \in [1 .. m + 1 -> T]
    BY <2>9
  <2> HIDE DEF t
  <2>11. \A i, j \in 1 .. m + 1 : i # j => t[i] # t[j]
    BY <2>8, <2>9
  <2>12. t \in SetToSeqs(T)
    BY <2>10, <2>11, SeqsAre
  <2>13. ASSUME NEW i \in 1 .. m + 1, NEW j \in 1 .. m + 1, i < j
         PROVE  score[t[i]] >= score[t[j]]
    <3>1. CASE j = m + 1
      BY <2>5, <2>9, <3>1
    <3>2. CASE j # m + 1
      <4>1. i # m + 1 /\ DOMAIN s = 1 .. m
        BY <2>1, <2>8, <2>13
      <4> QED
        BY <2>7, <2>9, <2>13, <3>2, <4>1 DEF Descends
    <3> QED
      BY <3>1, <3>2
  <2> QED
    BY <2>10, <2>12, <2>13 DEF Descends
<1> HIDE DEF Good
<1>4. n \in Good
  <2>1. \A k \in 0 .. n - 1 : k \in Good => k + 1 \in Good
    BY <1>3
  <2> HIDE DEF n
  <2>2. \A k \in 0 .. n : k \in Good
    BY <1>1, <1>2, <2>1, UpTo
  <2> QED
    BY <1>1, <2>2
<1> QED
  BY <1>4 DEF Good

\* Such a list holds the whole set.
LEMMA ListsAll ==
    ASSUME NEW S, IsFiniteSet(S), NEW s \in SetToSeqs(S)
    PROVE  /\ Cardinality(S) \in Nat
           /\ s \in Seq(S) /\ s \in [1 .. Cardinality(S) -> S] /\ Len(s) = Cardinality(S)
           /\ \A i, j \in 1 .. Cardinality(S) : i # j => s[i] # s[j]
           /\ \A c \in S : \E i \in 1 .. Cardinality(S) : s[i] = c
<1> DEFINE n == Cardinality(S)
<1>1. n \in Nat
  BY FS_CardinalityType
<1>2. s \in [1 .. n -> S] /\ \A i, j \in 1 .. n : i # j => s[i] # s[j]
  BY SeqsAre
<1> HIDE DEF n
<1>3. s \in Seq(S) /\ Len(s) = n
  BY <1>1, <1>2
<1>4. IsFiniteSet(1 .. n) /\ Cardinality(1 .. n) = n
  BY <1>1, FS_Interval
<1>5. s \in Injection(1 .. n, S)
  BY <1>2, Fun_IsInj
<1>6. s \in Surjection(1 .. n, S)
  BY <1>4, <1>5, FS_Injection DEF n
<1>7. \A c \in S : \E i \in 1 .. n : s[i] = c
  BY <1>6 DEF Surjection
<1> QED
  BY <1>1, <1>2, <1>3, <1>7 DEF n

\* The greatest and the least of finitely many numbers.
LEMMA GreatestOf ==
    ASSUME NEW S \in SUBSET Nat, IsFiniteSet(S), S # {}
    PROVE  /\ Max(S) \in S /\ \A x \in S : Max(S) >= x
           /\ Min(S) \in S /\ \A x \in S : Min(S) <= x
<1> DEFINE f == [x \in S |-> x]
<1>1. PICK s \in SetToSeqs(S) : Descends(s, f)
  <2>1. \A c \in S : f[c] \in Nat
    OBVIOUS
  <2> HIDE DEF f
  <2> QED
    BY <2>1, SortedExists
<1>2. /\ Cardinality(S) \in Nat /\ s \in [1 .. Cardinality(S) -> S]
      /\ \A c \in S : \E i \in 1 .. Cardinality(S) : s[i] = c
  BY ListsAll
<1>3. 1 \in 1 .. Cardinality(S)
  <2>1. PICK c \in S : TRUE
    OBVIOUS
  <2>2. PICK i \in 1 .. Cardinality(S) : s[i] = c
    BY <1>2, <2>1
  <2> QED
    BY <1>2, <2>2
<1>4. s[1] \in S /\ \A x \in S : s[1] >= x
  <2> SUFFICES ASSUME NEW x \in S PROVE s[1] >= x
    BY <1>2, <1>3
  <2>1. PICK i \in 1 .. Cardinality(S) : s[i] = x
    BY <1>2
  <2>2. CASE i = 1
    BY <2>1, <2>2
  <2>3. CASE i # 1
    <3>1. 1 < i /\ 1 \in DOMAIN s /\ i \in DOMAIN s
      BY <1>2, <1>3, <2>3
    <3>2. f[s[1]] >= f[s[i]]
      BY <1>1, <3>1 DEF Descends
    <3>3. s[1] \in S
      BY <1>2, <1>3
    <3> QED
      BY <2>1, <3>2, <3>3
  <2> QED
    BY <2>2, <2>3
<1>5. Max(S) \in S /\ \A x \in S : Max(S) >= x
  BY <1>4 DEF Max
<1>6. Min(S) \in S /\ \A x \in S : Min(S) <= x
  BY LeastOf DEF Min
<1> QED
  BY <1>5, <1>6

\* The best of a set.
LEMMA RankedIs ==
    ASSUME NEW S, IsFiniteSet(S), NEW score, \A c \in S : score[c] \in Nat, NEW k \in Nat
    PROVE  LET r == Ranked(S, score, k)
           IN /\ r \in Seq(S) /\ Len(r) \in Nat /\ Len(r) <= k
              /\ \A i, j \in 1 .. Len(r) : i < j => r[i] # r[j] /\ score[r[i]] >= score[r[j]]
              /\ \A c \in S : \/ \E i \in 1 .. Len(r) : r[i] = c
                              \/ \A i \in 1 .. Len(r) : score[r[i]] >= score[c]
<1> DEFINE n == Cardinality(S)
           order == CHOOSE s \in SetToSeqs(S) :
                       \A i, j \in DOMAIN s : i < j => score[s[i]] >= score[s[j]]
           m == Min({k, n})
           r == SubSeq(order, 1, m)
<1>1. order \in SetToSeqs(S) /\ \A i, j \in DOMAIN order : i < j => score[order[i]] >= score[order[j]]
  BY SortedExists DEF Descends
<1> HIDE DEF order
<1>2. /\ n \in Nat /\ order \in Seq(S) /\ order \in [1 .. n -> S] /\ Len(order) = n
      /\ \A i, j \in 1 .. n : i # j => order[i] # order[j]
      /\ \A c \in S : \E i \in 1 .. n : order[i] = c
  BY <1>1, ListsAll
<1> HIDE DEF n
<1>3. m \in Nat /\ m <= k /\ m <= n
  <2>1. {k, n} \in SUBSET Nat /\ {k, n} # {} /\ k \in {k, n} /\ n \in {k, n}
    BY <1>2
  <2>2. m \in {k, n} /\ \A x \in {k, n} : m <= x
    BY <2>1, LeastOf DEF Min
  <2> QED
    BY <2>1, <2>2
<1>4. Ranked(S, score, k) = r
  BY DEF Ranked, order, n
<1> HIDE DEF m
<1>5. r \in Seq(S) /\ Len(r) = m /\ \A i \in 1 .. m : r[i] = order[i] /\ i \in 1 .. n
  <2>1. \A i \in 1 .. m : i \in 1 .. n
    BY <1>2, <1>3
  <2>2. \A i \in 1 .. m : order[i] \in S
    BY <1>2, <2>1
  <2>3. r = [i \in 1 .. m |-> order[i]]
    BY <1>2, <1>3
  <2> HIDE DEF r
  <2>4. r \in Seq(S) /\ Len(r) = m
    BY <1>3, <2>2, <2>3
  <2> QED
    BY <2>1, <2>3, <2>4
<1> HIDE DEF r
<1>6. \A i, j \in 1 .. m : i < j => r[i] # r[j] /\ score[r[i]] >= score[r[j]]
  BY <1>1, <1>2, <1>3, <1>5
<1>7. ASSUME NEW c \in S, ~\E i \in 1 .. m : r[i] = c, NEW i \in 1 .. m
      PROVE  score[r[i]] >= score[c]
  <2>1. PICK j \in 1 .. n : order[j] = c
    BY <1>2
  <2>2. j \notin 1 .. m
    BY <1>5, <1>7, <2>1
  <2>3. i < j /\ i \in DOMAIN order /\ j \in DOMAIN order
    BY <1>2, <1>3, <1>5, <2>2
  <2> QED
    BY <1>1, <1>5, <2>1, <2>3
<1> QED
  BY <1>3, <1>4, <1>5, <1>6, <1>7

\* A list of hits as a search shows it: no chunk twice, the best first.
HitValues == [chunk : ChunkIds, score : Nat]
BestFirst(hits, k) ==
    /\ hits \in Seq(HitValues) /\ Len(hits) \in Nat /\ Len(hits) <= k
    /\ \A i, j \in 1 .. Len(hits) :
           i < j => hits[i].chunk # hits[j].chunk /\ hits[i].score >= hits[j].score

LEMMA ScoredIs ==
    ASSUME NEW S \in SUBSET ChunkIds, NEW score, \A c \in S : score[c] \in Nat, NEW k \in Nat
    PROVE  LET hits == Scored(Ranked(S, score, k), score)
           IN /\ BestFirst(hits, k)
              /\ \A i \in 1 .. Len(hits) : hits[i].chunk \in S /\ hits[i].score = score[hits[i].chunk]
              /\ \A c \in S : \/ \E i \in 1 .. Len(hits) : hits[i].chunk = c
                              \/ \A i \in 1 .. Len(hits) : hits[i].score >= score[c]
<1> DEFINE r == Ranked(S, score, k)
           hits == Scored(r, score)
<1>1. IsFiniteSet(S)
  BY StoresAssumption, FS_Subset DEF ChunkIds
<1>2. /\ r \in Seq(S) /\ Len(r) \in Nat /\ Len(r) <= k
      /\ \A i, j \in 1 .. Len(r) : i < j => r[i] # r[j] /\ score[r[i]] >= score[r[j]]
      /\ \A c \in S : \/ \E i \in 1 .. Len(r) : r[i] = c
                      \/ \A i \in 1 .. Len(r) : score[r[i]] >= score[c]
  BY <1>1, RankedIs
<1> HIDE DEF r
<1>3. \A i \in 1 .. Len(r) : r[i] \in S
  BY <1>2
<1>4. hits = [i \in 1 .. Len(r) |-> [chunk |-> r[i], score |-> score[r[i]]]]
  BY <1>2 DEF Scored
<1>5. \A i \in 1 .. Len(r) : [chunk |-> r[i], score |-> score[r[i]]] \in HitValues
  BY <1>3 DEF HitValues
<1> HIDE DEF hits
<1>6. hits \in Seq(HitValues) /\ Len(hits) = Len(r)
  BY <1>2, <1>4, <1>5
<1>7. \A i \in 1 .. Len(r) : hits[i].chunk = r[i] /\ hits[i].score = score[r[i]]
  BY <1>4
<1>8. BestFirst(hits, k)
  BY <1>2, <1>6, <1>7 DEF BestFirst
<1>9. \A i \in 1 .. Len(hits) : hits[i].chunk \in S /\ hits[i].score = score[hits[i].chunk]
  BY <1>3, <1>6, <1>7
<1>10. \A c \in S : \/ \E i \in 1 .. Len(hits) : hits[i].chunk = c
                    \/ \A i \in 1 .. Len(hits) : hits[i].score >= score[c]
  BY <1>2, <1>6, <1>7
<1> QED
  BY <1>8, <1>9, <1>10 DEF hits, r

\* Division keeps an order.
LEMMA DivisionGrows ==
    ASSUME NEW a \in Nat, NEW b \in Nat, NEW u \in Nat, NEW d \in Nat \ {0}, a <= b
    PROVE  (a * u) \div d \in Nat /\ (a * u) \div d <= (b * u) \div d
<1>1. a * u \in Nat /\ b * u \in Nat /\ a * u <= b * u
  <2>1. (b - a) * u \in Nat /\ b * u = a * u + (b - a) * u /\ a * u \in Nat
    OBVIOUS
  <2> QED
    BY <2>1
<1>2. \A x, y \in Nat : x <= y => x \div d \in Nat /\ x \div d <= y \div d
  OBVIOUS
<1> QED
  BY <1>1, <1>2

\* Normalising a list changes neither its chunks nor their order.
LEMMA NormalizedIs ==
    ASSUME NEW k, NEW hits, BestFirst(hits, k), hits # <<>>
    PROVE  /\ BestFirst(NormalizedHits(hits), k) /\ Len(NormalizedHits(hits)) = Len(hits)
           /\ \A i \in 1 .. Len(hits) : NormalizedHits(hits)[i].chunk = hits[i].chunk
<1> DEFINE scores == {hits[i].score : i \in DOMAIN hits}
           n == Len(hits)
           low == Min(scores)
           d == Max(scores) - low
           new == NormalizedHits(hits)
           value(i) == IF d = 0 THEN ScoreUnit ELSE ((hits[i].score - low) * ScoreUnit) \div d
<1>1. /\ n \in Nat /\ DOMAIN hits = 1 .. n /\ n # 0
      /\ \A i \in 1 .. n : /\ hits[i] \in HitValues /\ hits[i].score \in Nat
                           /\ hits[i].chunk \in ChunkIds
                           /\ hits[i] = [chunk |-> hits[i].chunk, score |-> hits[i].score]
  <2>1. hits \in Seq(HitValues) /\ n \in Nat
    BY DEF BestFirst
  <2>2. DOMAIN hits = 1 .. n /\ n # 0
    BY <2>1
  <2>3. \A i \in 1 .. n : hits[i] \in HitValues
    BY <2>1
  <2> QED
    BY <2>1, <2>2, <2>3 DEF HitValues
<1>2. scores \in SUBSET Nat /\ scores # {} /\ \A i \in 1 .. n : hits[i].score \in scores
  BY <1>1
<1>3. IsFiniteSet(scores)
  <2> DEFINE f == [i \in 1 .. n |-> hits[i].score]
  <2>1. IsFiniteSet({f[i] : i \in 1 .. n})
    <3> HIDE DEF f
    <3> QED
      <4>1. IsFiniteSet(1 .. n)
        BY <1>1, FS_Interval
      <4> QED
        BY <4>1, ImageFinite
  <2>2. {f[i] : i \in 1 .. n} = scores
    BY <1>1
  <2> QED
    BY <2>1, <2>2
<1>4. /\ low \in Nat /\ d \in Nat
      /\ \A i \in 1 .. n : low <= hits[i].score
  <2> HIDE DEF scores
  <2>1. Max(scores) \in scores /\ Min(scores) \in scores /\ \A x \in scores : Min(scores) <= x /\ x <= Max(scores)
    BY <1>2, <1>3, GreatestOf
  <2>2. low \in Nat /\ Max(scores) \in Nat /\ low <= Max(scores)
    BY <1>2, <2>1
  <2>3. \A i \in 1 .. n : low <= hits[i].score
    BY <1>2, <2>1
  <2> QED
    BY <2>2, <2>3
<1>5. new = [i \in 1 .. n |-> [hits[i] EXCEPT !.score = value(i)]]
  BY <1>1 DEF NormalizedHits
<1> HIDE DEF scores, n, low, d, new
<1>6. \A i \in 1 .. n : value(i) \in Nat
  <2> SUFFICES ASSUME NEW i \in 1 .. n PROVE value(i) \in Nat
    OBVIOUS
  <2>1. hits[i].score - low \in Nat
    BY <1>1, <1>4
  <2>2. d # 0 => ((hits[i].score - low) * ScoreUnit) \div d \in Nat
    <3> DEFINE x == hits[i].score - low
    <3>1. x \in Nat /\ x <= x /\ ScoreUnit \in Nat
      BY <2>1, StoresAssumption
    <3> HIDE DEF x
    <3>2. d # 0 => (x * ScoreUnit) \div d \in Nat
      BY <1>4, <3>1, DivisionGrows
    <3> QED
      BY <3>2 DEF x
  <2> QED
    BY <2>2, StoresAssumption
<1>7. \A i, j \in 1 .. n : hits[i].score >= hits[j].score => value(i) >= value(j)
  <2> SUFFICES ASSUME NEW i \in 1 .. n, NEW j \in 1 .. n, hits[i].score >= hits[j].score
               PROVE  value(i) >= value(j)
    OBVIOUS
  <2>1. hits[i].score - low \in Nat /\ hits[j].score - low \in Nat
        /\ hits[j].score - low <= hits[i].score - low
    BY <1>1, <1>4
  <2>2. d # 0 => ((hits[j].score - low) * ScoreUnit) \div d <= ((hits[i].score - low) * ScoreUnit) \div d
    BY <1>4, <2>1, DivisionGrows, StoresAssumption
  <2>3. CASE d = 0
    BY <2>3, StoresAssumption
  <2>4. CASE d # 0
    <3>1. /\ value(i) = ((hits[i].score - low) * ScoreUnit) \div d
          /\ value(j) = ((hits[j].score - low) * ScoreUnit) \div d
      BY <2>4
    <3> HIDE DEF value
    <3>2. value(i) \in Nat /\ value(j) \in Nat
      BY <1>6
    <3> QED
      BY <2>2, <2>4, <3>1, <3>2
  <2> QED
    BY <2>3, <2>4
<1> HIDE DEF value
<1>8. \A i \in 1 .. n : /\ new[i] = [chunk |-> hits[i].chunk, score |-> value(i)]
                        /\ new[i].chunk = hits[i].chunk /\ new[i].score = value(i)
                        /\ new[i] \in HitValues
  BY <1>1, <1>5, <1>6 DEF HitValues
<1>9. new \in Seq(HitValues) /\ Len(new) = n
  BY <1>1, <1>5, <1>8
<1>10. BestFirst(new, k)
  <2>1. \A i, j \in 1 .. n : i < j => hits[i].chunk # hits[j].chunk /\ hits[i].score >= hits[j].score
    BY DEF BestFirst, n
  <2>2. \A i, j \in 1 .. n : i < j => new[i].chunk # new[j].chunk /\ new[i].score >= new[j].score
    <3> SUFFICES ASSUME NEW i \in 1 .. n, NEW j \in 1 .. n, i < j
                 PROVE  new[i].chunk # new[j].chunk /\ new[i].score >= new[j].score
      OBVIOUS
    <3>1. hits[i].chunk # hits[j].chunk /\ hits[i].score >= hits[j].score
      BY <2>1
    <3>2. value(i) >= value(j)
      BY <1>7, <3>1
    <3> QED
      BY <1>8, <3>1, <3>2
  <2>3. n <= k
    BY DEF BestFirst, n
  <2> QED
    BY <1>1, <1>9, <2>2, <2>3 DEF BestFirst
<1> QED
  BY <1>8, <1>9, <1>10 DEF new, n

\* The types, as far as the properties depend on them.
SearchTypeOK ==
    /\ entries \in SUBSET ChunkIds /\ visible \in SUBSET ChunkIds /\ points \in SUBSET ChunkIds
    /\ mapping \in {"absent", "explicit", "dynamic"}

\* Where a search looks.
FoundIn(store, tenant, filters) ==
    IF store = "semantic" THEN {c \in points : SemanticFilterHit(tenant, filters, c)}
    ELSE {c \in visible : KeywordFilterHit(tenant, filters, c)}

LEMMA HitsOfIs ==
    ASSUME SearchTypeOK, NEW store \in {"semantic", "keyword"}, NEW tenant, NEW filters,
           NEW q \in StoreQueries
    PROVE  LET hits == HitsOf(store, tenant, filters, q)
           IN /\ BestFirst(hits, StoreTopK[store])
              /\ \A i \in 1 .. Len(hits) : hits[i].chunk \in FoundIn(store, tenant, filters)
<1> DEFINE raw(S, k) == Scored(Ranked(S, Relevance[q], k), Relevance[q])
<1>1. ASSUME NEW S \in SUBSET ChunkIds, NEW k \in Nat
      PROVE  BestFirst(raw(S, k), k) /\ \A i \in 1 .. Len(raw(S, k)) : raw(S, k)[i].chunk \in S
  <2>1. \A c \in S : Relevance[q][c] \in Nat
    BY StoresAssumption DEF MatchesAreScored, ChunkIds
  <2> QED
    BY <2>1, ScoredIs
<1>2. CASE store = "semantic"
  <2> DEFINE S == FoundIn("semantic", tenant, filters)
  <2>1. S \in SUBSET ChunkIds /\ StoreTopK.semantic \in Nat
    BY StoresAssumption DEF SearchTypeOK, SemanticConfigured, FoundIn
  <2>2. HitsOf(store, tenant, filters, q) = raw(S, StoreTopK.semantic)
    BY <1>2 DEF HitsOf, SemanticHits, FoundIn
  <2> HIDE DEF S, raw
  <2>3. /\ BestFirst(raw(S, StoreTopK.semantic), StoreTopK.semantic)
        /\ \A i \in 1 .. Len(raw(S, StoreTopK.semantic)) : raw(S, StoreTopK.semantic)[i].chunk \in S
    BY <1>1, <2>1
  <2> QED
    BY <1>2, <2>2, <2>3 DEF S
<1>3. CASE store = "keyword"
  <2> DEFINE S == {c \in visible : KeywordFilterHit(tenant, filters, c) /\ Relevance[q][c] > 0}
             hits == raw(S, StoreTopK.keyword)
  <2>1. S \in SUBSET ChunkIds /\ StoreTopK.keyword \in Nat /\ S \subseteq FoundIn(store, tenant, filters)
    BY <1>3, StoresAssumption DEF SearchTypeOK, KeywordConfigured, FoundIn
  <2>2. HitsOf(store, tenant, filters, q) = IF hits = <<>> THEN <<>> ELSE NormalizedHits(hits)
    BY <1>3 DEF HitsOf, KeywordHits, KeywordRaw
  <2> HIDE DEF S, raw
  <2>3. BestFirst(hits, StoreTopK.keyword) /\ \A i \in 1 .. Len(hits) : hits[i].chunk \in S
    BY <1>1, <2>1
  <2> HIDE DEF hits
  <2>4. CASE hits = <<>>
    BY <1>3, <2>1, <2>2, <2>3, <2>4
  <2>5. CASE hits # <<>>
    <3>1. /\ BestFirst(NormalizedHits(hits), StoreTopK.keyword) /\ Len(NormalizedHits(hits)) = Len(hits)
          /\ \A i \in 1 .. Len(hits) : NormalizedHits(hits)[i].chunk = hits[i].chunk
      BY <2>3, <2>5, NormalizedIs
    <3>2. HitsOf(store, tenant, filters, q) = NormalizedHits(hits)
      BY <2>2, <2>5
    <3> QED
      BY <1>3, <2>1, <2>3, <3>1, <3>2
  <2> QED
    BY <2>4, <2>5
<1> QED
  BY <1>2, <1>3

\* Aggregation shows each chunk of the lists under its best score, or only better ones.
LEMMA AggregatedIs ==
    ASSUME NEW m \in Nat, NEW lists, DOMAIN lists = 1 .. m, NEW F, NEW K,
           \A l \in 1 .. m : /\ BestFirst(lists[l], K)
                             /\ \A n \in 1 .. Len(lists[l]) : lists[l][n].chunk \in F,
           NEW k \in Nat
    PROVE  LET hits == AggregatedHits(lists, k)
           IN /\ BestFirst(hits, k)
              /\ \A i \in 1 .. Len(hits) : hits[i].chunk \in F
              /\ \A l \in 1 .. m : \A n \in 1 .. Len(lists[l]) :
                     \/ \E i \in 1 .. Len(hits) : /\ hits[i].chunk = lists[l][n].chunk
                                                  /\ hits[i].score >= lists[l][n].score
                     \/ \A i \in 1 .. Len(hits) : hits[i].score >= lists[l][n].score
<1> DEFINE all == UNION {Range(lists[i]) : i \in DOMAIN lists}
           C == {h.chunk : h \in all}
           scores(c) == {h.score : h \in {g \in all : g.chunk = c}}
           best == BestHits(lists)
           hits == AggregatedHits(lists, k)
<1>1. \A l \in 1 .. m : /\ lists[l] \in Seq(HitValues) /\ Len(lists[l]) \in Nat
                        /\ DOMAIN lists[l] = 1 .. Len(lists[l])
                        /\ Range(lists[l]) = {lists[l][n] : n \in 1 .. Len(lists[l])}
                        /\ \A n \in 1 .. Len(lists[l]) :
                              /\ lists[l][n] \in HitValues /\ lists[l][n] \in all
                              /\ lists[l][n].chunk \in F
  <2> SUFFICES ASSUME NEW l \in 1 .. m
               PROVE  /\ lists[l] \in Seq(HitValues) /\ Len(lists[l]) \in Nat
                      /\ DOMAIN lists[l] = 1 .. Len(lists[l])
                      /\ Range(lists[l]) = {lists[l][n] : n \in 1 .. Len(lists[l])}
                      /\ \A n \in 1 .. Len(lists[l]) :
                              /\ lists[l][n] \in HitValues /\ lists[l][n] \in all
                              /\ lists[l][n].chunk \in F
    OBVIOUS
  <2>1. lists[l] \in Seq(HitValues) /\ Len(lists[l]) \in Nat
    BY DEF BestFirst
  <2>2. DOMAIN lists[l] = 1 .. Len(lists[l])
    BY <2>1
  <2>3. Range(lists[l]) = {lists[l][n] : n \in 1 .. Len(lists[l])}
    BY <2>2 DEF Range
  <2>4. \A n \in 1 .. Len(lists[l]) : lists[l][n] \in HitValues
    BY <2>1
  <2>5. \A n \in 1 .. Len(lists[l]) : lists[l][n] \in all
    BY <2>3
  <2> QED
    BY <2>1, <2>2, <2>3, <2>4, <2>5
<1>2. \A h \in all : h \in HitValues /\ h.chunk \in F
  BY <1>1
<1>3. IsFiniteSet(all)
  <2> DEFINE R == {Range(lists[i]) : i \in DOMAIN lists}
             f == [i \in 1 .. m |-> Range(lists[i])]
  <2>1. IsFiniteSet({f[i] : i \in 1 .. m})
    <3>1. IsFiniteSet(1 .. m)
      BY FS_Interval
    <3> HIDE DEF f
    <3> QED
      BY <3>1, ImageFinite
  <2>2. {f[i] : i \in 1 .. m} = R
    OBVIOUS
  <2>3. \A l \in 1 .. m : IsFiniteSet(Range(lists[l]))
    <3> SUFFICES ASSUME NEW l \in 1 .. m PROVE IsFiniteSet(Range(lists[l]))
      OBVIOUS
    <3>1. IsFiniteSet(1 .. Len(lists[l]))
      BY <1>1, FS_Interval
    <3>2. IsFiniteSet({lists[l][n] : n \in 1 .. Len(lists[l])})
      BY <3>1, ImageFinite
    <3> QED
      BY <1>1, <3>2
  <2>4. \A T \in R : IsFiniteSet(T)
    BY <2>3
  <2> HIDE DEF R, f
  <2>5. IsFiniteSet(R)
    BY <2>1, <2>2
  <2>6. IsFiniteSet(UNION R)
    BY <2>4, <2>5, FS_UNION
  <2> QED
    BY <2>6 DEF R
<1>4. best = [c \in C |-> Max(scores(c))]
  BY DEF BestHits
<1>5. hits = Scored(Ranked(C, best, k), best)
  BY <1>4 DEF AggregatedHits
<1> HIDE DEF all, best
<1>6. \A h \in all : h.score \in Nat /\ h.chunk \in ChunkIds
  BY <1>2 DEF HitValues
<1>7. ASSUME NEW c \in C
      PROVE  best[c] \in Nat /\ \A h \in all : h.chunk = c => best[c] >= h.score
  <2> DEFINE G == {g \in all : g.chunk = c}
             f == [g \in G |-> g.score]
  <2>1. IsFiniteSet(G)
    BY <1>3, FS_Subset
  <2>2. IsFiniteSet({f[g] : g \in G})
    <3> HIDE DEF f, G
    <3> QED
      BY <2>1, ImageFinite
  <2>3. {f[g] : g \in G} = scores(c)
    OBVIOUS
  <2>4. scores(c) \in SUBSET Nat /\ scores(c) # {} /\ IsFiniteSet(scores(c))
    BY <1>6, <2>2, <2>3
  <2>5. \A h \in all : h.chunk = c => h.score \in scores(c)
    OBVIOUS
  <2>6. best[c] = Max(scores(c))
    BY <1>4
  <2> HIDE DEF scores
  <2>7. Max(scores(c)) \in scores(c) /\ \A x \in scores(c) : Max(scores(c)) >= x
    BY <2>4, GreatestOf
  <2> QED
    BY <2>4, <2>5, <2>6, <2>7
<1>8. C \in SUBSET ChunkIds /\ C \subseteq F /\ \A h \in all : h.chunk \in C
  BY <1>2, <1>6
<1> HIDE DEF C, scores, hits
<1>9. \A c \in C : best[c] \in Nat
  BY <1>7
<1>10. /\ BestFirst(hits, k)
       /\ \A i \in 1 .. Len(hits) : hits[i].chunk \in C /\ hits[i].score = best[hits[i].chunk]
       /\ \A c \in C : \/ \E i \in 1 .. Len(hits) : hits[i].chunk = c
                       \/ \A i \in 1 .. Len(hits) : hits[i].score >= best[c]
  <2>1. C \in SUBSET ChunkIds /\ k \in Nat
    BY <1>8
  <2>2. LET h == Scored(Ranked(C, best, k), best)
        IN /\ BestFirst(h, k)
           /\ \A i \in 1 .. Len(h) : h[i].chunk \in C /\ h[i].score = best[h[i].chunk]
           /\ \A c \in C : \/ \E i \in 1 .. Len(h) : h[i].chunk = c
                           \/ \A i \in 1 .. Len(h) : h[i].score >= best[c]
    BY <1>9, <2>1, ScoredIs
  <2> QED
    BY <1>5, <2>2
<1>11. ASSUME NEW l \in 1 .. m, NEW n \in 1 .. Len(lists[l])
       PROVE  \/ \E i \in 1 .. Len(hits) : /\ hits[i].chunk = lists[l][n].chunk
                                           /\ hits[i].score >= lists[l][n].score
              \/ \A i \in 1 .. Len(hits) : hits[i].score >= lists[l][n].score
  <2> DEFINE h == lists[l][n]
  <2>1. h \in all /\ h.chunk \in C /\ h.score \in Nat /\ best[h.chunk] \in Nat /\ best[h.chunk] >= h.score
    <3>1. h \in all
      BY <1>1
    <3> HIDE DEF h
    <3> QED
      BY <3>1, <1>6, <1>7, <1>8
  <2>2. \A i \in 1 .. Len(hits) : hits[i].score \in Nat
    BY <1>9, <1>10
  <2> HIDE DEF h
  <2>3. CASE \E i \in 1 .. Len(hits) : hits[i].chunk = h.chunk
    BY <1>10, <2>1, <2>3 DEF h
  <2>4. CASE \A i \in 1 .. Len(hits) : hits[i].score >= best[h.chunk]
    BY <2>1, <2>2, <2>4 DEF h
  <2> QED
    BY <1>10, <2>1, <2>3, <2>4
<1> QED
  BY <1>8, <1>10, <1>11 DEF hits

\* What a search shows, of one query or of several.
LEMMA SearchHitsAre ==
    ASSUME SearchTypeOK, NEW store \in {"semantic", "keyword"}, NEW tenant, NEW filters,
           NEW queries \in Seq(StoreQueries), queries # <<>>
    PROVE  LET hits == SearchHits(store, tenant, filters, queries)
               lists == HitLists(store, tenant, filters, queries)
           IN /\ BestFirst(hits, StoreTopK[store])
              /\ \A i \in 1 .. Len(hits) : hits[i].chunk \in FoundIn(store, tenant, filters)
              /\ DOMAIN lists = 1 .. Len(queries)
              /\ \A l \in DOMAIN lists :
                     /\ DOMAIN lists[l] = 1 .. Len(lists[l])
                     /\ \A n \in 1 .. Len(lists[l]) :
                        \/ \E i \in 1 .. Len(hits) : /\ hits[i].chunk = lists[l][n].chunk
                                                     /\ hits[i].score >= lists[l][n].score
                        \/ \A i \in 1 .. Len(hits) : hits[i].score >= lists[l][n].score
<1> DEFINE hits == SearchHits(store, tenant, filters, queries)
           lists == HitLists(store, tenant, filters, queries)
           m == Len(queries)
           F == FoundIn(store, tenant, filters)
           K == StoreTopK[store]
<1>1. /\ m \in Nat /\ m # 0 /\ DOMAIN queries = 1 .. m
      /\ \A l \in 1 .. m : queries[l] \in StoreQueries
  OBVIOUS
<1>2. lists = [l \in 1 .. m |-> HitsOf(store, tenant, filters, queries[l])]
  BY <1>1 DEF HitLists
<1>3. \A l \in 1 .. m : BestFirst(lists[l], K) /\ \A n \in 1 .. Len(lists[l]) : lists[l][n].chunk \in F
  <2> SUFFICES ASSUME NEW l \in 1 .. m
               PROVE  BestFirst(lists[l], K) /\ \A n \in 1 .. Len(lists[l]) : lists[l][n].chunk \in F
    OBVIOUS
  <2>1. lists[l] = HitsOf(store, tenant, filters, queries[l]) /\ queries[l] \in StoreQueries
    BY <1>1, <1>2
  <2> HIDE DEF lists
  <2> QED
    BY <2>1, HitsOfIs
<1>4. DOMAIN lists = 1 .. m /\ K \in Nat
  BY <1>2, StoresAssumption DEF SemanticConfigured, KeywordConfigured
<1>5. hits = IF m = 1 THEN lists[1] ELSE AggregatedHits(lists, K)
  BY DEF SearchHits
<1> HIDE DEF lists, hits, m, F, K
<1>6. ASSUME NEW l \in 1 .. m
      PROVE  /\ DOMAIN lists[l] = 1 .. Len(lists[l])
             /\ \A n \in 1 .. Len(lists[l]) : lists[l][n].score \in Nat
  <2>1. lists[l] \in Seq(HitValues)
    BY <1>3 DEF BestFirst
  <2>2. DOMAIN lists[l] = 1 .. Len(lists[l]) /\ \A n \in 1 .. Len(lists[l]) : lists[l][n] \in HitValues
    BY <2>1
  <2> QED
    BY <2>2 DEF HitValues
<1>7. CASE m = 1
  <2>1. hits = lists[1] /\ 1 \in 1 .. m /\ \A l \in 1 .. m : l = 1
    BY <1>5, <1>7
  <2>2. BestFirst(hits, K) /\ \A i \in 1 .. Len(hits) : hits[i].chunk \in F
    BY <1>3, <2>1
  <2>3. \A n \in 1 .. Len(hits) : hits[n].score >= hits[n].score
    BY <1>6, <2>1
  <2> QED
    BY <1>4, <1>6, <2>1, <2>2, <2>3 DEF hits, lists, m, F, K
<1>8. CASE m # 1
  <2>1. hits = AggregatedHits(lists, K)
    BY <1>5, <1>8
  <2>2. /\ BestFirst(hits, K)
        /\ \A i \in 1 .. Len(hits) : hits[i].chunk \in F
        /\ \A l \in 1 .. m : \A n \in 1 .. Len(lists[l]) :
               \/ \E i \in 1 .. Len(hits) : /\ hits[i].chunk = lists[l][n].chunk
                                            /\ hits[i].score >= lists[l][n].score
               \/ \A i \in 1 .. Len(hits) : hits[i].score >= lists[l][n].score
    BY <1>1, <1>3, <1>4, <2>1, AggregatedIs
  <2> QED
    BY <1>4, <1>6, <2>2 DEF hits, lists, m, F, K
<1> QED
  BY <1>7, <1>8

\* Whichever store it came from, the record of a chunk shows that chunk.
LEMMA RecordsAreTrue ==
    ASSUME NEW c \in ChunkIds, NEW semantic
    PROVE  LET shown == Response(Enriched(c, semantic, {c}))
           IN /\ shown.chunk_id = c /\ shown.document_id = StoredChunks[c].document
              /\ shown.title = StoredChunks[c].title /\ shown.content = c
<1> DEFINE fields == {"chunk_id", "document_id", "tenant_id", "title", "content", "visibility"}
<1>1. /\ DOMAIN Common(c) = fields
      /\ Common(c)["chunk_id"] = c /\ Common(c)["document_id"] = StoredChunks[c].document
      /\ Common(c)["tenant_id"] = StoredChunks[c].tenant
      /\ Common(c)["title"] = StoredChunks[c].title /\ Common(c)["content"] = c
  BY DEF Common
<1>2. ASSUME NEW g PROVE \A f \in fields : Beside(Common(c), g)[f] = Common(c)[f]
  BY <1>1 DEF Beside
<1> DEFINE record == Enriched(c, semantic, {c})
<1>3. CASE c \in semantic
  <2>1. record = SemanticRecord(c, Payload(c))
    BY <1>3 DEF Enriched, FromQdrant
  <2>2. /\ record["chunk_id"] = c
        /\ \A f \in SemanticResult : record[f] = Payload(c)[f]
    BY <2>1 DEF SemanticRecord, Beside, SemanticResult
  <2> QED
    BY <1>1, <1>2, <2>2 DEF Response, Payload, SemanticResult
<1>4. CASE c \notin semantic
  <2>1. record = KeywordRecord(c, Source(c))
    BY <1>4 DEF Enriched
  <2>2. \A f \in KeywordResult : record[f] = Source(c)[f]
    BY <2>1 DEF KeywordRecord, Beside, KeywordResult
  <2> QED
    BY <1>1, <1>2, <2>2 DEF Response, Source, KeywordResult
<1> QED
  BY <1>3, <1>4

\* Neither store gives a tenant the chunks of another.
LEMMA FoundIsOfTenant ==
    ASSUME NEW store, NEW tenant, NEW filters, NEW c \in FoundIn(store, tenant, filters)
    PROVE  StoredChunks[c].tenant = tenant
<1>1. ASSUME NEW g PROVE Beside(Common(c), g)["tenant_id"] = StoredChunks[c].tenant
  BY DEF Beside, Common
<1>2. CASE store = "semantic"
  BY <1>1, <1>2 DEF FoundIn, SemanticFilterHit, FromQdrant, Payload
<1>3. CASE store # "semantic"
  BY <1>1, <1>3 DEF FoundIn, KeywordFilterHit, TermHit, Source
<1> QED
  BY <1>2, <1>3

\* What a search shows depends on the store it asks.
LEMMA SemanticStays ==
    ASSUME NEW tenant, NEW filters, NEW queries, UNCHANGED points
    PROVE  SearchHits("semantic", tenant, filters, queries)' = SearchHits("semantic", tenant, filters, queries)
<1>1. \A q : SemanticHits(tenant, filters, q)' = SemanticHits(tenant, filters, q)
  BY DEF SemanticHits, SemanticFilterHit, FromQdrant, Payload, Common, ChunkMetadata, Beside
<1>2. HitLists("semantic", tenant, filters, queries)' = HitLists("semantic", tenant, filters, queries)
  BY <1>1 DEF HitLists, HitsOf
<1> QED
  BY <1>2 DEF SearchHits
LEMMA KeywordStays ==
    ASSUME NEW tenant, NEW filters, NEW queries, UNCHANGED <<mapping, visible>>
    PROVE  SearchHits("keyword", tenant, filters, queries)' = SearchHits("keyword", tenant, filters, queries)
<1>1. \A q : KeywordHits(tenant, filters, q)' = KeywordHits(tenant, filters, q)
  BY DEF KeywordHits, KeywordRaw, KeywordFilterHit, TermHit, Source, Common, ChunkMetadata, Beside
<1>2. HitLists("keyword", tenant, filters, queries)' = HitLists("keyword", tenant, filters, queries)
  BY <1>1 DEF HitLists, HitsOf
<1> QED
  BY <1>2 DEF SearchHits

\* The stores hold what they reported, an index that is absent is empty, a query
\* meets every entry but the unseen ones, and the last search is still what the
\* same search would find.
Reports == {"none", "written", "erased", "failed"}
SearchOK(s) ==
    s # NoSearch =>
        /\ s.store \in {"semantic", "keyword"}
        /\ s.queries \in Seq(StoreQueries) /\ s.queries # <<>>
        /\ s.hits = SearchHits(s.store, s.tenant, s.filters, s.queries)
        /\ s.store = "keyword" => mapping # "absent"
StoresInv ==
    /\ SearchTypeOK
    /\ mapping = "absent" => entries = {}
    /\ entries \ unseen \subseteq visible
    /\ outcomes \in [StoredDocuments -> [keyword : Reports, semantic : Reports]]
    /\ DOMAIN missed = StoredDocuments /\ missed = [d \in StoredDocuments |-> missed[d]]
    /\ ReportsTrue
    /\ SearchOK(search)

\* Of the chunks of two documents none is of both, and each is of one.
LEMMA ChunksApart ==
    \A c \in ChunkIds : /\ StoredChunks[c].document \in StoredDocuments
                        /\ \A d : c \in ChunksOfDocument(d) <=> StoredChunks[c].document = d
BY DEF ChunkIds, StoredDocuments, ChunksOfDocument

\* delete_by_query and delete_by_filter meet the chunks of the document they name.
LEMMA EraseHits ==
    ASSUME NEW c \in ChunkIds, NEW d
    PROVE  /\ mapping = "explicit" => (EraseHit(d, c) <=> StoredChunks[c].document = d)
           /\ mapping # "absent" /\ EraseHit(d, c) => StoredChunks[c].document = d
           /\ FromQdrant(Payload(c)).document_id = StoredChunks[c].document
<1>1. ASSUME NEW g PROVE /\ "document_id" \in DOMAIN Beside(Common(c), g)
                         /\ Beside(Common(c), g)["document_id"] = StoredChunks[c].document
  BY DEF Beside, Common
<1>2. mapping = "explicit" => (EraseHit(d, c) <=> StoredChunks[c].document = d)
  BY <1>1 DEF EraseHit, TermHit, Source
<1>3. EraseHit(d, c) => StoredChunks[c].document = d
  BY <1>1 DEF EraseHit, TermHit, Source
<1>4. FromQdrant(Payload(c)).document_id = StoredChunks[c].document
  BY <1>1 DEF FromQdrant, Payload
<1> QED
  BY <1>2, <1>3, <1>4

\* A report about one store changes nothing else.
LEMMA ToldIs ==
    ASSUME StoresInv, NEW d \in StoredDocuments, NEW store \in {"keyword", "semantic"}, NEW what \in Reports
    PROVE  LET new == Told(d, store, what)
           IN /\ new \in [StoredDocuments -> [keyword : Reports, semantic : Reports]]
              /\ \A e \in StoredDocuments :
                    /\ new[e].keyword = IF e = d /\ store = "keyword" THEN what ELSE outcomes[e].keyword
                    /\ new[e].semantic = IF e = d /\ store = "semantic" THEN what ELSE outcomes[e].semantic
BY DEF Told, StoresInv

\* What a write or an erasure leaves, if it forgets the search.
LEMMA WritesKeep ==
    ASSUME SearchTypeOK', (mapping = "absent" => entries = {})', search' = NoSearch,
           (entries \ unseen \subseteq visible)', DOMAIN missed' = StoredDocuments,
           missed' = [d \in StoredDocuments |-> missed'[d]],
           outcomes' \in [StoredDocuments -> [keyword : Reports, semantic : Reports]], ReportsTrue'
    PROVE  StoresInv'
BY DEF StoresInv, SearchOK

LEMMA BulkIndexKeeps ==
    ASSUME StoresInv, NEW d \in StoredDocuments, BulkIndex(d)
    PROVE  StoresInv'
<1>1. PICK written \in SUBSET ChunksOfDocument(d) :
          /\ entries' = entries \cup written /\ unseen' = unseen \cup written
          /\ mapping' = IF mapping = "absent" /\ written # {} THEN "dynamic" ELSE mapping
          /\ outcomes' = Told(d, "keyword", BulkSays(d, written))
  BY DEF BulkIndex
<1>2. /\ missed' = [missed EXCEPT ![d] = {}]
      /\ search' = NoSearch /\ UNCHANGED <<visible, collection, points>>
  BY DEF BulkIndex
<1>3. /\ written \subseteq ChunkIds /\ SearchTypeOK' /\ (mapping' = "absent" => entries' = {})
      /\ entries' \ unseen' \subseteq visible'
  BY <1>1, <1>2 DEF StoresInv, SearchTypeOK, ChunksOfDocument
<1>4. /\ BulkSays(d, written) \in {"written", "failed"}
      /\ BulkSays(d, written) = "written" => written = ChunksOfDocument(d)
      /\ mapping' = "explicit" => mapping = "explicit"
  BY <1>1 DEF BulkSays
<1>5. /\ outcomes' \in [StoredDocuments -> [keyword : Reports, semantic : Reports]]
      /\ \A e \in StoredDocuments :
            /\ outcomes'[e].keyword = IF e = d THEN BulkSays(d, written) ELSE outcomes[e].keyword
            /\ outcomes'[e].semantic = outcomes[e].semantic
  BY <1>1, <1>4, ToldIs DEF Reports
<1>m. /\ DOMAIN missed' = StoredDocuments /\ missed' = [e \in StoredDocuments |-> missed'[e]]
      /\ \A e \in StoredDocuments : e # d => missed'[e] = missed[e]
  BY <1>2 DEF StoresInv
<1>6. ReportsTrue'
  <2> SUFFICES ASSUME NEW e \in StoredDocuments
               PROVE  /\ outcomes'[e].keyword = "written" => ChunksOfDocument(e) \subseteq entries'
                      /\ outcomes'[e].keyword = "erased" /\ mapping' = "explicit" =>
                             ChunksOfDocument(e) \cap entries' \subseteq missed'[e]
                      /\ outcomes'[e].semantic = "written" => ChunksOfDocument(e) \subseteq points'
                      /\ outcomes'[e].semantic = "erased" => ChunksOfDocument(e) \cap points' = {}
    BY DEF ReportsTrue
  <2>1. CASE e = d
    BY <1>1, <1>2, <1>4, <1>5, <2>1 DEF StoresInv, ReportsTrue
  <2>2. CASE e # d
    <3>1. ChunksOfDocument(e) \cap written = {}
      BY <1>3, <2>2, ChunksApart
    <3> QED
      BY <1>1, <1>2, <1>4, <1>5, <1>m, <2>2, <3>1 DEF StoresInv, ReportsTrue
  <2> QED
    BY <2>1, <2>2
<1> QED
  BY <1>2, <1>3, <1>5, <1>6, <1>m, WritesKeep

LEMMA UpsertKeeps ==
    ASSUME StoresInv, NEW d \in StoredDocuments, Upsert(d)
    PROVE  StoresInv'
<1>1. search' = NoSearch /\ UNCHANGED <<mapping, entries, visible, unseen, collection, missed>>
  BY DEF Upsert, indexVars
<1>2. PICK what \in {"written", "failed"} :
          /\ outcomes' = Told(d, "semantic", what)
          /\ what = "written" => points' = points \cup ChunksOfDocument(d)
          /\ what # "written" => points' = points
  BY DEF Upsert
<1>3. /\ SearchTypeOK' /\ (mapping' = "absent" => entries' = {}) /\ entries' \ unseen' \subseteq visible'
      /\ DOMAIN missed' = StoredDocuments /\ missed' = [e \in StoredDocuments |-> missed'[e]]
  BY <1>1, <1>2 DEF StoresInv, SearchTypeOK, ChunksOfDocument
<1>4. /\ outcomes' \in [StoredDocuments -> [keyword : Reports, semantic : Reports]]
      /\ \A e \in StoredDocuments :
            /\ outcomes'[e].semantic = IF e = d THEN what ELSE outcomes[e].semantic
            /\ outcomes'[e].keyword = outcomes[e].keyword
  BY <1>2, ToldIs DEF Reports
<1>5. \A e \in StoredDocuments : e # d => ChunksOfDocument(e) \cap ChunksOfDocument(d) = {}
  BY DEF ChunksOfDocument
<1>6. ReportsTrue'
  BY <1>1, <1>2, <1>4, <1>5 DEF StoresInv, ReportsTrue
<1> QED
  BY <1>1, <1>3, <1>4, <1>6, WritesKeep

LEMMA DeleteByQueryKeeps ==
    ASSUME StoresInv, NEW d \in StoredDocuments, DeleteByQuery(d)
    PROVE  StoresInv'
<1>1. search' = NoSearch /\ UNCHANGED <<mapping, visible, unseen, collection, points>>
  BY DEF DeleteByQuery
<1>2. PICK what \in {"erased", "failed"}, gone \in SUBSET Erasable(d) :
          /\ outcomes' = Told(d, "keyword", what)
          /\ entries' = entries \ gone
          /\ what = "erased" => gone = QueryHits(d)
          /\ missed' = [missed EXCEPT ![d] = IF what = "erased" THEN ChunksOfDocument(d) \cap unseen ELSE {}]
  <2>1. CASE /\ Erasable(d) = QueryHits(d) /\ entries' = entries \ QueryHits(d)
             /\ outcomes' = Told(d, "keyword", "erased")
             /\ missed' = [missed EXCEPT ![d] = ChunksOfDocument(d) \cap unseen]
    BY <2>1
  <2>2. CASE /\ \E gone \in SUBSET Erasable(d) : entries' = entries \ gone
             /\ outcomes' = Told(d, "keyword", "failed")
             /\ missed' = [missed EXCEPT ![d] = {}]
    BY <2>2
  <2> QED
    BY <2>1, <2>2 DEF DeleteByQuery
<1>3. /\ SearchTypeOK' /\ (mapping' = "absent" => entries' = {})
      /\ entries' \subseteq entries /\ entries' \ unseen' \subseteq visible'
  BY <1>1, <1>2 DEF StoresInv, SearchTypeOK
<1>4. /\ outcomes' \in [StoredDocuments -> [keyword : Reports, semantic : Reports]]
      /\ \A e \in StoredDocuments :
            /\ outcomes'[e].keyword = IF e = d THEN what ELSE outcomes[e].keyword
            /\ outcomes'[e].semantic = outcomes[e].semantic
  BY <1>2, ToldIs DEF Reports
<1>5. /\ DOMAIN missed' = StoredDocuments /\ missed' = [e \in StoredDocuments |-> missed'[e]]
      /\ what = "erased" => missed'[d] = ChunksOfDocument(d) \cap unseen
      /\ \A e \in StoredDocuments : e # d => missed'[e] = missed[e]
  BY <1>2 DEF StoresInv
<1>6. /\ what = "erased" /\ mapping = "explicit" => ChunksOfDocument(d) \cap entries' \subseteq unseen
      /\ \A e \in StoredDocuments : e # d => ChunksOfDocument(e) \cap entries \subseteq entries'
  <2>1. \A c \in visible : /\ mapping = "explicit" => (EraseHit(d, c) <=> c \in ChunksOfDocument(d))
                           /\ mapping # "absent" /\ EraseHit(d, c) => c \in ChunksOfDocument(d)
    BY EraseHits, ChunksApart DEF StoresInv, SearchTypeOK
  <2>2. \A e \in StoredDocuments : e # d => ChunksOfDocument(e) \cap ChunksOfDocument(d) = {}
    BY DEF ChunksOfDocument
  <2>3. what = "erased" /\ mapping = "explicit" => ChunksOfDocument(d) \cap entries' \subseteq unseen
    BY <1>2, <2>1 DEF QueryHits, StoresInv
  <2>4. mapping # "absent" => gone \subseteq ChunksOfDocument(d)
    BY <1>2, <2>1 DEF Erasable, QueryHits
  <2>5. \A e \in StoredDocuments : e # d => ChunksOfDocument(e) \cap entries \subseteq entries'
    BY <1>2, <2>2, <2>4 DEF StoresInv
  <2> QED
    BY <2>3, <2>5
<1>7. ReportsTrue'
  <2> SUFFICES ASSUME NEW e \in StoredDocuments
               PROVE  /\ outcomes'[e].keyword = "written" => ChunksOfDocument(e) \subseteq entries'
                      /\ outcomes'[e].keyword = "erased" /\ mapping' = "explicit" =>
                             ChunksOfDocument(e) \cap entries' \subseteq missed'[e]
                      /\ outcomes'[e].semantic = "written" => ChunksOfDocument(e) \subseteq points'
                      /\ outcomes'[e].semantic = "erased" => ChunksOfDocument(e) \cap points' = {}
    BY DEF ReportsTrue
  <2>1. CASE e = d
    BY <1>1, <1>4, <1>5, <1>6, <2>1 DEF StoresInv, ReportsTrue
  <2>2. CASE e # d
    BY <1>1, <1>3, <1>4, <1>5, <1>6, <2>2 DEF StoresInv, ReportsTrue
  <2> QED
    BY <2>1, <2>2
<1> QED
  BY <1>1, <1>3, <1>4, <1>5, <1>7, WritesKeep

LEMMA DeleteByFilterKeeps ==
    ASSUME StoresInv, NEW d \in StoredDocuments, DeleteByFilter(d)
    PROVE  StoresInv'
<1>1. search' = NoSearch /\ UNCHANGED <<mapping, entries, visible, unseen, collection, missed>>
  BY DEF DeleteByFilter, indexVars
<1>2. PICK what \in {"erased", "failed"} :
          /\ outcomes' = Told(d, "semantic", what)
          /\ what = "erased" => points' = {c \in points : FromQdrant(Payload(c)).document_id # d}
          /\ what # "erased" => points' = points
  BY DEF DeleteByFilter
<1>3. /\ SearchTypeOK' /\ (mapping' = "absent" => entries' = {}) /\ entries' \ unseen' \subseteq visible'
      /\ DOMAIN missed' = StoredDocuments /\ missed' = [e \in StoredDocuments |-> missed'[e]]
      /\ points' \subseteq points
  BY <1>1, <1>2 DEF StoresInv, SearchTypeOK
<1>4. /\ outcomes' \in [StoredDocuments -> [keyword : Reports, semantic : Reports]]
      /\ \A e \in StoredDocuments :
            /\ outcomes'[e].semantic = IF e = d THEN what ELSE outcomes[e].semantic
            /\ outcomes'[e].keyword = outcomes[e].keyword
  BY <1>2, ToldIs DEF Reports
<1>5. points \subseteq ChunkIds
  BY DEF StoresInv, SearchTypeOK
<1>6. /\ what = "erased" => ChunksOfDocument(d) \cap points' = {}
      /\ \A e \in StoredDocuments : e # d => ChunksOfDocument(e) \cap points \subseteq points'
  <2>1. \A c \in points : FromQdrant(Payload(c)).document_id = d <=> c \in ChunksOfDocument(d)
    BY <1>5, EraseHits, ChunksApart
  <2>2. \A e \in StoredDocuments : e # d => ChunksOfDocument(e) \cap ChunksOfDocument(d) = {}
    BY DEF ChunksOfDocument
  <2> QED
    BY <1>2, <2>1, <2>2
<1>7. ReportsTrue'
  BY <1>1, <1>2, <1>3, <1>4, <1>6 DEF StoresInv, ReportsTrue
<1> QED
  BY <1>1, <1>3, <1>4, <1>7, WritesKeep

\* While what a search has read stays, so does what it has found.
LEMMA SearchStays ==
    ASSUME NEW s, SearchOK(s), UNCHANGED <<visible, points>>,
           mapping' = mapping \/ (mapping = "absent" /\ mapping' # "absent")
    PROVE  SearchOK(s)'
<1> SUFFICES ASSUME s # NoSearch
             PROVE  /\ s.hits = SearchHits(s.store, s.tenant, s.filters, s.queries)'
                    /\ s.store = "keyword" => mapping' # "absent"
  BY DEF SearchOK
<1>1. CASE s.store = "semantic"
  <2>1. SearchHits("semantic", s.tenant, s.filters, s.queries)'
            = SearchHits("semantic", s.tenant, s.filters, s.queries)
    BY SemanticStays
  <2> QED
    BY <1>1, <2>1 DEF SearchOK
<1>2. CASE s.store = "keyword"
  <2>1. mapping' = mapping
    BY <1>2 DEF SearchOK
  <2>2. SearchHits("keyword", s.tenant, s.filters, s.queries)'
            = SearchHits("keyword", s.tenant, s.filters, s.queries)
    BY <2>1, KeywordStays
  <2> QED
    BY <1>2, <2>1, <2>2 DEF SearchOK
<1> QED
  BY <1>1, <1>2 DEF SearchOK

\* The queries of a search are some of those there are.
LEMMA AskedAre ==
    ASSUME NEW asked \in (SUBSET StoreQueries) \ {{}}
    PROVE  SetToSeq(asked) \in Seq(StoreQueries) /\ SetToSeq(asked) # <<>>
<1>1. IsFiniteSet(asked)
  BY StoresAssumption, FS_Subset
<1>2. Cardinality(asked) \in Nat /\ Cardinality(asked) # 0
  BY <1>1, FS_CardinalityType, FS_EmptySet
<1>3. PICK f \in Bijection(1 .. Cardinality(asked), asked) : TRUE
  BY <1>1, FS_CardinalityType, Fun_ExistsBij
<1>4. f \in [1 .. Cardinality(asked) -> asked] /\ f \in Injection(1 .. Cardinality(asked), asked)
  BY <1>3 DEF Bijection, Injection
<1>5. \A a, b \in 1 .. Cardinality(asked) : f[a] = f[b] => a = b
  BY <1>4 DEF Injection, IsInjective
<1>6. SetToSeq(asked) \in [1 .. Cardinality(asked) -> asked]
  BY <1>4, <1>5 DEF SetToSeq, IsInjective
<1>7. SetToSeq(asked) \in [1 .. Cardinality(asked) -> StoreQueries]
  BY <1>6
<1> QED
  BY <1>2, <1>7

LEMMA StoresStep == StoresInv /\ [StoresNext]_storesVars => StoresInv'
<1> SUFFICES ASSUME StoresInv, [StoresNext]_storesVars PROVE StoresInv'
  OBVIOUS
<1> USE DEF StoresInv
<1>1. CASE CreateIndex
  <2>1. PICK s : s = search
    OBVIOUS
  <2>2. mapping = "absent" /\ mapping' = "explicit" /\ UNCHANGED <<entries, visible, unseen, points, outcomes, missed, search>>
    BY <1>1 DEF CreateIndex
  <2>3. SearchOK(s)'
    BY <2>1, <2>2, SearchStays
  <2>4. SearchTypeOK' /\ (mapping' = "absent" => entries' = {})
    BY <2>2 DEF SearchTypeOK
  <2>5. ReportsTrue'
    BY <2>2 DEF ReportsTrue
  <2> QED
    BY <2>1, <2>2, <2>3, <2>4, <2>5
<1>2. ASSUME UNCHANGED <<mapping, entries, visible, unseen, points, outcomes, missed, search>> PROVE StoresInv'
  <2>1. PICK s : s = search
    OBVIOUS
  <2>2. SearchOK(s)'
    <3>1. SearchOK(s) /\ UNCHANGED <<visible, points>> /\ mapping' = mapping
      BY <1>2, <2>1
    <3> QED
      BY <3>1, SearchStays
  <2>3. SearchTypeOK' /\ ReportsTrue'
    BY <1>2 DEF SearchTypeOK, ReportsTrue
  <2> QED
    BY <1>2, <2>1, <2>2, <2>3
<1>3. CASE CreateCollection
  BY <1>2, <1>3 DEF CreateCollection, indexVars
<1>4. CASE DropIndex
  <2>1. /\ mapping' = "absent" /\ entries' = {} /\ visible' = {} /\ unseen' = {}
        /\ missed' = NoneMissed /\ search' = NoSearch /\ UNCHANGED points
        /\ outcomes' = [d \in StoredDocuments |-> [outcomes[d] EXCEPT !.keyword = "none"]]
    BY <1>4 DEF DropIndex
  <2>2. /\ outcomes' \in [StoredDocuments -> [keyword : Reports, semantic : Reports]]
        /\ \A d \in StoredDocuments : /\ outcomes'[d].keyword = "none"
                                      /\ outcomes'[d].semantic = outcomes[d].semantic
    BY <2>1 DEF Reports
  <2>3. SearchTypeOK' /\ ReportsTrue'
    BY <2>1, <2>2 DEF SearchTypeOK, ReportsTrue
  <2>4. DOMAIN missed' = StoredDocuments /\ missed' = [d \in StoredDocuments |-> missed'[d]]
    BY <2>1 DEF NoneMissed
  <2> QED
    BY <2>1, <2>2, <2>3, <2>4, WritesKeep
<1>r. CASE Refresh
  <2>1. visible' = entries /\ search' = NoSearch
        /\ UNCHANGED <<mapping, entries, collection, points, outcomes, missed>>
    BY <1>r DEF Refresh
  <2>2. SearchTypeOK' /\ ReportsTrue' /\ (entries \ unseen \subseteq visible)'
    BY <2>1 DEF SearchTypeOK, ReportsTrue
  <2> QED
    BY <2>1, <2>2, WritesKeep
<1>5. ASSUME NEW d \in StoredDocuments, BulkIndex(d) \/ Upsert(d) \/ DeleteByQuery(d) \/ DeleteByFilter(d)
      PROVE  StoresInv'
  BY <1>5, BulkIndexKeeps, UpsertKeeps, DeleteByQueryKeeps, DeleteByFilterKeeps
<1>6. ASSUME NEW store \in {"semantic", "keyword"}, NEW tenant, NEW filters,
             NEW asked \in (SUBSET StoreQueries) \ {{}},
             Search(store, tenant, filters, SetToSeq(asked))
      PROVE  StoresInv'
  <2>1. PICK queries : queries = SetToSeq(asked) /\ queries \in Seq(StoreQueries) /\ queries # <<>>
    BY AskedAre
  <2>2. PICK s : s = [store |-> store, tenant |-> tenant, filters |-> filters, queries |-> queries,
                      hits |-> SearchHits(store, tenant, filters, queries)]
    OBVIOUS
  <2>3. /\ search' = s /\ outcomes' = NoOutcomes /\ missed' = NoneMissed
        /\ store = "keyword" => mapping # "absent"
        /\ UNCHANGED <<mapping, entries, visible, unseen, points>>
    BY <1>6, <2>1, <2>2 DEF Search, indexVars
  <2>4. SearchOK(s)
    BY <2>1, <2>2, <2>3 DEF SearchOK
  <2>5. SearchOK(s)'
    <3>1. UNCHANGED <<visible, points>> /\ mapping' = mapping
      BY <2>3
    <3> QED
      BY <2>4, <3>1, SearchStays
  <2>6. /\ outcomes' \in [StoredDocuments -> [keyword : Reports, semantic : Reports]]
        /\ \A d \in StoredDocuments : outcomes'[d].keyword = "none" /\ outcomes'[d].semantic = "none"
    BY <2>3 DEF NoOutcomes, Reports
  <2>7. SearchTypeOK' /\ ReportsTrue'
    BY <2>3, <2>6 DEF SearchTypeOK, ReportsTrue
  <2>8. DOMAIN missed' = StoredDocuments /\ missed' = [d \in StoredDocuments |-> missed'[d]]
    BY <2>3 DEF NoneMissed
  <2> QED
    BY <2>3, <2>5, <2>6, <2>7, <2>8
<1>7. CASE UNCHANGED storesVars
  BY <1>2, <1>7 DEF storesVars, indexVars
<1> QED
  BY <1>1, <1>3, <1>4, <1>r, <1>5, <1>6, <1>7 DEF StoresNext

\* indexing/coordinator, bulk_index, write_to_qdrant, search_multi_vector,
\* search_with_expansion, aggregate_results, convert_hit: the stores hold what they
\* reported (after a deletion by query nothing but chunks that no refresh had shown,
\* and nothing is said of an index that its first write made), a search over several queries shows each chunk once, the best first and
\* nothing better left out, and an answer shows the chunk that was found, of the
\* tenant who asked; for any chunks, scores, filters and sizes of an answer.
THEOREM StoresAreTruthful == StoresSpec => []StoresTruthful
<1>1. StoresInit => StoresInv
  <2> SUFFICES ASSUME StoresInit PROVE StoresInv
    OBVIOUS
  <2>1. /\ outcomes \in [StoredDocuments -> [keyword : Reports, semantic : Reports]]
        /\ \A d \in StoredDocuments : outcomes[d].keyword = "none" /\ outcomes[d].semantic = "none"
    BY DEF StoresInit, NoOutcomes, Reports
  <2>2. SearchTypeOK /\ ReportsTrue /\ SearchOK(search)
    BY <2>1 DEF StoresInit, SearchTypeOK, ReportsTrue, SearchOK
  <2>3. DOMAIN missed = StoredDocuments /\ missed = [d \in StoredDocuments |-> missed[d]]
    BY DEF StoresInit, NoneMissed
  <2> QED
    BY <2>1, <2>2, <2>3 DEF StoresInv, StoresInit
<1>2. StoresInv => StoresTruthful
  <2> SUFFICES ASSUME StoresInv PROVE StoresTruthful
    OBVIOUS
  <2> DEFINE hits == search.hits
             lists == HitLists(search.store, search.tenant, search.filters, search.queries)
             K == StoreTopK[search.store]
  <2>1. ASSUME search # NoSearch
        PROVE  /\ BestFirst(hits, K)
               /\ \A i \in 1 .. Len(hits) : hits[i].chunk \in FoundIn(search.store, search.tenant, search.filters)
               /\ DOMAIN lists = 1 .. Len(search.queries)
               /\ \A l \in DOMAIN lists :
                     /\ DOMAIN lists[l] = 1 .. Len(lists[l])
                     /\ \A n \in 1 .. Len(lists[l]) :
                        \/ \E i \in 1 .. Len(hits) : /\ hits[i].chunk = lists[l][n].chunk
                                                     /\ hits[i].score >= lists[l][n].score
                        \/ \A i \in 1 .. Len(hits) : hits[i].score >= lists[l][n].score
    <3>1. /\ SearchTypeOK /\ search.store \in {"semantic", "keyword"}
          /\ search.queries \in Seq(StoreQueries) /\ search.queries # <<>>
          /\ hits = SearchHits(search.store, search.tenant, search.filters, search.queries)
      BY <2>1 DEF StoresInv, SearchOK
    <3>2. PICK store, tenant, filters, queries :
              /\ store = search.store /\ tenant = search.tenant
              /\ filters = search.filters /\ queries = search.queries
      OBVIOUS
    <3>3. /\ SearchTypeOK /\ store \in {"semantic", "keyword"}
          /\ queries \in Seq(StoreQueries) /\ queries # <<>>
      BY <3>1, <3>2
    <3> QED
      <4> DEFINE h == SearchHits(store, tenant, filters, queries)
                 ls == HitLists(store, tenant, filters, queries)
      <4>1. /\ BestFirst(h, StoreTopK[store])
            /\ \A i \in 1 .. Len(h) : h[i].chunk \in FoundIn(store, tenant, filters)
            /\ DOMAIN ls = 1 .. Len(queries)
            /\ \A l \in DOMAIN ls :
                  /\ DOMAIN ls[l] = 1 .. Len(ls[l])
                  /\ \A n \in 1 .. Len(ls[l]) :
                     \/ \E i \in 1 .. Len(h) : h[i].chunk = ls[l][n].chunk /\ h[i].score >= ls[l][n].score
                     \/ \A i \in 1 .. Len(h) : h[i].score >= ls[l][n].score
        BY <3>3, SearchHitsAre
      <4>2. hits = h /\ lists = ls /\ K = StoreTopK[store]
        BY <3>1, <3>2
      <4>3. FoundIn(store, tenant, filters) = FoundIn(search.store, search.tenant, search.filters)
        BY <3>2
      <4> HIDE DEF h, ls, hits, lists, K
      <4> QED
        BY <3>2, <4>1, <4>2, <4>3
  <2>2. ASSUME search # NoSearch PROVE DOMAIN hits = 1 .. Len(hits) /\ hits \in Seq(HitValues)
    <3>1. hits \in Seq(HitValues)
      BY <2>1, <2>2 DEF BestFirst
    <3> QED
      BY <3>1
  <2>3. AggregationKeepsBest
    <3> SUFFICES ASSUME search # NoSearch
                 PROVE  /\ Len(hits) <= K
                        /\ \A i, j \in DOMAIN hits :
                             i < j => hits[i].chunk # hits[j].chunk /\ hits[i].score >= hits[j].score
                        /\ \A l \in DOMAIN lists : \A n \in DOMAIN lists[l] :
                             \/ \E i \in DOMAIN hits : /\ hits[i].chunk = lists[l][n].chunk
                                                       /\ hits[i].score >= lists[l][n].score
                             \/ \A i \in DOMAIN hits : hits[i].score >= lists[l][n].score
      BY DEF AggregationKeepsBest
    <3> HIDE DEF hits, lists, K
    <3> QED
      BY <2>1, <2>2 DEF BestFirst
  <2>4. AnswersNameTheirSource
    <3> SUFFICES ASSUME search # NoSearch, NEW i \in DOMAIN hits
                 PROVE  LET c == hits[i].chunk
                            shown == Response(Enriched(c, IF search.store = "semantic" THEN {c} ELSE {}, {c}))
                        IN /\ shown.chunk_id = c /\ shown.document_id = StoredChunks[c].document
                           /\ StoredChunks[c].tenant = search.tenant
                           /\ shown.title = StoredChunks[c].title /\ shown.content = c
      BY DEF AnswersNameTheirSource
    <3>1. hits[i] \in HitValues /\ i \in 1 .. Len(hits)
      BY <2>2
    <3>2. hits[i].chunk \in ChunkIds
      BY <3>1 DEF HitValues
    <3>3. StoredChunks[hits[i].chunk].tenant = search.tenant
      BY <2>1, <3>1, FoundIsOfTenant
    <3> QED
      BY <3>2, <3>3, RecordsAreTrue
  <2> QED
    BY <2>3, <2>4 DEF StoresTruthful, StoresInv
<1> QED
  BY <1>1, <1>2, StoresStep, PTL DEF StoresSpec


----------------------------------------------------------------------------
(* Sums.                                                                   *)

SumNext(f, g, n) == IF n = 0 THEN 0 ELSE g[n - 1] + f[n]

\* The recursive function that RowSum is defined by exists.
LEMMA RunningSum ==
    ASSUME NEW f \in Seq(Nat)
    PROVE  \E g : g = [n \in 0 .. Len(f) |-> SumNext(f, g, n)]
<1>1. Len(f) \in Nat
  BY LenProperties
<1> DEFINE Upto(m) == \E g : g = [n \in 0 .. m |-> SumNext(f, g, n)]
           Good == {m \in 0 .. Len(f) : Upto(m)}
<1>2. 0 \in Good
  <2> DEFINE g == [n \in 0 .. 0 |-> 0]
  <2>1. g = [n \in 0 .. 0 |-> SumNext(f, g, n)]
    BY DEF SumNext
  <2> QED
    BY <1>1, <2>1
<1>3. ASSUME NEW k \in 0 .. Len(f) - 1, k \in Good PROVE k + 1 \in Good
  <2>1. PICK g : g = [n \in 0 .. k |-> SumNext(f, g, n)]
    BY <1>3
  <2> DEFINE h == [n \in 0 .. k + 1 |-> IF n = k + 1 THEN SumNext(f, g, k + 1) ELSE g[n]]
  <2>2. k \in Nat /\ k + 1 \in 0 .. Len(f)
    BY <1>1
  <2>3. ASSUME NEW n \in 0 .. k + 1 PROVE h[n] = SumNext(f, h, n)
    <3>1. CASE n = 0
      <4>1. n \in 0 .. k + 1 /\ n # k + 1 /\ n \in 0 .. k
        BY <2>2, <3>1
      <4>2. h[n] = g[n] /\ g[n] = SumNext(f, g, n)
        BY <2>1, <4>1
      <4> QED
        BY <3>1, <4>2 DEF SumNext
    <3>2. CASE n # 0 /\ n # k + 1
      <4>1. n \in 0 .. k /\ n - 1 \in 0 .. k + 1 /\ n - 1 # k + 1 /\ n - 1 \in 0 .. k
        BY <2>2, <3>2
      <4>2. h[n] = g[n] /\ h[n - 1] = g[n - 1] /\ g[n] = SumNext(f, g, n)
        BY <2>1, <3>2, <4>1
      <4> HIDE DEF h
      <4> QED
        BY <4>2 DEF SumNext
    <3>3. CASE n = k + 1
      <4>1. n - 1 = k /\ k \in 0 .. k + 1 /\ k # k + 1
        BY <2>2, <3>3
      <4>2. h[k] = g[k] /\ h[k + 1] = SumNext(f, g, k + 1)
        BY <4>1
      <4> HIDE DEF h
      <4> QED
        BY <2>2, <3>3, <4>1, <4>2 DEF SumNext
    <3> QED
      BY <3>1, <3>2, <3>3
  <2>4. h = [n \in 0 .. k + 1 |-> h[n]]
    OBVIOUS
  <2> HIDE DEF h
  <2>5. h = [n \in 0 .. k + 1 |-> SumNext(f, h, n)]
    BY <2>3, <2>4
  <2> QED
    BY <2>2, <2>5
<1> HIDE DEF Good
<1>4. Len(f) \in Good
  <2>1. \A k \in 0 .. Len(f) - 1 : k \in Good => k + 1 \in Good
    BY <1>3
  <2>2. \A k \in 0 .. Len(f) : k \in Good
    BY <1>1, <1>2, <2>1, UpTo
  <2> QED
    BY <1>1, <2>2
<1> QED
  BY <1>4 DEF Good

\* The running sums of a sequence.
LEMMA SumsAre ==
    ASSUME NEW f \in Seq(Nat)
    PROVE  \E g : /\ \A n \in 0 .. Len(f) : g[n] \in Nat
                  /\ g[0] = 0 /\ \A n \in 1 .. Len(f) : g[n] = g[n - 1] + f[n]
                  /\ RowSum(f) = g[Len(f)]
<1> DEFINE g == CHOOSE h : h = [n \in 0 .. Len(f) |-> SumNext(f, h, n)]
<1>1. g = [n \in 0 .. Len(f) |-> SumNext(f, g, n)]
  BY RunningSum
<1>2. RowSum(f) = g[Len(f)]
  BY DEF RowSum, SumNext
<1> HIDE DEF g
<1>3. Len(f) \in Nat /\ f \in [1 .. Len(f) -> Nat]
  BY LenProperties
<1>4. g[0] = 0
  BY <1>1, <1>3 DEF SumNext
<1>5. \A n \in 1 .. Len(f) : g[n] = g[n - 1] + f[n]
  <2> SUFFICES ASSUME NEW n \in 1 .. Len(f) PROVE g[n] = g[n - 1] + f[n]
    OBVIOUS
  <2>1. n \in 0 .. Len(f) /\ n # 0
    BY <1>3
  <2> QED
    BY <1>1, <2>1 DEF SumNext
<1> DEFINE Good == {n \in 0 .. Len(f) : g[n] \in Nat}
<1>6. 0 \in Good /\ \A k \in 0 .. Len(f) - 1 : k \in Good => k + 1 \in Good
  <2>1. 0 \in Good
    BY <1>3, <1>4
  <2>2. ASSUME NEW k \in 0 .. Len(f) - 1, k \in Good PROVE k + 1 \in Good
    <3> DEFINE j == k + 1
    <3>1. j \in 1 .. Len(f) /\ j - 1 = k /\ j \in 0 .. Len(f)
      BY <1>3
    <3> HIDE DEF j
    <3>2. g[j] = g[k] + f[j] /\ g[k] \in Nat /\ f[j] \in Nat
      BY <1>3, <1>5, <2>2, <3>1
    <3> QED
      BY <3>1, <3>2 DEF j
  <2> QED
    BY <2>1, <2>2
<1> HIDE DEF Good
<1>7. \A k \in 0 .. Len(f) : k \in Good
  BY <1>3, <1>6, UpTo
<1>8. \A n \in 0 .. Len(f) : g[n] \in Nat
  BY <1>7 DEF Good
<1> QED
  BY <1>2, <1>4, <1>5, <1>8

LEMMA AddGrows == \A a, b, c, d \in Nat : a <= b /\ c <= d => a + c <= b + d
  OBVIOUS

\* A sum is not less than that of a shorter sequence with smaller entries.
LEMMA SumGrows ==
    ASSUME NEW f \in Seq(Nat), NEW h \in Seq(Nat), Len(f) <= Len(h),
           \A n \in 1 .. Len(f) : f[n] <= h[n]
    PROVE  RowSum(f) \in Nat /\ RowSum(h) \in Nat /\ RowSum(f) <= RowSum(h)
<1>1. PICK F : /\ \A n \in 0 .. Len(f) : F[n] \in Nat
               /\ F[0] = 0 /\ \A n \in 1 .. Len(f) : F[n] = F[n - 1] + f[n]
               /\ RowSum(f) = F[Len(f)]
  BY SumsAre
<1>2. PICK H : /\ \A n \in 0 .. Len(h) : H[n] \in Nat
               /\ H[0] = 0 /\ \A n \in 1 .. Len(h) : H[n] = H[n - 1] + h[n]
               /\ RowSum(h) = H[Len(h)]
  BY SumsAre
<1>3. Len(f) \in Nat /\ Len(h) \in Nat /\ f \in [1 .. Len(f) -> Nat] /\ h \in [1 .. Len(h) -> Nat]
  BY LenProperties
<1> DEFINE least(n) == IF n <= Len(f) THEN F[n] ELSE F[Len(f)]
           Good == {n \in 0 .. Len(h) : least(n) <= H[n]}
<1>4. 0 \in Good
  BY <1>1, <1>2, <1>3
<1>5. ASSUME NEW k \in 0 .. Len(h) - 1, k \in Good PROVE k + 1 \in Good
  <2> DEFINE j == k + 1
  <2>1. j \in 1 .. Len(h) /\ j - 1 = k /\ j \in 0 .. Len(h) /\ k \in 0 .. Len(h)
    BY <1>3
  <2> HIDE DEF j
  <2>2. H[j] = H[k] + h[j] /\ H[k] \in Nat /\ H[j] \in Nat /\ h[j] \in Nat /\ least(k) <= H[k]
    BY <1>2, <1>3, <1>5, <2>1
  <2>3. CASE j <= Len(f)
    <3>1. j \in 1 .. Len(f) /\ k \in 0 .. Len(f) /\ j \in 0 .. Len(f) /\ k <= Len(f)
      BY <1>3, <2>1, <2>3
    <3>2. F[j] = F[k] + f[j] /\ f[j] \in Nat /\ f[j] <= h[j] /\ F[k] \in Nat
      BY <1>1, <1>3, <2>1, <3>1
    <3>3. F[k] <= H[k]
      BY <2>2, <3>1
    <3>4. F[j] <= H[j]
      <4>1. F[k] + f[j] <= H[k] + h[j]
        BY <2>2, <3>2, <3>3, AddGrows
      <4> QED
        BY <2>2, <3>2, <4>1
    <3> QED
      BY <2>1, <2>3, <3>4 DEF j
  <2>4. CASE ~(j <= Len(f))
    <3>1. least(k) = F[Len(f)] /\ least(j) = F[Len(f)] /\ F[Len(f)] \in Nat
      <4>1. CASE k = Len(f)
        BY <1>1, <1>3, <2>1, <2>4, <4>1
      <4>2. CASE k # Len(f)
        <5>1. Len(f) \in Nat /\ k \in Nat /\ j \in Nat /\ j = k + 1 /\ j > Len(f)
          BY <1>3, <2>1, <2>4
        <5>2. ~(k <= Len(f))
          BY <4>2, <5>1
        <5> QED
          BY <1>1, <1>3, <2>4, <5>2
      <4> QED
        BY <4>1, <4>2
    <3>2. least(j) <= H[j]
      BY <2>2, <3>1
    <3> QED
      BY <2>1, <3>2 DEF j
  <2> QED
    BY <2>3, <2>4
<1> HIDE DEF Good
<1>6. \A k \in 0 .. Len(h) : k \in Good
  <2>1. \A k \in 0 .. Len(h) - 1 : k \in Good => k + 1 \in Good
    BY <1>5
  <2> QED
    BY <1>3, <1>4, <2>1, UpTo
<1>7. least(Len(h)) <= H[Len(h)]
  BY <1>3, <1>6 DEF Good
<1>8. least(Len(h)) = F[Len(f)]
  BY <1>3
<1> QED
  BY <1>1, <1>2, <1>3, <1>7, <1>8

\* A sequence with one entry more.
LEMMA SumAppend ==
    ASSUME NEW f \in Seq(Nat), NEW x \in Nat, NEW h \in Seq(Nat), Len(h) = Len(f) + 1,
           \A n \in 1 .. Len(f) : h[n] = f[n], h[Len(f) + 1] = x
    PROVE  RowSum(h) = RowSum(f) + x /\ RowSum(f) \in Nat
<1>1. PICK F : /\ \A n \in 0 .. Len(f) : F[n] \in Nat
               /\ F[0] = 0 /\ \A n \in 1 .. Len(f) : F[n] = F[n - 1] + f[n]
               /\ RowSum(f) = F[Len(f)]
  BY SumsAre
<1>2. PICK H : /\ \A n \in 0 .. Len(h) : H[n] \in Nat
               /\ H[0] = 0 /\ \A n \in 1 .. Len(h) : H[n] = H[n - 1] + h[n]
               /\ RowSum(h) = H[Len(h)]
  BY SumsAre
<1>3. Len(f) \in Nat
  BY LenProperties
<1> DEFINE Good == {n \in 0 .. Len(f) : F[n] = H[n]}
<1>4. 0 \in Good
  BY <1>1, <1>2, <1>3
<1>5. ASSUME NEW k \in 0 .. Len(f) - 1, k \in Good PROVE k + 1 \in Good
  <2> DEFINE j == k + 1
  <2>1. j \in 1 .. Len(h) /\ j \in 1 .. Len(f) /\ j - 1 = k /\ j \in 0 .. Len(f)
    BY <1>3
  <2> HIDE DEF j
  <2>2. H[j] = H[k] + h[j] /\ F[j] = F[k] + f[j] /\ h[j] = f[j] /\ F[k] = H[k]
    BY <1>1, <1>2, <1>5, <2>1
  <2> QED
    BY <2>1, <2>2 DEF j
<1> HIDE DEF Good
<1>6. F[Len(f)] = H[Len(f)]
  <2>1. \A k \in 0 .. Len(f) - 1 : k \in Good => k + 1 \in Good
    BY <1>5
  <2>2. \A k \in 0 .. Len(f) : k \in Good
    BY <1>3, <1>4, <2>1, UpTo
  <2> QED
    BY <1>3, <2>2 DEF Good
<1> DEFINE j == Len(f) + 1
<1>7. j \in 1 .. Len(h) /\ j - 1 = Len(f) /\ Len(h) = j
  BY <1>3
<1>8. h[j] = x
  OBVIOUS
<1> HIDE DEF j
<1>9. H[j] = H[Len(f)] + x
  BY <1>2, <1>7, <1>8
<1> QED
  BY <1>1, <1>2, <1>3, <1>6, <1>7, <1>9
----------------------------------------------------------------------------
(* The repositories of rag-database.                                       *)

\* The types, as far as the properties depend on them.
CallsMade ==
    [op : {"assign", "remove"}, user : Members, thing : Things, until : Until]
    \cup [op : {"key", "use", "delete"}, key : ApiKeys]
    \cup [op : {"usage"}, date : Dates, amount : Amounts]
    \cup [op : {"quota"}, limit : Limits \cup {Never}, enabled : BOOLEAN]
LinkRows == [until : Until, by : Admins]
KeyRows == [user : Members, prefix : KeyPrefixes, until : Until, uses : Nat, deleted : BOOLEAN]
UsageRows == [date : Dates, tokens : Nat]
QuotaRows == [limit : Limits \cup {Never}, enabled : BOOLEAN, row : BOOLEAN]
CheckStates ==
    {At0} \cup [at : {"create", "sum"}, quota : QuotaRows, year : Nat, month : Nat, began : Nat]
    \cup [at : {"done"}, over : BOOLEAN, before : BOOLEAN, after : BOOLEAN, raised : BOOLEAN]
RecordTypes ==
    /\ log \in Seq(CallsMade)
    /\ links \in [DOMAIN links -> LinkRows]
    /\ apiKeys \in [DOMAIN apiKeys -> KeyRows] /\ DOMAIN apiKeys \subseteq ApiKeys
    /\ usage \in Seq(UsageRows) /\ quota \in QuotaRows
    /\ checks \in [Checkers -> CheckStates]
    /\ journal \in Seq([author : Authors, rating : Ratings])

\* An assignment is in its table as the last call about it left it.
LinksKept ==
    family.tables = "links" =>
        \A u \in Members, x \in Things :
            LET about == CallsAbout(u, x)
            IN /\ <<u, x>> \in DOMAIN links <=> (about # {} /\ log[Max(about)].op = "assign")
               /\ <<u, x>> \in DOMAIN links => links[<<u, x>>].until = log[Max(about)].until

\* A key that was deleted is marked so, and no other.
Deletion(k) == [op |-> "delete", key |-> k]
KeysKept ==
    /\ \A i \in DOMAIN log, k \in ApiKeys :
           log[i] = Deletion(k) => k \in DOMAIN apiKeys /\ apiKeys[k].deleted
    /\ \A k \in DOMAIN apiKeys : apiKeys[k].deleted => \E i \in DOMAIN log : log[i] = Deletion(k)

\* While a check is under way the usage of its month does not shrink.
ChecksKept ==
    \A c \in Checkers :
        checks[c].at \in {"create", "sum"} =>
            checks[c].began <= Total(MonthRows(checks[c].year, checks[c].month))

\* Of the entries that were there, those with fewer newer ones than were read are seen.
PageKept ==
    /\ page.at = "open" =>
        /\ page = [at |-> "open", author |-> page.author, offset |-> page.offset,
                   seen |-> page.seen, there |-> page.there]
        /\ page.offset \in Nat /\ page.there \subseteq EntriesOf(page.author)
        /\ \A i \in page.there :
            Cardinality(Newer(EntriesOf(page.author), i)) < page.offset => i \in page.seen
    /\ PagesMissNothing

RecordsInv ==
    /\ RecordTypes /\ LinksKept /\ KeysKept /\ NoUsageLost
    /\ ChecksKept /\ VerdictsTimely /\ QuotaKept /\ PageKept
\* The constants, as the proofs use them.
LEMMA RecordNumbers ==
    /\ Amounts \subseteq Nat /\ Limits \subseteq Nat /\ Never \notin Nat
    /\ AskedMonths \subseteq Nat \X Nat /\ Dates \subseteq Nat \X (1..12) \X (1..31)
    /\ PageLimit \in Nat \ {0} /\ LastTick \in Nat
  BY RecordsAssumption DEF RecordsAssumption

\* A longer log.
LEMMA LogGrows ==
    ASSUME log \in Seq(CallsMade), NEW e \in CallsMade, log' = Append(log, e)
    PROVE  /\ log' \in Seq(CallsMade) /\ Len(log) \in Nat /\ Len(log') = Len(log) + 1
           /\ DOMAIN log = 1 .. Len(log) /\ DOMAIN log' = 1 .. Len(log) + 1
           /\ \A i \in 1 .. Len(log) : log'[i] = log[i]
           /\ log'[Len(log) + 1] = e
  BY AppendProperties, LenProperties

\* Of some calls of a longer log, the last one is the new one, or it is as before.
LEMMA LastOfLonger ==
    ASSUME log \in Seq(CallsMade), NEW e \in CallsMade, log' = Append(log, e),
           NEW S, NEW T, S \subseteq DOMAIN log,
           \A i \in DOMAIN log : i \in T <=> i \in S, T \subseteq DOMAIN log'
    PROVE  /\ Len(log) + 1 \notin T => T = S
           /\ Len(log) + 1 \in T => Max(T) = Len(log) + 1 /\ log'[Max(T)] = e
           /\ S # {} => Max(S) \in S /\ log'[Max(S)] = log[Max(S)]
<1>1. /\ Len(log) \in Nat /\ DOMAIN log = 1 .. Len(log) /\ DOMAIN log' = 1 .. Len(log) + 1
      /\ \A i \in 1 .. Len(log) : log'[i] = log[i]
      /\ log'[Len(log) + 1] = e
  BY LogGrows
<1> DEFINE n == Len(log)
<1> HIDE DEF n
<1>2. /\ n \in Nat /\ S \subseteq 1 .. n /\ T \subseteq 1 .. n + 1
      /\ \A i \in 1 .. n : i \in T <=> i \in S
  BY <1>1 DEF n
<1>3. n + 1 \notin T => T = S
  <2> SUFFICES ASSUME n + 1 \notin T PROVE T = S
    OBVIOUS
  <2>1. \A i \in 1 .. n + 1 : i = n + 1 \/ i \in 1 .. n
    BY <1>2
  <2> QED
    BY <1>2, <2>1
<1>4. n + 1 \in T => Max(T) = n + 1
  <2> SUFFICES ASSUME n + 1 \in T PROVE Max(T) = n + 1
    OBVIOUS
  <2>1. \A i \in T : n + 1 >= i /\ (i >= n + 1 => i = n + 1)
    BY <1>2
  <2> QED
    BY <2>1 DEF Max
<1>5. S # {} => Max(S) \in S
  <2> SUFFICES ASSUME S # {} PROVE Max(S) \in S
    OBVIOUS
  <2>1. IsFiniteSet(S) /\ S \in SUBSET Nat
    <3>1. IsFiniteSet(1 .. n)
      BY <1>2, FS_Interval
    <3> QED
      BY <1>2, <3>1, FS_Subset
  <2> QED
    BY <2>1, GreatestOf
<1> QED
  BY <1>1, <1>3, <1>4, <1>5 DEF n

\* The call that deletes a key.
LEMMA DeleteCall == ASSUME NEW k PROVE [op |-> "delete", key |-> k].op = "delete"
OBVIOUS

\* What a step leaves alone stays as it was.
LEMMA LinksSame ==
    ASSUME LinksKept, UNCHANGED family, family.tables # "links" \/ UNCHANGED <<log, links>>
    PROVE  LinksKept'
<1>1. CASE family.tables # "links"
  BY <1>1 DEF LinksKept
<1>2. CASE UNCHANGED <<log, links>>
  <2>1. log' = log /\ links' = links /\ family' = family
    BY <1>2
  <2>2. \A u, x : CallsAbout(u, x)' = CallsAbout(u, x)
    BY <2>1 DEF CallsAbout
  <2> QED
    BY <2>1, <2>2 DEF LinksKept
<1> QED
  BY <1>1, <1>2

\* One more call, which deletes at most the keys that it names.
LEMMA KeysGrow ==
    ASSUME KeysKept, NEW e, NEW n \in Nat, DOMAIN log = 1 .. n, DOMAIN log' = 1 .. n + 1,
           \A i \in 1 .. n : log'[i] = log[i], log'[n + 1] = e,
           \A j \in DOMAIN apiKeys : j \in DOMAIN apiKeys' /\
                                     (apiKeys[j].deleted => apiKeys'[j].deleted),
           \A j \in ApiKeys : e = Deletion(j) => j \in DOMAIN apiKeys' /\ apiKeys'[j].deleted,
           \A j \in DOMAIN apiKeys' :
               apiKeys'[j].deleted => e = Deletion(j) \/ (j \in DOMAIN apiKeys /\ apiKeys[j].deleted)
    PROVE  KeysKept'
<1>1. ASSUME NEW i \in DOMAIN log', NEW k \in ApiKeys, log'[i] = Deletion(k)
      PROVE  k \in DOMAIN apiKeys' /\ apiKeys'[k].deleted
  <2>1. CASE i = n + 1
    BY <1>1, <2>1
  <2>2. CASE i # n + 1
    <3>1. i \in DOMAIN log /\ log[i] = Deletion(k)
      BY <1>1, <2>2
    <3>2. k \in DOMAIN apiKeys /\ apiKeys[k].deleted
      BY <3>1 DEF KeysKept
    <3> QED
      BY <3>2
  <2> QED
    BY <2>1, <2>2
<1>2. ASSUME NEW k \in DOMAIN apiKeys', apiKeys'[k].deleted
      PROVE  \E i \in DOMAIN log' : log'[i] = Deletion(k)
  <2>1. CASE e = Deletion(k)
    <3>1. n + 1 \in DOMAIN log'
      OBVIOUS
    <3> QED
      BY <2>1, <3>1
  <2>2. CASE k \in DOMAIN apiKeys /\ apiKeys[k].deleted
    <3>1. PICK i \in DOMAIN log : log[i] = Deletion(k)
      BY <2>2 DEF KeysKept
    <3>2. i \in DOMAIN log' /\ log'[i] = Deletion(k)
      BY <3>1
    <3> QED
      BY <3>2
  <2> QED
    BY <1>2, <2>1, <2>2
<1> QED
  BY <1>1, <1>2, Zenon DEF KeysKept, Deletion

LEMMA KeysStay ==
    ASSUME KeysKept, log' = log, apiKeys' = apiKeys
    PROVE  KeysKept'
  BY DEF KeysKept, Deletion

LEMMA KeysSame ==
    ASSUME KeysKept, UNCHANGED apiKeys,
           \/ UNCHANGED log
           \/ /\ log \in Seq(CallsMade)
              /\ \E e \in CallsMade : e.op # "delete" /\ log' = Append(log, e)
    PROVE  KeysKept'
<1>1. CASE UNCHANGED log
  BY <1>1, KeysStay
<1>2. CASE log \in Seq(CallsMade) /\ \E e \in CallsMade : e.op # "delete" /\ log' = Append(log, e)
  <2>1. PICK e \in CallsMade : e.op # "delete" /\ log' = Append(log, e)
    BY <1>2
  <2>2. /\ Len(log) \in Nat /\ DOMAIN log = 1 .. Len(log) /\ DOMAIN log' = 1 .. Len(log) + 1
        /\ \A n \in 1 .. Len(log) : log'[n] = log[n]
        /\ log'[Len(log) + 1] = e
    BY <1>2, <2>1, LogGrows
  <2>3. \A j : e # Deletion(j)
    BY <2>1, DeleteCall, Zenon DEF Deletion
  <2> QED
    BY <2>2, <2>3, KeysGrow
<1> QED
  BY <1>1, <1>2

LEMMA UsageSame ==
    ASSUME NoUsageLost, UNCHANGED family, family.tables # "usage" \/ UNCHANGED <<log, usage>>
    PROVE  NoUsageLost'
<1>1. CASE family.tables # "usage"
  BY <1>1 DEF NoUsageLost
<1>2. CASE UNCHANGED <<log, usage>>
  <2>1. log' = log /\ usage' = usage /\ family' = family
    BY <1>2
  <2>2. \A d : Recorded(d)' = Recorded(d)
    BY <2>1 DEF Recorded
  <2>3. \A d : TokensRecorded(d)' = TokensRecorded(d)
    BY <2>1, <2>2 DEF TokensRecorded
  <2>4. UsageDates' = UsageDates /\ \A y, m : MonthRows(y, m)' = MonthRows(y, m)
    BY <2>1 DEF UsageDates, MonthRows
  <2> QED
    BY <2>1, <2>2, <2>3, <2>4 DEF NoUsageLost
<1> QED
  BY <1>1, <1>2

LEMMA ChecksSame ==
    ASSUME ChecksKept, VerdictsTimely, UNCHANGED <<checks, usage>>
    PROVE  ChecksKept' /\ VerdictsTimely'
<1>1. checks' = checks /\ usage' = usage
  OBVIOUS
<1>2. \A y, m : Total(MonthRows(y, m))' = Total(MonthRows(y, m))
  BY <1>1 DEF MonthRows, Total
<1>3. ChecksKept'
  BY <1>1, <1>2 DEF ChecksKept
<1>4. VerdictsTimely'
  BY <1>1 DEF VerdictsTimely
<1> QED
  BY <1>3, <1>4

LEMMA QuotaSame ==
    ASSUME QuotaKept, UNCHANGED family, family.tables # "usage" \/ UNCHANGED <<log, quota>>
    PROVE  QuotaKept'
  BY DEF QuotaKept

LEMMA PageSame ==
    ASSUME PageKept, UNCHANGED <<journal, page>>
    PROVE  PageKept'
<1>1. journal' = journal /\ page' = page
  OBVIOUS
<1>2. \A a : EntriesOf(a)' = EntriesOf(a)
  BY <1>1 DEF EntriesOf
<1> QED
  BY <1>1, <1>2 DEF PageKept, PagesMissNothing

\* Assignments.
LEMMA LinkStepKeeps ==
    ASSUME RecordsInv, LinkStep, family.tables = "links", UNCHANGED family
    PROVE  RecordTypes' /\ LinksKept' /\ KeysKept'
<1>1. RecordTypes /\ LinksKept /\ KeysKept
  BY DEF RecordsInv
<1>2. ASSUME NEW u \in Members, NEW x \in Things, NEW e \in CallsMade,
             e.op \in {"assign", "remove"}, e.user = u, e.thing = x, log' = Append(log, e),
             links' \in [DOMAIN links' -> LinkRows],
             \A p : p # <<u, x>> => /\ p \in DOMAIN links' <=> p \in DOMAIN links
                                    /\ p \in DOMAIN links => links'[p] = links[p],
             <<u, x>> \in DOMAIN links' <=> e.op = "assign",
             e.op = "assign" => links'[<<u, x>>].until = e.until,
             UNCHANGED <<apiKeys, usage, quota, checks, journal>>
      PROVE  RecordTypes' /\ LinksKept' /\ KeysKept'
  <2>1. log \in Seq(CallsMade)
    BY <1>1 DEF RecordTypes
  <2>2. /\ log' \in Seq(CallsMade) /\ Len(log) \in Nat /\ Len(log') = Len(log) + 1
        /\ DOMAIN log = 1 .. Len(log) /\ DOMAIN log' = 1 .. Len(log) + 1
        /\ \A i \in 1 .. Len(log) : log'[i] = log[i]
        /\ log'[Len(log) + 1] = e
    BY <1>2, <2>1, LogGrows
  <2>3. RecordTypes'
    BY <1>1, <1>2, <2>2 DEF RecordTypes
  <2>4. KeysKept'
    <3>1. e.op # "delete" /\ UNCHANGED apiKeys
      BY <1>2
    <3> QED
      BY <1>1, <1>2, <2>1, <3>1, KeysSame
  <2>5. LinksKept'
    <3> SUFFICES ASSUME NEW v \in Members, NEW y \in Things
                 PROVE  LET about == CallsAbout(v, y)'
                        IN /\ <<v, y>> \in DOMAIN links' <=>
                                  (about # {} /\ log'[Max(about)].op = "assign")
                           /\ <<v, y>> \in DOMAIN links' =>
                                  links'[<<v, y>>].until = log'[Max(about)].until
      BY DEF LinksKept
    <3> DEFINE S == CallsAbout(v, y)
               T == CallsAbout(v, y)'
    <3>1. /\ S \subseteq DOMAIN log /\ T \subseteq DOMAIN log'
          /\ \A i \in DOMAIN log : i \in T <=> i \in S
          /\ Len(log) + 1 \in T <=> v = u /\ y = x
      BY <1>2, <2>2 DEF CallsAbout
    <3>2. /\ <<v, y>> \in DOMAIN links <=> (S # {} /\ log[Max(S)].op = "assign")
          /\ <<v, y>> \in DOMAIN links => links[<<v, y>>].until = log[Max(S)].until
      BY <1>1 DEF LinksKept
    <3> HIDE DEF S, T
    <3>3. /\ Len(log) + 1 \notin T => T = S
          /\ Len(log) + 1 \in T => Max(T) = Len(log) + 1 /\ log'[Max(T)] = e
          /\ S # {} => Max(S) \in S /\ log'[Max(S)] = log[Max(S)]
      BY <1>2, <2>1, <3>1, LastOfLonger
    <3>4. CASE v = u /\ y = x
      <4>1. T # {} /\ log'[Max(T)] = e
        BY <3>1, <3>3, <3>4
      <4> QED
        BY <1>2, <3>4, <4>1 DEF T
    <3>5. CASE ~(v = u /\ y = x)
      <4>1. T = S
        BY <3>1, <3>3, <3>5
      <4>2. <<v, y>> # <<u, x>>
        BY <3>5
      <4>3. <<v, y>> \in DOMAIN links' <=> <<v, y>> \in DOMAIN links
        BY <1>2, <4>2
      <4>4. <<v, y>> \in DOMAIN links => links'[<<v, y>>] = links[<<v, y>>]
        BY <1>2, <4>2
      <4> QED
        BY <3>2, <3>3, <4>1, <4>3, <4>4 DEF T
    <3> QED
      BY <3>4, <3>5
  <2> QED
    BY <2>3, <2>4, <2>5
<1>3. ASSUME NEW u \in Members, NEW x \in Things, Unassign(u, x)
      PROVE  RecordTypes' /\ LinksKept' /\ KeysKept'
  <2> DEFINE e == [op |-> "remove", user |-> u, thing |-> x, until |-> 0]
  <2>1. /\ links' = [p \in DOMAIN links \ {<<u, x>>} |-> links[p]] /\ log' = Append(log, e)
        /\ UNCHANGED <<apiKeys, usage, quota, checks, journal>>
    <3>1. links' = [p \in (DOMAIN links) \cap (DOMAIN links \ {<<u, x>>}) |-> links[p]]
      BY <1>3 DEF Unassign, Restrict
    <3> QED
      BY <1>3, <3>1 DEF Unassign, Called, usageVars, journalVars
  <2>2. e \in CallsMade
    BY RecordNumbers DEF CallsMade, Until
  <2>3. e.op = "remove" /\ e.user = u /\ e.thing = x
    OBVIOUS
  <2>4. links \in [DOMAIN links -> LinkRows]
    BY <1>1 DEF RecordTypes
  <2> HIDE DEF e
  <2>5. links' \in [DOMAIN links' -> LinkRows]
    BY <2>1, <2>4
  <2>6. \A p : p # <<u, x>> => /\ p \in DOMAIN links' <=> p \in DOMAIN links
                               /\ p \in DOMAIN links => links'[p] = links[p]
    BY <2>1
  <2>7. <<u, x>> \notin DOMAIN links'
    BY <2>1
  <2> QED
    BY <1>2, <2>1, <2>2, <2>3, <2>5, <2>6, <2>7
<1>4. ASSUME NEW u \in Members, NEW x \in Things, NEW a \in Admins, NEW t \in Until,
             Assign(u, x, a, t)
      PROVE  RecordTypes' /\ LinksKept' /\ KeysKept'
  <2> DEFINE e == [op |-> "assign", user |-> u, thing |-> x, until |-> t]
  <2>1. /\ AssignLink(u, x, a, t) /\ log' = Append(log, e)
        /\ UNCHANGED <<apiKeys, usage, quota, checks, journal>>
    BY <1>4 DEF Assign, Called, usageVars, journalVars
  <2>2. e \in CallsMade
    BY DEF CallsMade
  <2>3. e.op = "assign" /\ e.user = u /\ e.thing = x /\ e.until = t
    OBVIOUS
  <2>4. links \in [DOMAIN links -> LinkRows]
    BY <1>1 DEF RecordTypes
  <2> HIDE DEF e
  <2> DEFINE q == <<u, x>>
  <2>5. /\ links' \in [DOMAIN links' -> LinkRows]
        /\ \A p : p # q => /\ p \in DOMAIN links' <=> p \in DOMAIN links
                           /\ p \in DOMAIN links => links'[p] = links[p]
        /\ q \in DOMAIN links' /\ links'[q].until = t
    <3>1. links' = IF q \in DOMAIN links THEN [links EXCEPT ![q].until = t]
                   ELSE [p \in DOMAIN links \cup {q} |->
                            IF p \in DOMAIN links THEN links[p] ELSE [until |-> t, by |-> a]]
      BY <2>1 DEF AssignLink
    <3> HIDE DEF q
    <3>2. CASE q \in DOMAIN links
      <4>1. links' = [links EXCEPT ![q].until = t]
        BY <3>1, <3>2
      <4>2. links[q] \in LinkRows
        BY <2>4, <3>2
      <4>3. [links[q] EXCEPT !.until = t] \in LinkRows /\ [links[q] EXCEPT !.until = t].until = t
        BY <4>2 DEF LinkRows
      <4>4. DOMAIN links' = DOMAIN links /\ links'[q] = [links[q] EXCEPT !.until = t]
        BY <2>4, <3>2, <4>1
      <4>5. \A p \in DOMAIN links : p # q => links'[p] = links[p]
        BY <2>4, <4>1
      <4>6. \A p \in DOMAIN links : links'[p] \in LinkRows
        BY <2>4, <4>3, <4>4, <4>5
      <4>7. links' = [p \in DOMAIN links' |-> links'[p]]
        BY <4>1
      <4>8. links' \in [DOMAIN links' -> LinkRows]
        BY <4>4, <4>6, <4>7
      <4> QED
        BY <3>2, <4>3, <4>4, <4>5, <4>8
    <3>3. CASE q \notin DOMAIN links
      <4>1. links' = [p \in DOMAIN links \cup {q} |->
                         IF p \in DOMAIN links THEN links[p] ELSE [until |-> t, by |-> a]]
        BY <3>1, <3>3
      <4>2. [until |-> t, by |-> a] \in LinkRows /\ [until |-> t, by |-> a].until = t
        BY DEF LinkRows
      <4> QED
        BY <2>4, <3>3, <4>1, <4>2
    <3> QED
      BY <3>2, <3>3
  <2> QED
    BY <1>2, <2>1, <2>2, <2>3, <2>5
<1>5. ASSUME NEW x \in Things, Retire(x)
      PROVE  RecordTypes' /\ LinksKept' /\ KeysKept'
  <2>1. UNCHANGED <<log, links, apiKeys, usage, quota, checks, journal>>
    BY <1>5 DEF Retire, usageVars, journalVars
  <2> QED
    BY <1>1, <2>1, LinksSame, KeysSame DEF RecordTypes
<1> QED
  BY <1>3, <1>4, <1>5 DEF LinkStep

\* Keys.
LEMMA KeyStepKeeps ==
    ASSUME RecordsInv, KeyStep, family.tables = "keys", UNCHANGED family
    PROVE  RecordTypes' /\ KeysKept'
<1>1. RecordTypes /\ KeysKept /\ log \in Seq(CallsMade)
  BY DEF RecordsInv, RecordTypes
<1>2. ASSUME NEW k \in ApiKeys, NEW e \in CallsMade, log' = Append(log, e),
             e = Deletion(k) \/ e.op # "delete",
             apiKeys' \in [DOMAIN apiKeys' -> KeyRows],
             DOMAIN apiKeys' \subseteq ApiKeys,
             \A j \in DOMAIN apiKeys : j \in DOMAIN apiKeys' /\
                                       (apiKeys[j].deleted => apiKeys'[j].deleted),
             e = Deletion(k) => k \in DOMAIN apiKeys' /\ apiKeys'[k].deleted,
             \A j \in DOMAIN apiKeys' : apiKeys'[j].deleted =>
                 (e = Deletion(k) /\ j = k) \/ (j \in DOMAIN apiKeys /\ apiKeys[j].deleted),
             UNCHANGED <<links, usage, quota, checks, journal>>
      PROVE  RecordTypes' /\ KeysKept'
  <2>1. /\ log' \in Seq(CallsMade) /\ Len(log) \in Nat /\ Len(log') = Len(log) + 1
        /\ DOMAIN log = 1 .. Len(log) /\ DOMAIN log' = 1 .. Len(log) + 1
        /\ \A i \in 1 .. Len(log) : log'[i] = log[i]
        /\ log'[Len(log) + 1] = e
    BY <1>1, <1>2, LogGrows
  <2>2. RecordTypes'
    BY <1>1, <1>2, <2>1 DEF RecordTypes
  <2>3. \A j \in ApiKeys : e = Deletion(j) => j = k
    <3> SUFFICES ASSUME NEW j \in ApiKeys, e = Deletion(j) PROVE j = k
      OBVIOUS
    <3>1. e.op = "delete" /\ e.key = j
      BY DEF Deletion
    <3>2. e = Deletion(k)
      BY <1>2, <3>1
    <3>3. e.key = k
      BY <3>2 DEF Deletion
    <3> QED
      BY <3>1, <3>3
  <2>4. KeysKept'
    <3> DEFINE n == Len(log)
    <3>1. /\ n \in Nat /\ DOMAIN log = 1 .. n /\ DOMAIN log' = 1 .. n + 1
          /\ \A i \in 1 .. n : log'[i] = log[i]
          /\ log'[n + 1] = e /\ KeysKept
      BY <1>1, <2>1
    <3>2. \A j \in ApiKeys : e = Deletion(j) => j \in DOMAIN apiKeys' /\ apiKeys'[j].deleted
      BY <1>2, <2>3
    <3>3. \A j \in DOMAIN apiKeys' : apiKeys'[j].deleted =>
              e = Deletion(j) \/ (j \in DOMAIN apiKeys /\ apiKeys[j].deleted)
      BY <1>2
    <3>4. \A j \in DOMAIN apiKeys : j \in DOMAIN apiKeys' /\
                                    (apiKeys[j].deleted => apiKeys'[j].deleted)
      BY <1>2
    <3> HIDE DEF n
    <3> QED
      BY ONLY <3>1, <3>2, <3>3, <3>4, KeysGrow, Zenon
  <2> QED
    BY <2>2, <2>4
<1>3. apiKeys \in [DOMAIN apiKeys -> KeyRows] /\ DOMAIN apiKeys \subseteq ApiKeys
  BY <1>1 DEF RecordTypes
<1>4. ASSUME NEW k \in ApiKeys, UseKey(k) PROVE RecordTypes' /\ KeysKept'
  <2> DEFINE e == [op |-> "use", key |-> k]
             row == [apiKeys[k] EXCEPT !.uses = @ + 1]
  <2>1. /\ k \in DOMAIN apiKeys /\ apiKeys' = [apiKeys EXCEPT ![k] = row]
        /\ log' = Append(log, e) /\ UNCHANGED <<links, usage, quota, checks, journal>>
    BY <1>4 DEF UseKey, Called, linkVars, usageVars, journalVars
  <2>2. e \in CallsMade /\ e.op # "delete"
    BY DEF CallsMade
  <2>3. row \in KeyRows /\ row.deleted = apiKeys[k].deleted
    <3>1. apiKeys[k] \in KeyRows
      BY <1>3, <2>1
    <3> QED
      BY <3>1 DEF KeyRows
  <2> HIDE DEF e, row
  <2>4. apiKeys' \in [DOMAIN apiKeys' -> KeyRows] /\ DOMAIN apiKeys' = DOMAIN apiKeys
    BY <1>3, <2>1, <2>3
  <2>5. \A j \in DOMAIN apiKeys : apiKeys'[j].deleted = apiKeys[j].deleted
    BY <1>3, <2>1, <2>3
  <2>6. e # Deletion(k)
    BY <2>2, DeleteCall, Zenon DEF Deletion
  <2> QED
    BY <1>2, <1>3, <2>1, <2>2, <2>4, <2>5, <2>6
<1>5. ASSUME NEW k \in ApiKeys, DeleteKey(k) PROVE RecordTypes' /\ KeysKept'
  <2> DEFINE e == [op |-> "delete", key |-> k]
             row == [apiKeys[k] EXCEPT !.deleted = TRUE]
  <2>1. /\ k \in DOMAIN apiKeys /\ apiKeys' = [apiKeys EXCEPT ![k] = row]
        /\ log' = Append(log, e) /\ UNCHANGED <<links, usage, quota, checks, journal>>
    BY <1>5 DEF DeleteKey, Called, linkVars, usageVars, journalVars
  <2>2. e \in CallsMade /\ e = Deletion(k)
    BY DEF CallsMade, Deletion
  <2>3. row \in KeyRows /\ row.deleted
    <3>1. apiKeys[k] \in KeyRows
      BY <1>3, <2>1
    <3> QED
      BY <3>1 DEF KeyRows
  <2> HIDE DEF e, row
  <2>4. apiKeys' \in [DOMAIN apiKeys' -> KeyRows] /\ DOMAIN apiKeys' = DOMAIN apiKeys
    BY <1>3, <2>1, <2>3
  <2>5. \A j \in DOMAIN apiKeys : apiKeys[j].deleted => apiKeys'[j].deleted
    BY <1>3, <2>1, <2>3
  <2>6. k \in DOMAIN apiKeys' /\ apiKeys'[k].deleted
    BY <1>3, <2>1, <2>3
  <2>7. \A j \in DOMAIN apiKeys : j # k => apiKeys'[j] = apiKeys[j]
    BY <1>3, <2>1
  <2> QED
    BY <1>2, <1>3, <2>1, <2>2, <2>4, <2>5, <2>6, <2>7
<1>6. ASSUME NEW k \in ApiKeys, NEW u \in Members, NEW p \in KeyPrefixes, NEW t \in Until,
             CreateKey(k, u, p, t)
      PROVE  RecordTypes' /\ KeysKept'
  <2> DEFINE e == [op |-> "key", key |-> k]
             row == [user |-> u, prefix |-> p, until |-> t, uses |-> 0, deleted |-> FALSE]
  <2>1. /\ k \notin DOMAIN apiKeys
        /\ apiKeys' = [other \in DOMAIN apiKeys \cup {k} |->
                          IF other = k THEN row ELSE apiKeys[other]]
        /\ log' = Append(log, e) /\ UNCHANGED <<links, usage, quota, checks, journal>>
    BY <1>6 DEF CreateKey, Called, linkVars, usageVars, journalVars
  <2>2. e \in CallsMade /\ e.op # "delete"
    BY DEF CallsMade
  <2>3. row \in KeyRows /\ ~row.deleted
    BY DEF KeyRows
  <2> HIDE DEF e, row
  <2>4. /\ apiKeys' \in [DOMAIN apiKeys' -> KeyRows] /\ DOMAIN apiKeys' \subseteq ApiKeys
        /\ \A j \in DOMAIN apiKeys : j \in DOMAIN apiKeys' /\ apiKeys'[j] = apiKeys[j]
    BY <1>3, <2>1, <2>3
  <2>5. \A j \in DOMAIN apiKeys' : apiKeys'[j].deleted => j \in DOMAIN apiKeys /\ apiKeys[j].deleted
    BY <1>3, <2>1, <2>3
  <2>6. e # Deletion(k)
    BY <2>2, DeleteCall, Zenon DEF Deletion
  <2> QED
    BY <1>2, <2>1, <2>2, <2>4, <2>5, <2>6
<1> QED
  BY <1>4, <1>5, <1>6 DEF KeyStep

\* Usage.
LEMMA SumOfNone ==
    ASSUME NEW f \in Seq(Nat), \A n \in 1 .. Len(f) : f[n] = 0
    PROVE  RowSum(f) = 0
<1>1. PICK F : /\ \A n \in 0 .. Len(f) : F[n] \in Nat
               /\ F[0] = 0 /\ \A n \in 1 .. Len(f) : F[n] = F[n - 1] + f[n]
               /\ RowSum(f) = F[Len(f)]
  BY SumsAre
<1>2. Len(f) \in Nat
  BY LenProperties
<1> DEFINE Good == {n \in 0 .. Len(f) : F[n] = 0}
<1>3. 0 \in Good
  BY <1>1, <1>2
<1>4. ASSUME NEW k \in 0 .. Len(f) - 1, k \in Good PROVE k + 1 \in Good
  <2> DEFINE j == k + 1
  <2>1. j \in 1 .. Len(f) /\ j - 1 = k /\ j \in 0 .. Len(f)
    BY <1>2
  <2> HIDE DEF j
  <2>2. F[j] = F[k] + f[j] /\ f[j] = 0 /\ F[k] = 0
    BY <1>1, <1>4, <2>1
  <2> QED
    BY <2>1, <2>2 DEF j
<1> HIDE DEF Good
<1>5. \A k \in 0 .. Len(f) - 1 : k \in Good => k + 1 \in Good
  BY <1>4
<1>6. \A k \in 0 .. Len(f) : k \in Good
  BY <1>2, <1>3, <1>5, UpTo
<1> QED
  BY <1>1, <1>2, <1>6 DEF Good

\* The sum of the amounts recorded of a date is that of a sequence of numbers.
LEMMA RecordedAmounts ==
    ASSUME log \in Seq(CallsMade), NEW d
    PROVE  LET f == [n \in DOMAIN log |-> IF n \in Recorded(d) THEN log[n].amount ELSE 0]
           IN /\ f \in Seq(Nat) /\ Len(f) = Len(log) /\ TokensRecorded(d) = RowSum(f)
              /\ TokensRecorded(d) \in Nat
<1> DEFINE f == [n \in DOMAIN log |-> IF n \in Recorded(d) THEN log[n].amount ELSE 0]
<1>1. Len(log) \in Nat /\ DOMAIN log = 1 .. Len(log) /\ log \in [1 .. Len(log) -> CallsMade]
  BY LenProperties
<1>2. \A n \in Recorded(d) : log[n].amount \in Nat
  <2> SUFFICES ASSUME NEW n \in Recorded(d) PROVE log[n].amount \in Nat
    OBVIOUS
  <2>1. log[n] \in CallsMade /\ log[n].op = "usage"
    BY <1>1 DEF Recorded
  <2>2. log[n] \in [op : {"usage"}, date : Dates, amount : Amounts]
    BY <2>1 DEF CallsMade
  <2> QED
    BY <2>2, RecordNumbers
<1>3. f = [n \in 1 .. Len(log) |-> IF n \in Recorded(d) THEN log[n].amount ELSE 0]
  BY <1>1
<1>4. f \in [1 .. Len(log) -> Nat]
  BY <1>2, <1>3
<1>5. f \in Seq(Nat) /\ Len(f) = Len(log)
  BY <1>1, <1>4, SeqDef, LenProperties
<1>6. TokensRecorded(d) = RowSum(f)
  BY DEF TokensRecorded
<1> HIDE DEF f
<1>7. RowSum(f) \in Nat
  <2>1. Len(f) <= Len(f) /\ \A n \in 1 .. Len(f) : f[n] <= f[n]
    BY <1>1, <1>4, <1>5
  <2> QED
    BY <1>5, <2>1, SumGrows
<1> QED
  BY <1>5, <1>6, <1>7 DEF f

\* A call more, and what was recorded of a date.
LEMMA RecordedGrows ==
    ASSUME log \in Seq(CallsMade), NEW e \in CallsMade, log' = Append(log, e), NEW d
    PROVE  /\ Recorded(d)' = IF e.op = "usage" /\ e.date = d THEN Recorded(d) \cup {Len(log) + 1}
                             ELSE Recorded(d)
           /\ TokensRecorded(d) \in Nat
           /\ TokensRecorded(d)' = IF e.op = "usage" /\ e.date = d
                                   THEN TokensRecorded(d) + e.amount ELSE TokensRecorded(d)
<1>1. /\ log' \in Seq(CallsMade) /\ Len(log) \in Nat /\ Len(log') = Len(log) + 1
      /\ DOMAIN log = 1 .. Len(log) /\ DOMAIN log' = 1 .. Len(log) + 1
      /\ \A i \in 1 .. Len(log) : log'[i] = log[i]
      /\ log'[Len(log) + 1] = e
  BY LogGrows
<1>2. Recorded(d)' = IF e.op = "usage" /\ e.date = d THEN Recorded(d) \cup {Len(log) + 1}
                     ELSE Recorded(d)
  <2>1. \A i : i \in Recorded(d)' <=>
            i \in 1 .. Len(log) + 1 /\ log'[i].op = "usage" /\ log'[i].date = d
    BY <1>1 DEF Recorded
  <2>2. \A i : i \in Recorded(d) <=> i \in 1 .. Len(log) /\ log[i].op = "usage" /\ log[i].date = d
    BY <1>1 DEF Recorded
  <2>3. \A i : i \in 1 .. Len(log) + 1 <=> i \in 1 .. Len(log) \/ i = Len(log) + 1
    BY <1>1
  <2>4. \A i : i \in Recorded(d)' <=>
            i \in Recorded(d) \/ (i = Len(log) + 1 /\ e.op = "usage" /\ e.date = d)
    BY <1>1, <2>1, <2>2, <2>3
  <2> QED
    BY <2>4
<1> DEFINE f == [n \in DOMAIN log |-> IF n \in Recorded(d) THEN log[n].amount ELSE 0]
           h == [n \in DOMAIN log' |-> IF n \in Recorded(d)' THEN log'[n].amount ELSE 0]
           x == IF e.op = "usage" /\ e.date = d THEN e.amount ELSE 0
<1>3. f \in Seq(Nat) /\ Len(f) = Len(log) /\ TokensRecorded(d) = RowSum(f) /\ TokensRecorded(d) \in Nat
  BY RecordedAmounts
<1>4. h \in Seq(Nat) /\ Len(h) = Len(log')
  <2>1. \A n \in Recorded(d)' : log'[n].amount \in Nat
    <3> SUFFICES ASSUME NEW n \in Recorded(d)' PROVE log'[n].amount \in Nat
      OBVIOUS
    <3>1. log'[n] \in CallsMade /\ log'[n].op = "usage"
      BY <1>1, LenProperties DEF Recorded
    <3>2. log'[n] \in [op : {"usage"}, date : Dates, amount : Amounts]
      BY <3>1 DEF CallsMade
    <3> QED
      BY <3>2, RecordNumbers
  <2>2. h = [n \in 1 .. Len(log') |-> IF n \in Recorded(d)' THEN log'[n].amount ELSE 0]
    BY <1>1
  <2>3. h \in [1 .. Len(log') -> Nat]
    BY <2>1, <2>2
  <2> QED
    BY <1>1, <2>3, SeqDef, LenProperties
<1>5. TokensRecorded(d)' = RowSum(h)
  BY DEF TokensRecorded
<1>6. x \in Nat
  <2>1. CASE e.op = "usage"
    <3>1. e \in [op : {"usage"}, date : Dates, amount : Amounts]
      BY <2>1 DEF CallsMade
    <3> QED
      BY <3>1, RecordNumbers
  <2>2. CASE e.op # "usage"
    BY <2>2
  <2> QED
    BY <2>1, <2>2
<1>7. \A n \in 1 .. Len(log) : h[n] = f[n]
  <2> SUFFICES ASSUME NEW n \in 1 .. Len(log) PROVE h[n] = f[n]
    OBVIOUS
  <2>1. n \in DOMAIN log /\ n \in DOMAIN log' /\ n # Len(log) + 1 /\ log'[n] = log[n]
    BY <1>1
  <2>2. n \in Recorded(d)' <=> n \in Recorded(d)
    BY <1>2, <2>1
  <2> QED
    BY <2>1, <2>2
<1>8. h[Len(log) + 1] = x
  <2> DEFINE m == Len(log) + 1
  <2>1. m \in DOMAIN log' /\ log'[m] = e /\ m \notin Recorded(d)
    BY <1>1 DEF Recorded
  <2> HIDE DEF m
  <2>2. m \in Recorded(d)' <=> e.op = "usage" /\ e.date = d
    BY <1>2, <2>1 DEF m
  <2>3. h[m] = x
    BY <2>1, <2>2
  <2> QED
    BY <2>3 DEF m
<1> HIDE DEF f, h, x
<1>9. RowSum(h) = RowSum(f) + x /\ RowSum(f) \in Nat
  <2>1. Len(h) = Len(f) + 1 /\ (\A n \in 1 .. Len(f) : h[n] = f[n]) /\ h[Len(f) + 1] = x
    BY <1>1, <1>3, <1>4, <1>7, <1>8
  <2> QED
    BY <1>3, <1>4, <1>6, <2>1, SumAppend
<1>10. TokensRecorded(d)' = TokensRecorded(d) + x
  BY <1>3, <1>5, <1>9
<1>11. TokensRecorded(d)' = IF e.op = "usage" /\ e.date = d
                            THEN TokensRecorded(d) + e.amount ELSE TokensRecorded(d)
  BY <1>3, <1>10 DEF x
<1> QED
  BY <1>2, <1>3, <1>11

\* A date is in the range of its own month and in that of no other one.
LEMMA DateInMonth ==
    ASSUME NEW d \in Dates, NEW ym \in Nat \X (1..12)
    PROVE  InMonth(d, ym[1], ym[2]) <=> <<d[1], d[2]>> = ym
<1>1. PICK y \in Nat, m \in 1 .. 12, x \in 1 .. 31 : d = <<y, m, x>>
  BY RecordNumbers
<1>2. PICK a \in Nat, b \in 1 .. 12 : ym = <<a, b>>
  OBVIOUS
<1>3. d[1] = y /\ d[2] = m /\ d[3] = x /\ ym[1] = a /\ ym[2] = b
  BY <1>1, <1>2
<1>4. Earlier(d, FirstOf(a, b)) <=> y < a \/ (y = a /\ m < b)
  <2>1. FirstOf(a, b) = <<a, b, 1>>
    BY DEF FirstOf
  <2> QED
    BY <1>3, <2>1 DEF Earlier
<1>5. Earlier(d, NextFirst(a, b)) <=> y < a \/ (y = a /\ m <= b)
  <2>1. CASE b = 12
    <3>1. NextFirst(a, b) = <<a + 1, 1, 1>>
      BY <2>1 DEF NextFirst, FirstOf
    <3> QED
      BY <1>3, <2>1, <3>1 DEF Earlier
  <2>2. CASE b # 12
    <3>1. b + 1 \in 1 .. 12
      BY <2>2
    <3>2. NextFirst(a, b) = <<a, b + 1, 1>>
      BY <2>2, <3>1 DEF NextFirst, FirstOf
    <3> QED
      BY <1>3, <2>2, <3>2 DEF Earlier
  <2> QED
    BY <2>1, <2>2
<1>6. InMonth(d, a, b) <=> y = a /\ m = b
  BY <1>4, <1>5 DEF InMonth
<1>7. <<d[1], d[2]>> = ym <=> y = a /\ m = b
  BY <1>2, <1>3
<1> QED
  BY <1>3, <1>6, <1>7

\* The tokens of some rows are a sequence of numbers.
LEMMA TotalOK ==
    ASSUME usage \in Seq(UsageRows), NEW some
    PROVE  LET f == [i \in DOMAIN usage |-> IF i \in some THEN usage[i].tokens ELSE 0]
           IN f \in Seq(Nat) /\ Len(f) = Len(usage) /\ Total(some) = RowSum(f) /\ Total(some) \in Nat
<1> DEFINE f == [i \in DOMAIN usage |-> IF i \in some THEN usage[i].tokens ELSE 0]
<1>1. Len(usage) \in Nat /\ DOMAIN usage = 1 .. Len(usage) /\ usage \in [1 .. Len(usage) -> UsageRows]
  BY LenProperties
<1>2. f \in [1 .. Len(usage) -> Nat]
  BY <1>1 DEF UsageRows
<1>3. f \in Seq(Nat) /\ Len(f) = Len(usage)
  BY <1>1, <1>2, SeqDef, LenProperties
<1>4. Total(some) = RowSum(f)
  BY DEF Total
<1> HIDE DEF f
<1>5. RowSum(f) \in Nat
  <2>1. Len(f) <= Len(f) /\ \A n \in 1 .. Len(f) : f[n] <= f[n]
    BY <1>1, <1>2, <1>3
  <2> QED
    BY <1>3, <2>1, SumGrows
<1> QED
  BY <1>3, <1>4, <1>5 DEF f

\* What upsert_usage does to the rows.
LEMMA UsageGrows ==
    ASSUME usage \in Seq(UsageRows), usage' \in Seq(UsageRows), Len(usage) <= Len(usage'),
           \A i \in 1 .. Len(usage) : usage'[i].date = usage[i].date /\
                                      usage[i].tokens <= usage'[i].tokens,
           NEW y, NEW m
    PROVE  Total(MonthRows(y, m)) <= Total(MonthRows(y, m))'
<1> DEFINE S == MonthRows(y, m)
           T == MonthRows(y, m)'
           f == [i \in DOMAIN usage |-> IF i \in S THEN usage[i].tokens ELSE 0]
           h == [i \in DOMAIN usage' |-> IF i \in T THEN usage'[i].tokens ELSE 0]
<1>1. f \in Seq(Nat) /\ Len(f) = Len(usage) /\ Total(S) = RowSum(f)
  <2> HIDE DEF S
  <2> QED
    BY TotalOK
<1>2. /\ Len(usage) \in Nat /\ DOMAIN usage = 1 .. Len(usage) /\ Len(usage') \in Nat
      /\ DOMAIN usage' = 1 .. Len(usage') /\ usage' \in [1 .. Len(usage') -> UsageRows]
      /\ usage \in [1 .. Len(usage) -> UsageRows]
  BY LenProperties
<1>3. \A i \in 1 .. Len(usage) : i \in DOMAIN usage' /\ (i \in T <=> i \in S)
  BY <1>2 DEF MonthRows
<1>4. Total(S)' = RowSum(h)
  BY DEF Total
<1> HIDE DEF S, T
<1>5. h \in Seq(Nat) /\ Len(h) = Len(usage')
  <2>1. h \in [1 .. Len(usage') -> Nat]
    BY <1>2 DEF UsageRows
  <2> QED
    BY <1>2, <2>1, SeqDef, LenProperties
<1>6. \A i \in 1 .. Len(usage) : f[i] <= h[i]
  BY <1>2, <1>3 DEF UsageRows
<1> HIDE DEF f, h
<1>7. RowSum(f) <= RowSum(h)
  BY <1>1, <1>5, <1>6, SumGrows
<1> QED
  BY <1>1, <1>4, <1>7 DEF S

\* What the next state needs.
LEMMA UsageOnceMore ==
    ASSUME \A d \in Dates : Recorded(d)' # {} => d \in UsageDates',
           \A i \in DOMAIN usage' : \A x : x = usage'[i].date =>
               /\ Recorded(x)' # {} /\ usage'[i].tokens = TokensRecorded(x)'
               /\ \A j \in DOMAIN usage' \ {i} : usage'[j].date # x,
           \A i \in DOMAIN usage', ym \in Nat \X (1..12) \cap AskedMonths :
               i \in MonthRows(ym[1], ym[2])' <=> <<usage'[i].date[1], usage'[i].date[2]>> = ym
    PROVE  NoUsageLost'
<1>1. ASSUME NEW i \in DOMAIN usage'
      PROVE  LET x == usage'[i].date
             IN /\ {k \in DOMAIN log' : log'[k].op = "usage" /\ log'[k].date = x} # {}
                /\ usage'[i].tokens =
                     RowSum([k \in DOMAIN log' |->
                              IF k \in {l \in DOMAIN log' : log'[l].op = "usage" /\ log'[l].date = x}
                              THEN log'[k].amount ELSE 0])
                /\ \A j \in DOMAIN usage' \ {i} : usage'[j].date # x
  <2>1. PICK x : x = usage'[i].date
    OBVIOUS
  <2>2. /\ Recorded(x)' # {} /\ usage'[i].tokens = TokensRecorded(x)'
        /\ \A j \in DOMAIN usage' \ {i} : usage'[j].date # x
    BY <2>1
  <2> QED
    BY <2>1, <2>2 DEF Recorded, TokensRecorded
<1> QED
  BY <1>1 DEF NoUsageLost, Recorded, TokensRecorded

LEMMA UpsertUsageKeeps ==
    ASSUME RecordsInv, NEW d \in Dates, NEW n \in Amounts, UpsertUsage(d, n),
           family.tables = "usage", UNCHANGED family
    PROVE  RecordTypes' /\ KeysKept' /\ NoUsageLost' /\ ChecksKept' /\ VerdictsTimely' /\ QuotaKept'
<1> DEFINE e == [op |-> "usage", date |-> d, amount |-> n]
           row == [date |-> d, tokens |-> n]
<1>1. /\ RecordTypes /\ KeysKept /\ NoUsageLost /\ ChecksKept /\ VerdictsTimely /\ QuotaKept
      /\ log \in Seq(CallsMade) /\ usage \in Seq(UsageRows)
  BY DEF RecordsInv, RecordTypes
<1>2. /\ log' = Append(log, e) /\ UNCHANGED <<links, apiKeys, quota, checks, journal>>
      /\ usage' = IF d \in UsageDates
                  THEN [i \in DOMAIN usage |->
                           IF usage[i].date = d THEN [date |-> d, tokens |-> usage[i].tokens + n]
                           ELSE usage[i]]
                  ELSE Append(usage, row)
  BY DEF UpsertUsage, Called, linkVars, journalVars
<1>3. e \in CallsMade /\ e.op = "usage" /\ e.date = d /\ e.amount = n
  BY DEF CallsMade
<1>4. row \in UsageRows /\ row.date = d /\ row.tokens = n /\ n \in Nat
  BY RecordNumbers DEF UsageRows
<1>5. /\ Len(usage) \in Nat /\ DOMAIN usage = 1 .. Len(usage)
      /\ usage \in [1 .. Len(usage) -> UsageRows]
  BY <1>1, LenProperties
<1> HIDE DEF e, row
<1>6. /\ log' \in Seq(CallsMade) /\ Len(log) \in Nat /\ Len(log') = Len(log) + 1
      /\ DOMAIN log = 1 .. Len(log) /\ DOMAIN log' = 1 .. Len(log) + 1
      /\ \A i \in 1 .. Len(log) : log'[i] = log[i]
      /\ log'[Len(log) + 1] = e
  BY <1>1, <1>2, <1>3, LogGrows
<1>7. \A x : /\ Recorded(x)' = IF x = d THEN Recorded(x) \cup {Len(log) + 1} ELSE Recorded(x)
             /\ TokensRecorded(x) \in Nat
             /\ TokensRecorded(x)' = TokensRecorded(x) + (IF x = d THEN n ELSE 0)
  BY <1>1, <1>2, <1>3, RecordedGrows
<1> DEFINE N == Len(usage)
           M == Len(usage')
           more == IF d \in UsageDates THEN 0 ELSE 1
           plus(i) == IF usage[i].date = d THEN n ELSE 0
<1>8. /\ usage' \in Seq(UsageRows) /\ M = N + more
      /\ \A i \in 1 .. N : usage'[i].date = usage[i].date /\ usage'[i].tokens = usage[i].tokens + plus(i)
      /\ d \notin UsageDates => usage'[N + 1] = row
  <2>1. CASE d \in UsageDates
    <3>1. usage' = [i \in 1 .. N |->
                       IF usage[i].date = d THEN [date |-> d, tokens |-> usage[i].tokens + n]
                       ELSE usage[i]]
      BY <1>2, <1>5, <2>1
    <3>2. usage' \in [1 .. N -> UsageRows]
      BY <1>4, <1>5, <3>1 DEF UsageRows
    <3>3. usage' \in Seq(UsageRows) /\ M = N
      BY <1>5, <3>2, SeqDef, LenProperties
    <3>4. \A i \in 1 .. N :
             usage'[i].date = usage[i].date /\ usage'[i].tokens = usage[i].tokens + plus(i)
      BY <1>5, <3>1 DEF UsageRows
    <3> HIDE DEF plus, N, M
    <3>5. N \in Nat
      BY <1>5 DEF N
    <3> QED
      BY <2>1, <3>3, <3>4, <3>5
  <2>2. CASE d \notin UsageDates
    <3>1. usage' = Append(usage, row)
      BY <1>2, <2>2
    <3>2. /\ usage' \in Seq(UsageRows) /\ M = N + 1
          /\ \A i \in 1 .. N : usage'[i] = usage[i]
          /\ usage'[N + 1] = row
      BY <1>1, <1>4, <3>1, AppendProperties
    <3>3. \A i \in 1 .. N : usage[i].tokens \in Nat /\ plus(i) = 0
      BY <1>5, <2>2 DEF UsageRows, UsageDates
    <3> HIDE DEF plus, N, M
    <3>4. \A i \in 1 .. N : usage[i].tokens + plus(i) = usage[i].tokens
      BY <3>3
    <3> QED
      BY <2>2, <3>2, <3>4
  <2> QED
    BY <2>1, <2>2
<1>8a. usage' \in Seq(UsageRows) /\ M = N + more
  BY <1>8
<1>8b. \A i \in 1 .. N : usage'[i].date = usage[i].date
  BY <1>8
<1>8c. \A i \in 1 .. N : usage'[i].tokens = usage[i].tokens + plus(i)
  BY <1>8
<1>8d. d \notin UsageDates => usage'[N + 1] = row
  BY <1>8
<1>8e. N \in Nat /\ M \in Nat /\ N <= M /\ (d \in UsageDates => M = N) /\ (d \notin UsageDates => M = N + 1)
  <2>1. N \in Nat
    BY <1>5
  <2> HIDE DEF N, M
  <2>2. CASE d \in UsageDates
    BY <1>8a, <2>1, <2>2
  <2>3. CASE d \notin UsageDates
    BY <1>8a, <2>1, <2>3
  <2> QED
    BY <2>1, <2>2, <2>3
<1>8f. \A i \in 1 .. M : i \in 1 .. N \/ (d \notin UsageDates /\ i = N + 1)
  <2> HIDE DEF N, M
  <2> QED
    BY <1>8e
<1>9. /\ \A x \in Dates : Recorded(x) # {} => x \in UsageDates
      /\ \A i \in 1 .. N : /\ Recorded(usage[i].date) # {}
                                    /\ usage[i].tokens = TokensRecorded(usage[i].date)
                                    /\ \A j \in 1 .. N \ {i} : usage[j].date # usage[i].date
  BY <1>1, <1>5 DEF NoUsageLost
<1>10. DOMAIN usage' = 1 .. M /\ M \in Nat /\ usage' \in [1 .. M -> UsageRows]
  BY <1>8, LenProperties
<1>11. (\A i \in 1 .. N : i \in 1 .. M) /\ (d \notin UsageDates => N + 1 \in 1 .. M)
  <2> HIDE DEF N, M
  <2> QED
    BY <1>8e
<1>12. d \in UsageDates'
  <2>1. CASE d \in UsageDates
    <3>1. PICK i \in 1 .. N : usage[i].date = d
      BY <1>5, <2>1 DEF UsageDates
    <3> QED
      BY <1>8b, <1>10, <1>11, <3>1 DEF UsageDates
  <2>2. CASE d \notin UsageDates
    <3>1. N + 1 \in DOMAIN usage' /\ usage'[N + 1] = row
      BY <1>8d, <1>10, <1>11, <2>2
    <3> QED
      BY <1>4, <3>1 DEF UsageDates
  <2> QED
    BY <2>1, <2>2
<1>13. UsageDates \subseteq UsageDates'
  BY <1>5, <1>8b, <1>10, <1>11 DEF UsageDates
<1>14. \A x \in Dates : Recorded(x)' # {} => x \in UsageDates'
  BY <1>7, <1>9, <1>12, <1>13
<1>15. ASSUME NEW i \in DOMAIN usage', NEW x, x = usage'[i].date
       PROVE  /\ Recorded(x)' # {} /\ usage'[i].tokens = TokensRecorded(x)'
              /\ \A j \in DOMAIN usage' \ {i} : usage'[j].date # x
  <2>1. i \in 1 .. N \/ (d \notin UsageDates /\ i = N + 1)
    BY <1>8f, <1>10
  <2>2. CASE i \in 1 .. N
    <3>1. x = usage[i].date
      BY <1>8b, <1>15, <2>2
    <3>2. Recorded(x) # {} /\ usage[i].tokens = TokensRecorded(x)
      BY <1>9, <2>2, <3>1
    <3>3. usage'[i].tokens = usage[i].tokens + (IF x = d THEN n ELSE 0)
      BY <1>8c, <2>2, <3>1
    <3>4. ASSUME NEW j \in DOMAIN usage' \ {i} PROVE usage'[j].date # x
      <4>1. CASE j \in 1 .. N
        BY <1>8b, <1>9, <2>2, <3>1, <3>4, <4>1
      <4>2. CASE j \notin 1 .. N
        <5>1. d \notin UsageDates /\ usage'[j].date = d
          BY <1>4, <1>8d, <1>8f, <1>10, <3>4, <4>2
        <5>2. usage[i].date \in UsageDates
          BY <1>5, <2>2 DEF UsageDates
        <5> QED
          BY <3>1, <5>1, <5>2
      <4> QED
        BY <4>1, <4>2
    <3>5. Recorded(x)' # {}
      BY <1>7, <3>2
    <3>6. TokensRecorded(x)' = TokensRecorded(x) + (IF x = d THEN n ELSE 0)
      BY <1>7
    <3> QED
      BY <3>2, <3>3, <3>4, <3>5, <3>6
  <2>3. CASE d \notin UsageDates /\ i = N + 1
    <3>1. usage'[i] = row
      BY <1>8d, <2>3
    <3>2. Recorded(d) = {}
      BY <1>9, <2>3
    <3>3. TokensRecorded(d) = 0
      <4> DEFINE f == [m \in DOMAIN log |-> IF m \in Recorded(d) THEN log[m].amount ELSE 0]
      <4>1. f \in Seq(Nat) /\ Len(f) = Len(log) /\ TokensRecorded(d) = RowSum(f)
        BY <1>1, RecordedAmounts
      <4>2. \A m \in 1 .. Len(log) : f[m] = 0
        BY <1>6, <3>2
      <4> HIDE DEF f
      <4> QED
        BY <4>1, <4>2, SumOfNone
    <3>4. Recorded(d)' # {} /\ TokensRecorded(d)' = n
      <4>1. TokensRecorded(d)' = TokensRecorded(d) + n
        BY <1>7
      <4>2. Recorded(d)' = Recorded(d) \cup {Len(log) + 1}
        BY <1>7
      <4> QED
        BY <1>4, <3>3, <4>1, <4>2
    <3>5. \A j \in 1 .. N : usage'[j].date # d
      <4>1. \A j \in 1 .. N : usage[j].date # d
        BY <1>5, <2>3 DEF UsageDates
      <4> QED
        BY <1>8b, <4>1
    <3>6. \A j \in DOMAIN usage' \ {i} : j \in 1 .. N
      BY <1>8f, <1>10, <2>3
    <3>7. x = d /\ usage'[i].tokens = n
      BY <1>4, <1>15, <3>1
    <3> QED
      BY <3>4, <3>5, <3>6, <3>7
  <2> QED
    BY <2>1, <2>2, <2>3
<1>16. \A i \in DOMAIN usage', ym \in Nat \X (1..12) \cap AskedMonths :
           i \in MonthRows(ym[1], ym[2])' <=> <<usage'[i].date[1], usage'[i].date[2]>> = ym
  <2> SUFFICES ASSUME NEW i \in DOMAIN usage', NEW ym \in Nat \X (1..12) \cap AskedMonths
               PROVE  i \in MonthRows(ym[1], ym[2])' <=> <<usage'[i].date[1], usage'[i].date[2]>> = ym
    OBVIOUS
  <2>1. usage'[i].date \in Dates
    BY <1>10 DEF UsageRows
  <2>2. InMonth(usage'[i].date, ym[1], ym[2]) <=> <<usage'[i].date[1], usage'[i].date[2]>> = ym
    BY <2>1, DateInMonth
  <2> QED
    BY <2>2 DEF MonthRows
<1>17. NoUsageLost'
  BY <1>14, <1>15, <1>16, UsageOnceMore
<1>18. RecordTypes'
  BY <1>1, <1>2, <1>6, <1>8 DEF RecordTypes
<1>19. KeysKept'
  <2>1. e.op # "delete"
    BY <1>3
  <2> QED
    BY <1>1, <1>2, <1>3, <2>1, KeysSame
<1>20. ChecksKept'
  <2> SUFFICES ASSUME NEW c \in Checkers, checks[c].at \in {"create", "sum"}
               PROVE  checks[c].began <= Total(MonthRows(checks[c].year, checks[c].month))'
    BY <1>2 DEF ChecksKept
  <2>0. PICK y, m : y = checks[c].year /\ m = checks[c].month
    OBVIOUS
  <2>1. checks[c].began <= Total(MonthRows(y, m))
    BY <1>1, <2>0 DEF ChecksKept
  <2>2. checks[c].began \in Nat
    BY <1>1 DEF RecordTypes, CheckStates, At0
  <2>3. Total(MonthRows(y, m)) <= Total(MonthRows(y, m))'
    <3>1. \A i \in 1 .. N : usage[i].tokens <= usage'[i].tokens
      BY <1>4, <1>5, <1>8c DEF UsageRows
    <3>2. Len(usage) <= Len(usage')
      BY <1>8e
    <3>3. \A i \in 1 .. Len(usage) : usage'[i].date = usage[i].date /\
                                      usage[i].tokens <= usage'[i].tokens
      BY <1>8b, <3>1
    <3> HIDE DEF N, M
    <3> QED
      BY <1>1, <1>8a, <3>2, <3>3, UsageGrows
  <2>4. Total(MonthRows(y, m)) \in Nat
    BY <1>1, TotalOK
  <2>5. Total(MonthRows(y, m))' \in Nat
    <3> DEFINE h == [i \in DOMAIN usage' |-> IF i \in MonthRows(y, m)' THEN usage'[i].tokens ELSE 0]
    <3>1. h \in [1 .. M -> Nat]
      BY <1>10 DEF UsageRows
    <3>2. h \in Seq(Nat) /\ Len(h) = Len(usage')
      BY <1>10, <3>1, SeqDef, LenProperties
    <3>3. Total(MonthRows(y, m))' = RowSum(h)
      BY DEF Total
    <3> HIDE DEF h
    <3>4. Len(h) <= Len(h) /\ \A j \in 1 .. Len(h) : h[j] <= h[j]
      BY <1>10, <3>1, <3>2
    <3> QED
      BY <3>2, <3>3, <3>4, SumGrows
  <2>6. checks[c].began <= Total(MonthRows(y, m))'
    BY <2>1, <2>2, <2>3, <2>4, <2>5
  <2> QED
    <3>1. Total(MonthRows(checks[c].year, checks[c].month))' = Total(MonthRows(y, m))'
      <4>1. checks' = checks
        BY <1>2
      <4> QED
        BY <2>0, <4>1 DEF Total, MonthRows, InMonth
    <3> QED
      BY <2>6, <3>1
<1>21. VerdictsTimely'
  BY <1>1, <1>2 DEF VerdictsTimely
<1>22. QuotaKept'
  <2> DEFINE S == {i \in DOMAIN log : log[i].op = "quota"}
             T == {i \in DOMAIN log' : log'[i].op = "quota"}
  <2>1. /\ S \subseteq DOMAIN log /\ T \subseteq DOMAIN log'
        /\ (\A i \in DOMAIN log : i \in T <=> i \in S) /\ Len(log) + 1 \notin T
    BY <1>3, <1>6
  <2>2. S # {} => quota = Quota(log[Max(S)].limit, log[Max(S)].enabled)
    BY <1>1 DEF QuotaKept
  <2> HIDE DEF S, T
  <2>3. T = S /\ (S # {} => log'[Max(S)] = log[Max(S)])
    BY <1>1, <1>2, <1>3, <2>1, LastOfLonger
  <2>4. T # {} => quota' = Quota(log'[Max(T)].limit, log'[Max(T)].enabled)
    BY <1>2, <2>2, <2>3
  <2> QED
    BY <2>4 DEF QuotaKept, T
<1> QED
  BY <1>17, <1>18, <1>19, <1>20, <1>21, <1>22

\* A check moves.
LEMMA OneCheckMoves ==
    ASSUME RecordTypes, ChecksKept, VerdictsTimely, NEW c \in Checkers, NEW s \in CheckStates,
           checks' = [checks EXCEPT ![c] = s],
           s.at \in {"create", "sum"} => s.began <= Total(MonthRows(s.year, s.month)),
           s.at = "done" => (s.over => s.after \/ s.raised) /\ (s.before => s.over),
           UNCHANGED usage
    PROVE  checks' \in [Checkers -> CheckStates] /\ ChecksKept' /\ VerdictsTimely'
<1>1. checks \in [Checkers -> CheckStates]
  BY DEF RecordTypes
<1>2. checks' \in [Checkers -> CheckStates]
  BY <1>1
<1>3. checks'[c] = s /\ \A d \in Checkers \ {c} : checks'[d] = checks[d]
  BY <1>1
<1>4. usage' = usage
  OBVIOUS
<1>5. \A y, m : Total(MonthRows(y, m))' = Total(MonthRows(y, m))
  BY <1>4 DEF MonthRows, Total
<1>6. ChecksKept'
  <2>1. ASSUME NEW d \in Checkers, checks'[d].at \in {"create", "sum"}
        PROVE  checks'[d].began <= Total(MonthRows(checks'[d].year, checks'[d].month))
    BY <1>3, <2>1 DEF ChecksKept
  <2> QED
    BY <1>4, <2>1 DEF ChecksKept, MonthRows, Total
<1>7. VerdictsTimely'
  BY <1>3 DEF VerdictsTimely
<1> QED
  BY <1>2, <1>6, <1>7

LEMMA StartCheckKeeps ==
    ASSUME RecordsInv, NEW c \in Checkers, NEW y \in Nat, NEW m \in Nat, StartCheck(c, y, m)
    PROVE  checks' \in [Checkers -> CheckStates] /\ ChecksKept' /\ VerdictsTimely'
<1> DEFINE s == [at |-> IF quota.row THEN "sum" ELSE "create", quota |-> quota, year |-> y, month |-> m,
                 began |-> Total(MonthRows(y, m))]
<1>1. RecordTypes /\ ChecksKept /\ VerdictsTimely
  BY DEF RecordsInv
<1>2. checks' = [checks EXCEPT ![c] = s] /\ UNCHANGED usage
  BY DEF StartCheck
<1>3. Total(MonthRows(y, m)) \in Nat
  BY <1>1, TotalOK DEF RecordTypes
<1>4. s \in CheckStates
  <2>1. s.at \in {"create", "sum"}
    OBVIOUS
  <2> QED
    BY <1>1, <1>3 DEF RecordTypes, CheckStates
<1>5. s.began = Total(MonthRows(y, m)) /\ s.year = y /\ s.month = m /\ s.at # "done"
  OBVIOUS
<1> HIDE DEF s
<1>6. s.began <= Total(MonthRows(s.year, s.month))
  BY <1>3, <1>5
<1> QED
  BY <1>1, <1>2, <1>4, <1>5, <1>6, OneCheckMoves

LEMMA CreateQuotaKeeps ==
    ASSUME RecordsInv, NEW c \in Checkers, CreateQuota(c), family.tables = "usage", UNCHANGED family
    PROVE  /\ checks' \in [Checkers -> CheckStates] /\ ChecksKept' /\ VerdictsTimely'
           /\ quota' \in QuotaRows /\ QuotaKept'
<1>1. /\ RecordTypes /\ ChecksKept /\ VerdictsTimely /\ QuotaKept /\ quota \in QuotaRows
      /\ checks[c].at = "create" /\ checks[c] \in CheckStates
  BY DEF RecordsInv, RecordTypes, CreateQuota
<1>2. UnlimitedQuota \in QuotaRows
  BY DEF UnlimitedQuota, Quota, QuotaRows
<1>3. CASE quota.row
  <2>1. checks' = [checks EXCEPT ![c] = At0] /\ UNCHANGED <<quota, log, usage>>
    BY <1>3 DEF CreateQuota
  <2>2. At0 \in CheckStates /\ At0.at = "idle"
    BY DEF CheckStates, At0
  <2>3. checks' \in [Checkers -> CheckStates] /\ ChecksKept' /\ VerdictsTimely'
    BY <1>1, <2>1, <2>2, OneCheckMoves
  <2> QED
    BY <1>1, <2>1, <2>3, QuotaSame
<1>4. CASE ~quota.row
  <2> DEFINE s == [checks[c] EXCEPT !.at = "sum", !.quota = UnlimitedQuota]
  <2>1. quota' = UnlimitedQuota /\ checks' = [checks EXCEPT ![c] = s] /\ UNCHANGED <<log, usage>>
    <3>1. /\ quota' = UnlimitedQuota /\ UNCHANGED <<log, usage>>
          /\ checks' = [checks EXCEPT ![c].at = "sum", ![c].quota = UnlimitedQuota]
      BY <1>4 DEF CreateQuota
    <3>2. checks \in [Checkers -> CheckStates]
      BY <1>1 DEF RecordTypes
    <3> QED
      BY <3>1, <3>2
  <2>2. checks[c] \in [at : {"create", "sum"}, quota : QuotaRows, year : Nat, month : Nat, began : Nat]
    BY <1>1 DEF CheckStates, At0
  <2>3. /\ s \in CheckStates /\ s.at = "sum" /\ s.began = checks[c].began
        /\ s.year = checks[c].year /\ s.month = checks[c].month
    BY <1>2, <2>2 DEF CheckStates
  <2> HIDE DEF s
  <2>4. s.began <= Total(MonthRows(s.year, s.month))
    BY <1>1, <2>3 DEF ChecksKept
  <2>5. checks' \in [Checkers -> CheckStates] /\ ChecksKept' /\ VerdictsTimely'
    BY <1>1, <2>1, <2>3, <2>4, OneCheckMoves
  <2>6. {i \in DOMAIN log : log[i].op = "quota"} = {}
    BY <1>1, <1>4 DEF QuotaKept, Quota
  <2>7. QuotaKept'
    BY <2>1, <2>6 DEF QuotaKept
  <2> QED
    BY <1>2, <2>1, <2>5, <2>7
<1> QED
  BY <1>3, <1>4

LEMMA SumUpKeeps ==
    ASSUME RecordsInv, NEW c \in Checkers, SumUp(c)
    PROVE  checks' \in [Checkers -> CheckStates] /\ ChecksKept' /\ VerdictsTimely'
<1>1. /\ RecordTypes /\ ChecksKept /\ VerdictsTimely /\ quota \in QuotaRows
      /\ checks[c].at = "sum" /\ checks[c] \in CheckStates /\ UNCHANGED usage
  BY DEF RecordsInv, RecordTypes, SumUp
<1>2. checks[c] \in [at : {"create", "sum"}, quota : QuotaRows, year : Nat, month : Nat, began : Nat]
  BY <1>1 DEF CheckStates, At0
<1> DEFINE q == checks[c].quota
           was == checks[c].began
           now == Total(MonthRows(checks[c].year, checks[c].month))
           v(over) == Verdict(checks[c], over)
           s == IF IsUnlimited(q) THEN v(FALSE)
                ELSE IF Sums(MonthRows(checks[c].year, checks[c].month)) = {} THEN At0
                ELSE v(IsOverQuota(q, now))
<1>3. checks' = [checks EXCEPT ![c] = s]
  BY DEF SumUp
<1>4. was \in Nat /\ now \in Nat /\ was <= now /\ q \in QuotaRows
  BY <1>1, <1>2, TotalOK DEF ChecksKept, RecordTypes
<1>5. \A over \in BOOLEAN :
          v(over) = [at |-> "done", over |-> over, before |-> IsOverQuota(q, was),
                     after |-> IsOverQuota(quota, now), raised |-> Raised(q, quota)]
  BY DEF Verdict
<1> HIDE DEF q, was, now
<1>6. /\ IsOverQuota(q, was) \in BOOLEAN /\ IsOverQuota(q, now) \in BOOLEAN
      /\ IsOverQuota(quota, now) \in BOOLEAN /\ Raised(q, quota) \in BOOLEAN
  BY DEF IsOverQuota, Raised, IsUnlimited
<1> HIDE DEF v
<1>7. \A over \in BOOLEAN :
          /\ v(over) \in CheckStates /\ v(over).at = "done" /\ v(over).over = over
          /\ v(over).before = IsOverQuota(q, was) /\ v(over).after = IsOverQuota(quota, now)
          /\ v(over).raised = Raised(q, quota)
  <2> SUFFICES ASSUME NEW over \in BOOLEAN
               PROVE  /\ v(over) \in CheckStates /\ v(over).at = "done" /\ v(over).over = over
                      /\ v(over).before = IsOverQuota(q, was)
                      /\ v(over).after = IsOverQuota(quota, now)
                      /\ v(over).raised = Raised(q, quota)
    OBVIOUS
  <2> DEFINE x == IsOverQuota(q, was)
             y == IsOverQuota(quota, now)
             z == Raised(q, quota)
  <2>1. v(over) = [at |-> "done", over |-> over, before |-> x, after |-> y, raised |-> z]
        /\ x \in BOOLEAN /\ y \in BOOLEAN /\ z \in BOOLEAN
    BY <1>5, <1>6
  <2> HIDE DEF x, y, z
  <2>2. /\ v(over) \in CheckStates /\ v(over).at = "done" /\ v(over).over = over
        /\ v(over).before = x /\ v(over).after = y /\ v(over).raised = z
    BY <2>1 DEF CheckStates
  <2> QED
    BY <2>2 DEF x, y, z
<1>8. IsUnlimited(q) => ~IsOverQuota(q, was)
  BY DEF IsOverQuota
\* A limit that was reached stays reached, and so does every limit below it.
<1>9. \A r \in QuotaRows : ~IsUnlimited(r) => r.limit \in Nat
  BY RecordNumbers DEF QuotaRows, IsUnlimited
<1>10. IsOverQuota(q, was) => IsOverQuota(q, now)
  <2> SUFFICES ASSUME IsOverQuota(q, was) PROVE IsOverQuota(q, now)
    OBVIOUS
  <2>1. ~IsUnlimited(q) /\ was >= q.limit
    BY DEF IsOverQuota
  <2>2. now >= q.limit
    BY <1>4, <1>9, <2>1
  <2> QED
    BY <2>1, <2>2 DEF IsOverQuota
<1>11. IsOverQuota(q, now) => IsOverQuota(quota, now) \/ Raised(q, quota)
  <2> SUFFICES ASSUME IsOverQuota(q, now), ~Raised(q, quota) PROVE IsOverQuota(quota, now)
    OBVIOUS
  <2>1. ~IsUnlimited(q) /\ now >= q.limit
    BY DEF IsOverQuota
  <2>2. ~IsUnlimited(quota) /\ ~(quota.limit > q.limit)
    BY <2>1 DEF Raised
  <2>3. now >= quota.limit
    BY <1>1, <1>4, <1>9, <2>1, <2>2
  <2> QED
    BY <2>2, <2>3 DEF IsOverQuota
<1>12. /\ s \in CheckStates /\ s.at \notin {"create", "sum"}
       /\ s.at = "done" => (s.over => s.after \/ s.raised) /\ (s.before => s.over)
  <2>1. CASE IsUnlimited(q)
    <3>1. s = v(FALSE)
      BY <2>1
    <3> HIDE DEF s
    <3> QED
      BY <1>7, <1>8, <2>1, <3>1
  <2>2. CASE ~IsUnlimited(q) /\ Sums(MonthRows(checks[c].year, checks[c].month)) = {}
    <3>1. s = At0
      BY <2>2
    <3> HIDE DEF s
    <3> QED
      BY <3>1 DEF CheckStates, At0
  <2>3. CASE ~IsUnlimited(q) /\ Sums(MonthRows(checks[c].year, checks[c].month)) # {}
    <3> DEFINE yes == IsOverQuota(q, now)
    <3>1. s = v(yes) /\ yes \in BOOLEAN
      BY <1>6, <2>3
    <3>2. (IsOverQuota(q, was) => yes) /\ (yes => IsOverQuota(quota, now) \/ Raised(q, quota))
      BY <1>10, <1>11
    <3> HIDE DEF s, yes
    <3> QED
      BY <1>7, <3>1, <3>2
  <2> QED
    BY <2>1, <2>2, <2>3
<1> HIDE DEF s
<1> QED
  BY <1>1, <1>3, <1>12, OneCheckMoves

LEMMA UpdateQuotaKeeps ==
    ASSUME RecordsInv, NEW l \in Limits \cup {Never}, NEW enabled \in BOOLEAN, UpdateQuota(l, enabled),
           family.tables = "usage", UNCHANGED family
    PROVE  RecordTypes' /\ KeysKept' /\ NoUsageLost' /\ ChecksKept' /\ VerdictsTimely' /\ QuotaKept'
<1> DEFINE e == [op |-> "quota", limit |-> l, enabled |-> enabled]
<1>1. /\ RecordTypes /\ KeysKept /\ NoUsageLost /\ ChecksKept /\ VerdictsTimely
      /\ log \in Seq(CallsMade)
  BY DEF RecordsInv, RecordTypes
<1>2. /\ log' = Append(log, e) /\ quota' = Quota(l, enabled)
      /\ UNCHANGED <<links, apiKeys, usage, checks, journal>>
  BY DEF UpdateQuota, Called, linkVars, journalVars
<1>3. e \in CallsMade /\ e.op = "quota" /\ e.limit = l /\ e.enabled = enabled
  BY DEF CallsMade
<1> HIDE DEF e
<1>4. /\ log' \in Seq(CallsMade) /\ Len(log) \in Nat
      /\ DOMAIN log = 1 .. Len(log) /\ DOMAIN log' = 1 .. Len(log) + 1
      /\ \A i \in 1 .. Len(log) : log'[i] = log[i]
      /\ log'[Len(log) + 1] = e
  BY <1>1, <1>2, <1>3, LogGrows
<1>5. RecordTypes'
  <2>1. quota' \in QuotaRows
    BY <1>2 DEF Quota, QuotaRows
  <2> QED
    BY <1>1, <1>2, <1>4, <2>1 DEF RecordTypes
<1>6. KeysKept'
  <2>1. e.op # "delete"
    BY <1>3
  <2> QED
    BY <1>1, <1>2, <1>3, <2>1, KeysSame
<1>7. NoUsageLost'
  <2>1. \A d : Recorded(d)' = Recorded(d) /\ TokensRecorded(d)' = TokensRecorded(d)
    <3>1. e.op # "usage"
      BY <1>3
    <3> QED
      BY <1>1, <1>2, <1>3, <3>1, RecordedGrows
  <2>2. usage' = usage
    BY <1>2
  <2>3. UsageDates' = UsageDates /\ \A y, m : MonthRows(y, m)' = MonthRows(y, m)
    BY <2>2 DEF UsageDates, MonthRows
  <2>4. \A d \in Dates : Recorded(d)' # {} => d \in UsageDates'
    BY <1>1, <2>1, <2>3 DEF NoUsageLost
  <2>5. \A i \in DOMAIN usage' : \A x : x = usage'[i].date =>
           /\ Recorded(x)' # {} /\ usage'[i].tokens = TokensRecorded(x)'
           /\ \A j \in DOMAIN usage' \ {i} : usage'[j].date # x
    BY <1>1, <2>1, <2>2 DEF NoUsageLost
  <2>6. \A i \in DOMAIN usage', ym \in Nat \X (1..12) \cap AskedMonths :
           i \in MonthRows(ym[1], ym[2])' <=> <<usage'[i].date[1], usage'[i].date[2]>> = ym
    BY <1>1, <2>2, <2>3 DEF NoUsageLost
  <2> QED
    BY <2>4, <2>5, <2>6, UsageOnceMore
<1>8. ChecksKept' /\ VerdictsTimely'
  BY <1>1, <1>2, ChecksSame
<1>9. QuotaKept'
  <2> DEFINE S == {i \in DOMAIN log : log[i].op = "quota"}
             T == {i \in DOMAIN log' : log'[i].op = "quota"}
  <2>1. /\ S \subseteq DOMAIN log /\ T \subseteq DOMAIN log'
        /\ (\A i \in DOMAIN log : i \in T <=> i \in S) /\ Len(log) + 1 \in T
    BY <1>3, <1>4
  <2> HIDE DEF S, T
  <2>2. log'[Max(T)] = e
    <3>1. /\ Len(log) + 1 \notin T => T = S
          /\ Len(log) + 1 \in T => Max(T) = Len(log) + 1 /\ log'[Max(T)] = e
          /\ S # {} => Max(S) \in S /\ log'[Max(S)] = log[Max(S)]
      BY <1>1, <1>2, <1>3, <2>1, LastOfLonger
    <3> QED
      BY <2>1, <3>1
  <2>3. quota' = Quota(log'[Max(T)].limit, log'[Max(T)].enabled)
    BY <1>2, <1>3, <2>2
  <2> QED
    BY <2>3 DEF QuotaKept, T
<1> QED
  BY <1>5, <1>6, <1>7, <1>8, <1>9

LEMMA UsageStepKeeps ==
    ASSUME RecordsInv, UsageStep, family.tables = "usage", UNCHANGED family
    PROVE  RecordTypes' /\ KeysKept' /\ NoUsageLost' /\ ChecksKept' /\ VerdictsTimely' /\ QuotaKept'
<1>1. RecordTypes /\ KeysKept /\ NoUsageLost /\ QuotaKept
  BY DEF RecordsInv
<1>2. ASSUME NEW d \in Dates, NEW n \in Amounts, UpsertUsage(d, n)
      PROVE  RecordTypes' /\ KeysKept' /\ NoUsageLost' /\ ChecksKept' /\ VerdictsTimely' /\ QuotaKept'
  BY <1>2, UpsertUsageKeeps
<1>3. ASSUME NEW l \in Limits \cup {Never}, NEW enabled \in BOOLEAN, UpdateQuota(l, enabled)
      PROVE  RecordTypes' /\ KeysKept' /\ NoUsageLost' /\ ChecksKept' /\ VerdictsTimely' /\ QuotaKept'
  BY <1>3, UpdateQuotaKeeps
<1>4. ASSUME NEW c \in Checkers,
             CreateQuota(c) \/ SumUp(c) \/ \E ym \in AskedMonths : StartCheck(c, ym[1], ym[2])
      PROVE  RecordTypes' /\ KeysKept' /\ NoUsageLost' /\ ChecksKept' /\ VerdictsTimely' /\ QuotaKept'
  <2>1. UNCHANGED <<log, links, apiKeys, usage, journal>>
    BY <1>4 DEF CreateQuota, SumUp, StartCheck, linkVars, journalVars
  <2>2. KeysKept' /\ NoUsageLost'
    BY <1>1, <2>1, KeysSame, UsageSame
  <2>3. checks' \in [Checkers -> CheckStates] /\ ChecksKept' /\ VerdictsTimely'
    <3>1. CASE CreateQuota(c)
      BY <3>1, CreateQuotaKeeps
    <3>2. CASE SumUp(c)
      BY <3>2, SumUpKeeps
    <3>3. CASE \E ym \in AskedMonths : StartCheck(c, ym[1], ym[2])
      <4>1. PICK ym \in AskedMonths : StartCheck(c, ym[1], ym[2])
        BY <3>3
      <4>2. ym[1] \in Nat /\ ym[2] \in Nat
        BY RecordNumbers
      <4> QED
        BY <4>1, <4>2, StartCheckKeeps
    <3> QED
      BY <1>4, <3>1, <3>2, <3>3
  <2>4. quota' \in QuotaRows /\ QuotaKept'
    <3>1. CASE CreateQuota(c)
      BY <3>1, CreateQuotaKeeps
    <3>2. CASE ~CreateQuota(c)
      <4>1. UNCHANGED quota
        BY <1>4, <3>2 DEF SumUp, StartCheck
      <4> QED
        BY <1>1, <2>1, <4>1, QuotaSame DEF RecordTypes
    <3> QED
      BY <3>1, <3>2
  <2>5. RecordTypes'
    BY <1>1, <2>1, <2>3, <2>4 DEF RecordTypes
  <2> QED
    BY <2>2, <2>3, <2>4, <2>5
<1> QED
  BY <1>2, <1>3, <1>4 DEF UsageStep

\* Pages.
LEMMA EntriesFinite ==
    ASSUME RecordTypes, NEW a
    PROVE  /\ IsFiniteSet(EntriesOf(a)) /\ EntriesOf(a) \subseteq 1 .. Len(journal) /\ Len(journal) \in Nat
           /\ \A i : IsFiniteSet(Newer(EntriesOf(a), i)) /\ Cardinality(Newer(EntriesOf(a), i)) \in Nat
<1>1. Len(journal) \in Nat /\ DOMAIN journal = 1 .. Len(journal)
  BY LenProperties DEF RecordTypes
<1>2. EntriesOf(a) \subseteq 1 .. Len(journal)
  BY <1>1 DEF EntriesOf
<1>3. IsFiniteSet(1 .. Len(journal))
  <2>1. 1 \in Int /\ Len(journal) \in Int
    BY <1>1
  <2> QED
    BY <2>1, FS_Interval
<1>4. IsFiniteSet(EntriesOf(a))
  BY <1>2, <1>3, FS_Subset
<1>5. \A i : Newer(EntriesOf(a), i) \subseteq EntriesOf(a)
  BY DEF Newer
<1>6. ASSUME NEW i PROVE IsFiniteSet(Newer(EntriesOf(a), i)) /\ Cardinality(Newer(EntriesOf(a), i)) \in Nat
  <2>1. IsFiniteSet(Newer(EntriesOf(a), i))
    BY <1>4, <1>5, FS_Subset
  <2> QED
    BY <2>1, FS_CardinalityType
<1> QED
  BY <1>1, <1>2, <1>4, <1>6

\* If an entry comes after a page, the page is full: the entries have the numbers of
\* newer ones from 0 on, each a different one.
LEMMA PageIsFull ==
    ASSUME NEW m \in Nat, NEW S \in SUBSET (1 .. m), NEW i \in S, NEW limit \in Nat \ {0},
           NEW passed \in Nat,
           Cardinality(Newer(S, i)) >= passed + limit
    PROVE  Cardinality(PageRows(S, limit, passed)) >= limit
<1> DEFINE rank == [j \in S |-> Cardinality(Newer(S, j))]
           n == Cardinality(S)
           found == PageRows(S, limit, passed)
           asked == passed .. (passed + limit - 1)
<1>1. IsFiniteSet(S) /\ n \in Nat
  <2>1. IsFiniteSet(1 .. m)
    <3>1. 1 \in Int /\ m \in Int
      OBVIOUS
    <3> QED
      BY <3>1, FS_Interval
  <2>2. IsFiniteSet(S)
    BY <2>1, FS_Subset
  <2> QED
    BY <2>2, FS_CardinalityType
<1>2. ASSUME NEW j \in S PROVE rank[j] \in 0 .. n - 1
  <2>1. Newer(S, j) \subseteq S /\ j \notin Newer(S, j)
    BY DEF Newer
  <2>2. IsFiniteSet(Newer(S, j)) /\ Cardinality(Newer(S, j)) <= n /\ Cardinality(Newer(S, j)) # n
    BY <1>1, <2>1, FS_Subset
  <2>3. Cardinality(Newer(S, j)) \in Nat
    BY <2>2, FS_CardinalityType
  <2> HIDE DEF n
  <2> QED
    BY <1>1, <2>2, <2>3
<1>3. ASSUME NEW j \in S, NEW k \in S, j < k PROVE rank[k] < rank[j]
  <2>1. Newer(S, k) \subseteq Newer(S, j) /\ k \in Newer(S, j) /\ k \notin Newer(S, k)
    <3>1. j \in Nat /\ k \in Nat /\ \A x \in S : x \in Nat
      OBVIOUS
    <3>2. \A x \in Nat : x > k => x > j
      BY <1>3, <3>1
    <3>3. k > j /\ ~(k > k)
      BY <1>3, <3>1
    <3> QED
      BY <3>1, <3>2, <3>3 DEF Newer
  <2>2. IsFiniteSet(Newer(S, j))
    <3>1. Newer(S, j) \subseteq S
      BY DEF Newer
    <3> QED
      BY <1>1, <3>1, FS_Subset
  <2>3. Cardinality(Newer(S, k)) <= Cardinality(Newer(S, j)) /\ Cardinality(Newer(S, k)) # Cardinality(Newer(S, j))
    BY <2>1, <2>2, FS_Subset
  <2>4. rank[k] \in Nat /\ rank[j] \in Nat
    BY <1>1, <1>2
  <2> QED
    BY <2>3, <2>4
<1>4. rank \in Injection(S, 0 .. n - 1)
  <2>1. rank \in [S -> 0 .. n - 1]
    BY <1>2
  <2>2. ASSUME NEW j \in S, NEW k \in S, rank[j] = rank[k] PROVE j = k
    <3>1. j \in Nat /\ k \in Nat /\ rank[j] \in Nat
      BY <1>1, <1>2
    <3> HIDE DEF rank
    <3> QED
      BY <1>3, <2>2, <3>1
  <2> HIDE DEF rank
  <2> QED
    BY <2>1, <2>2 DEF Injection, IsInjective
<1>5. IsFiniteSet(0 .. n - 1) /\ Cardinality(0 .. n - 1) = n
  <2> HIDE DEF n
  <2>1. IsFiniteSet(0 .. n - 1) /\ Cardinality(0 .. n - 1) = IF 0 > n - 1 THEN 0 ELSE n - 1 - 0 + 1
    <3>1. 0 \in Int /\ n - 1 \in Int
      BY <1>1
    <3> DEFINE b == n - 1
    <3> HIDE DEF b
    <3>2. IsFiniteSet(0 .. b) /\ Cardinality(0 .. b) = IF 0 > b THEN 0 ELSE b - 0 + 1
      BY <3>1, FS_Interval DEF b
    <3> QED
      BY <3>2 DEF b
  <2> QED
    BY <1>1, <2>1
<1>6. rank \in Surjection(S, 0 .. n - 1)
  <2> HIDE DEF rank
  <2> QED
    BY <1>4, <1>5, FS_Injection
<1>7. rank[i] >= passed + limit /\ rank[i] \in 0 .. n - 1
  BY <1>2
<1>8. ASSUME NEW r \in asked PROVE \E j \in found : rank[j] = r
  <2>1. r \in 0 .. n - 1
    <3> HIDE DEF n, rank
    <3> QED
      BY <1>1, <1>7
  <2>2. PICK j \in S : rank[j] = r
    BY <1>6, <2>1 DEF Surjection
  <2>3. j \in found
    BY <2>2 DEF PageRows
  <2> QED
    BY <2>2, <2>3
<1>9. found \subseteq S /\ \A j \in found : rank[j] \in asked
  BY DEF PageRows
<1> DEFINE g == [j \in found |-> rank[j]]
<1>10. IsFiniteSet(found)
  BY <1>1, <1>9, FS_Subset
<1> HIDE DEF rank, found, n
<1>11. g \in Surjection(found, asked)
  BY <1>8, <1>9 DEF Surjection
<1> HIDE DEF g
<1>12. Cardinality(asked) <= Cardinality(found)
  <2> HIDE DEF asked
  <2> QED
    BY <1>10, <1>11, FS_Surjection
<1>13. Cardinality(asked) = limit
  <2>1. Cardinality(passed .. (passed + limit - 1)) =
            IF passed > passed + limit - 1 THEN 0 ELSE passed + limit - 1 - passed + 1
    <3> DEFINE b == passed + limit - 1
    <3>1. passed \in Int /\ b \in Int
      OBVIOUS
    <3> HIDE DEF b
    <3>2. Cardinality(passed .. b) = IF passed > b THEN 0 ELSE b - passed + 1
      BY <3>1, FS_Interval
    <3> QED
      BY <3>2 DEF b
  <2> QED
    BY <2>1
<1>14. Cardinality(found) \in Nat
  BY <1>10, FS_CardinalityType
<1> QED
  BY <1>12, <1>13, <1>14 DEF found

LEMMA JournalStepKeeps ==
    ASSUME RecordsInv, JournalStep
    PROVE  RecordTypes' /\ PageKept'
<1>1. RecordTypes /\ PageKept
  BY DEF RecordsInv
<1>2. ASSUME NEW a \in Authors, OpenPage(a) PROVE RecordTypes' /\ PageKept'
  <2>1. UNCHANGED <<log, links, apiKeys, usage, quota, checks, journal>>
    BY <1>2 DEF OpenPage, linkVars, usageVars
  <2>2. page' = [at |-> "open", author |-> a, offset |-> 0, seen |-> {}, there |-> EntriesOf(a)]
    BY <1>2 DEF OpenPage
  <2>3. EntriesOf(a)' = EntriesOf(a)
    BY <2>1 DEF EntriesOf
  <2>4. \A i : Cardinality(Newer(EntriesOf(a), i)) \in Nat
    BY <1>1, EntriesFinite
  <2>5. /\ page'.at = "open" /\ page'.author = a /\ page'.offset = 0 /\ page'.seen = {}
        /\ page'.there = EntriesOf(a)
    BY <2>2
  <2>6. /\ page' = [at |-> "open", author |-> page'.author, offset |-> page'.offset,
                    seen |-> page'.seen, there |-> page'.there]
        /\ page'.offset \in Nat
    BY <2>2, <2>5
  <2>7. ASSUME NEW i \in page'.there, Cardinality(Newer(EntriesOf(a), i)) < page'.offset PROVE FALSE
    BY <2>4, <2>5, <2>7
  <2>8. EntriesOf(page.author)' = EntriesOf(a)
    BY <2>1, <2>5 DEF EntriesOf
  <2>9. PageKept'
    BY <2>5, <2>6, <2>7, <2>8 DEF PageKept, PagesMissNothing, Newer
  <2> QED
    BY <1>1, <2>1, <2>9 DEF RecordTypes
<1>3. ASSUME NEW a \in Authors, NEW r \in Ratings, NEW ok \in BOOLEAN, BuildEntry(a, r, ok)
      PROVE  RecordTypes' /\ PageKept'
  <2> DEFINE row == [author |-> a, rating |-> r]
  <2>1. UNCHANGED <<log, links, apiKeys, usage, quota, checks, page>> /\ journal' = Append(journal, row)
    BY <1>3 DEF BuildEntry, linkVars, usageVars
  <2>2. row \in [author : Authors, rating : Ratings]
    OBVIOUS
  <2> HIDE DEF row
  <2>3. /\ journal' \in Seq([author : Authors, rating : Ratings]) /\ Len(journal) \in Nat
        /\ DOMAIN journal = 1 .. Len(journal) /\ DOMAIN journal' = 1 .. Len(journal) + 1
        /\ Len(journal') = Len(journal) + 1
        /\ \A i \in 1 .. Len(journal) : journal'[i] = journal[i]
    BY <1>1, <2>1, <2>2, AppendProperties, LenProperties DEF RecordTypes
  <2>4. RecordTypes'
    BY <1>1, <2>1, <2>3 DEF RecordTypes
  <2>5. ASSUME page.at = "open",
               NEW i \in page.there,
               Cardinality(Newer(EntriesOf(page.author), i))' < page.offset
        PROVE  i \in page.seen
    <3> DEFINE S == Newer(EntriesOf(page.author), i)
               T == Newer(EntriesOf(page.author), i)'
    <3>1. S \subseteq T
      BY <2>1, <2>3 DEF Newer, EntriesOf
    <3>2. IsFiniteSet(T)
      <4>1. T \subseteq 1 .. Len(journal) + 1
        BY <2>3 DEF Newer, EntriesOf
      <4>2. IsFiniteSet(1 .. Len(journal) + 1)
        BY <2>3, FS_Interval
      <4> QED
        BY <4>1, <4>2, FS_Subset
    <3>3. IsFiniteSet(S) /\ Cardinality(S) <= Cardinality(T) /\ Cardinality(S) \in Nat /\ Cardinality(T) \in Nat
      BY <3>1, <3>2, FS_Subset, FS_CardinalityType
    <3>4. Cardinality(T) < page.offset /\ page.offset \in Nat
      BY <1>1, <2>5 DEF PageKept
    <3> HIDE DEF T
    <3>5. Cardinality(S) < page.offset
      BY <3>3, <3>4
    <3> QED
      BY <1>1, <2>5, <3>5 DEF PageKept
  <2>6. page.at = "open" => page.there \subseteq EntriesOf(page.author)'
    <3>1. EntriesOf(page.author) \subseteq EntriesOf(page.author)'
      BY <2>1, <2>3 DEF EntriesOf
    <3> QED
      BY <1>1, <3>1 DEF PageKept
  <2>7. page' = page
    BY <2>1
  <2>8. PageKept'
    BY <1>1, <2>5, <2>6, <2>7 DEF PageKept, PagesMissNothing
  <2> QED
    BY <2>4, <2>8
<1>4. ASSUME ReadPage PROVE RecordTypes' /\ PageKept'
  <2> DEFINE S == EntriesOf(page.author)
             found == PageRows(S, PageLimit, page.offset)
  <2>1. /\ UNCHANGED <<log, links, apiKeys, usage, quota, checks, journal>> /\ page.at = "open"
        /\ page' = [page EXCEPT !.seen = @ \cup found, !.offset = @ + PageLimit,
                                !.at = IF Cardinality(found) < PageLimit THEN "read" ELSE "open"]
    BY <1>4 DEF ReadPage, linkVars, usageVars
  <2>2. /\ page = [at |-> "open", author |-> page.author, offset |-> page.offset,
                   seen |-> page.seen, there |-> page.there]
        /\ page.offset \in Nat /\ page.there \subseteq S
        /\ \A i \in page.there : Cardinality(Newer(S, i)) < page.offset => i \in page.seen
    BY <1>1, <2>1 DEF PageKept
  <2>3. /\ Len(journal) \in Nat /\ S \in SUBSET (1 .. Len(journal))
        /\ \A i : Cardinality(Newer(S, i)) \in Nat
    BY <1>1, EntriesFinite
  <2>4. PageLimit \in Nat \ {0}
    BY RecordNumbers
  <2>5. ASSUME NEW i \in page.there, Cardinality(Newer(S, i)) < page.offset + PageLimit
        PROVE  i \in page.seen \cup found
    <3>1. CASE Cardinality(Newer(S, i)) < page.offset
      BY <2>2, <3>1
    <3>2. CASE ~(Cardinality(Newer(S, i)) < page.offset)
      <4>1. Cardinality(Newer(S, i)) \in page.offset .. (page.offset + PageLimit - 1)
        BY <2>2, <2>3, <2>4, <2>5, <3>2
      <4>2. i \in S
        BY <2>2
      <4> QED
        BY <4>1, <4>2 DEF PageRows
    <3> QED
      BY <3>1, <3>2
  <2>6. Cardinality(found) < PageLimit => page.there \subseteq page.seen \cup found
    <3> SUFFICES ASSUME Cardinality(found) < PageLimit, NEW i \in page.there
                 PROVE  i \in page.seen \cup found
      OBVIOUS
    <3>1. CASE Cardinality(Newer(S, i)) < page.offset + PageLimit
      BY <2>5, <3>1
    <3>2. CASE ~(Cardinality(Newer(S, i)) < page.offset + PageLimit)
      <4>1. Cardinality(Newer(S, i)) >= page.offset + PageLimit
        BY <2>2, <2>3, <2>4, <3>2
      <4>2. i \in S
        BY <2>2
      <4>3. Cardinality(found) >= PageLimit
        <5> HIDE DEF S
        <5> QED
          BY <2>2, <2>3, <2>4, <4>1, <4>2, PageIsFull
      <4>4. Cardinality(found) \in Nat
        <5>1. found \subseteq S /\ IsFiniteSet(S)
          BY <1>1, EntriesFinite DEF PageRows
        <5> QED
          BY <5>1, FS_Subset, FS_CardinalityType
      <4> QED
        BY <2>4, <4>3, <4>4
    <3> QED
      BY <3>1, <3>2
  <2>7. /\ page'.author = page.author /\ page'.there = page.there /\ page'.seen = page.seen \cup found
        /\ page'.offset = page.offset + PageLimit
        /\ page'.at = IF Cardinality(found) < PageLimit THEN "read" ELSE "open"
        /\ page' = [at |-> page'.at, author |-> page'.author, offset |-> page'.offset,
                    seen |-> page'.seen, there |-> page'.there]
    <3> HIDE DEF found
    <3> QED
      BY <2>1, <2>2
  <2>8. S' = S
    BY <2>1, <2>7 DEF EntriesOf
  <2> HIDE DEF S, found
  <2>9. /\ page'.offset \in Nat /\ page'.there \subseteq S
        /\ \A i \in page'.there : Cardinality(Newer(S, i)) < page'.offset => i \in page'.seen
    BY <2>2, <2>4, <2>5, <2>7
  <2>10. page'.at = "read" => page'.there \subseteq page'.seen
    BY <2>6, <2>7
  <2>11. EntriesOf(page.author)' = S
    BY <2>8 DEF S
  <2>12. PageKept'
    BY <2>7, <2>9, <2>10, <2>11 DEF PageKept, PagesMissNothing, Newer
  <2>13. RecordTypes'
    BY <1>1, <2>1 DEF RecordTypes
  <2> QED
    BY <2>12, <2>13
<1> QED
  BY <1>2, <1>3, <1>4 DEF JournalStep

LEMMA RecordsStart == RecordsInit => RecordsInv
<1> SUFFICES ASSUME RecordsInit PROVE RecordsInv
  OBVIOUS
<1>1. /\ log = <<>> /\ links = [p \in {} |-> 0] /\ apiKeys = [k \in {} |-> 0] /\ usage = <<>>
      /\ quota = NoQuota /\ checks = [c \in Checkers |-> At0] /\ journal = <<>> /\ page = NoPage
  BY DEF RecordsInit
<1>2. DOMAIN log = {} /\ DOMAIN usage = {} /\ DOMAIN links = {} /\ DOMAIN apiKeys = {}
  BY <1>1
<1>3. RecordTypes
  <2>1. log \in Seq(CallsMade) /\ usage \in Seq(UsageRows) /\ journal \in Seq([author : Authors, rating : Ratings])
    BY <1>1, EmptySeq
  <2>2. quota \in QuotaRows /\ checks \in [Checkers -> CheckStates]
    BY <1>1 DEF NoQuota, QuotaRows, CheckStates
  <2>3. links \in [DOMAIN links -> LinkRows] /\ apiKeys \in [DOMAIN apiKeys -> KeyRows]
    BY <1>1
  <2> QED
    BY <1>2, <2>1, <2>2, <2>3 DEF RecordTypes
<1>4. LinksKept /\ KeysKept /\ NoUsageLost /\ QuotaKept
  BY <1>2 DEF LinksKept, KeysKept, NoUsageLost, QuotaKept, CallsAbout, Recorded
<1>5. ChecksKept /\ VerdictsTimely
  BY <1>1 DEF ChecksKept, VerdictsTimely, At0
<1>6. PageKept
  BY <1>1 DEF PageKept, PagesMissNothing, NoPage
<1> QED
  BY <1>3, <1>4, <1>5, <1>6 DEF RecordsInv

LEMMA RecordsMove == RecordsInv /\ [RecordsNext]_recordVars => RecordsInv'
<1> SUFFICES ASSUME RecordsInv, [RecordsNext]_recordVars PROVE RecordsInv'
  OBVIOUS
<1>1. /\ RecordTypes /\ LinksKept /\ KeysKept /\ NoUsageLost
      /\ ChecksKept /\ VerdictsTimely /\ QuotaKept /\ PageKept
  BY DEF RecordsInv
<1>2. CASE family.tables = "links" /\ LinkStep
  <2>1. UNCHANGED <<family, usage, quota, checks, journal, page>>
    BY <1>2 DEF LinkStep, Unassign, Assign, Retire, usageVars, journalVars
  <2>2. RecordTypes' /\ LinksKept' /\ KeysKept'
    BY <1>2, <2>1, LinkStepKeeps
  <2>3. NoUsageLost' /\ QuotaKept'
    BY <1>1, <1>2, <2>1, UsageSame, QuotaSame
  <2>4. ChecksKept' /\ VerdictsTimely' /\ PageKept'
    BY <1>1, <2>1, ChecksSame, PageSame
  <2> QED
    BY <2>2, <2>3, <2>4 DEF RecordsInv
<1>3. CASE family.tables = "keys" /\ KeyStep
  <2>1. UNCHANGED <<family, links, usage, quota, checks, journal, page>>
    BY <1>3 DEF KeyStep, UseKey, DeleteKey, CreateKey, linkVars, usageVars, journalVars
  <2>2. RecordTypes' /\ KeysKept'
    BY <1>3, <2>1, KeyStepKeeps
  <2>3. LinksKept' /\ NoUsageLost' /\ QuotaKept'
    BY <1>1, <1>3, <2>1, LinksSame, UsageSame, QuotaSame
  <2>4. ChecksKept' /\ VerdictsTimely' /\ PageKept'
    BY <1>1, <2>1, ChecksSame, PageSame
  <2> QED
    BY <2>2, <2>3, <2>4 DEF RecordsInv
<1>4. CASE family.tables = "usage" /\ UsageStep
  <2>1. UNCHANGED <<family, journal, page>>
    BY <1>4 DEF UsageStep, UpsertUsage, CreateQuota, SumUp, StartCheck, UpdateQuota, journalVars
  <2>2. RecordTypes' /\ KeysKept' /\ NoUsageLost' /\ ChecksKept' /\ VerdictsTimely' /\ QuotaKept'
    BY <1>4, <2>1, UsageStepKeeps
  <2>3. LinksKept' /\ PageKept'
    BY <1>1, <1>4, <2>1, LinksSame, PageSame
  <2> QED
    BY <2>2, <2>3 DEF RecordsInv
<1>5. CASE family.tables = "journal" /\ JournalStep
  <2>1. UNCHANGED <<family, log, links, apiKeys, usage, quota, checks>>
    BY <1>5 DEF JournalStep, OpenPage, BuildEntry, ReadPage, linkVars, usageVars
  <2>2. RecordTypes' /\ PageKept'
    BY <1>5, JournalStepKeeps
  <2>3. LinksKept' /\ KeysKept' /\ NoUsageLost' /\ QuotaKept'
    BY <1>1, <2>1, LinksSame, KeysSame, UsageSame, QuotaSame
  <2>4. ChecksKept' /\ VerdictsTimely'
    BY <1>1, <2>1, ChecksSame
  <2> QED
    BY <2>2, <2>3, <2>4 DEF RecordsInv
<1>6. CASE Ticks \/ UNCHANGED recordVars
  <2>1. UNCHANGED <<family, log, links, apiKeys, usage, quota, checks, journal, page>>
    BY <1>6 DEF Ticks, recordVars, linkVars, usageVars, journalVars
  <2>2. RecordTypes'
    BY <1>1, <2>1 DEF RecordTypes
  <2>3. LinksKept' /\ KeysKept' /\ NoUsageLost' /\ QuotaKept'
    BY <1>1, <2>1, LinksSame, KeysSame, UsageSame, QuotaSame
  <2>4. ChecksKept' /\ VerdictsTimely' /\ PageKept'
    BY <1>1, <2>1, ChecksSame, PageSame
  <2> QED
    BY <2>2, <2>3, <2>4 DEF RecordsInv
<1> QED
  BY <1>2, <1>3, <1>4, <1>5, <1>6 DEF RecordsNext

\* The tables of assignments, keys, usage and quotas are what the calls that were
\* made say, and no page or check that is under way contradicts it (RecordsInv).
THEOREM RecordsInductive == RecordsSpec => []RecordsInv
<1>1. RecordsSpec => RecordsInit /\ [][RecordsNext]_recordVars
  BY DEF RecordsSpec
<1> QED
  BY <1>1, RecordsStart, RecordsMove, PTL

\* What the repositories answer is what their callers were told was recorded: the
\* last assignment counts, the lookup of a prefix is among its keys that are not deleted,
\* every token is in the sum of its month, a verdict on a quota is not below what held
\* when the check began nor, unless the quota is raised meanwhile, above what holds when
\* it ends, a quota is not replaced by a default, and pages miss no entry.
THEOREM RecordsAreTruthful == RecordsSpec => []RecordsTruthful
<1>1. RecordsInv => RecordsTruthful
  <2> SUFFICES ASSUME RecordsInv PROVE RecordsTruthful
    OBVIOUS
  <2>1. /\ RecordTypes /\ LinksKept /\ KeysKept /\ NoUsageLost
        /\ VerdictsTimely /\ QuotaKept /\ PagesMissNothing
    BY DEF RecordsInv, PageKept
  <2>2. LastAssignmentRules
    <3> SUFFICES ASSUME family.tables = "links", NEW u \in Members, NEW x \in Things \ retired
                 PROVE  LET about == CallsAbout(u, x)
                        IN x \in Holds(u) <=>
                               /\ about # {}
                               /\ log[Max(about)].op = "assign" /\ Lasts(log[Max(about)].until)
      BY DEF LastAssignmentRules
    <3> DEFINE about == CallsAbout(u, x)
    <3>1. /\ <<u, x>> \in DOMAIN links <=> (about # {} /\ log[Max(about)].op = "assign")
          /\ <<u, x>> \in DOMAIN links => links[<<u, x>>].until = log[Max(about)].until
      BY <2>1 DEF LinksKept
    <3> HIDE DEF about
    <3>2. x \in Holds(u) <=> <<u, x>> \in DOMAIN links /\ Lasts(links[<<u, x>>].until)
      BY DEF Holds
    <3>3. x \in Holds(u) <=> (about # {} /\ log[Max(about)].op = "assign"
                                 /\ Lasts(log[Max(about)].until))
      BY <3>1, <3>2
    <3> QED
      BY <3>3 DEF about
  <2>3. LoneKeyFound
    <3>1. DOMAIN apiKeys \subseteq ApiKeys
      BY <2>1 DEF RecordTypes
    <3>2. \A other \in DOMAIN apiKeys :
              apiKeys[other].deleted <=> \E i \in DOMAIN log : log[i] = Deletion(other)
      BY <2>1, <3>1 DEF KeysKept
    <3>3. \A p : KeysWithPrefix(p) =
              {other \in DOMAIN apiKeys :
                  apiKeys[other].prefix = p /\ \A i \in DOMAIN log : log[i] # Deletion(other)}
      BY <3>2 DEF KeysWithPrefix, LiveKeys
    <3> QED
      BY <3>3, Zenon DEF LoneKeyFound, Deletion
  <2> QED
    BY <2>1, <2>2, <2>3 DEF RecordsTruthful
<1> QED
  BY <1>1, RecordsInductive, PTL
=============================================================================
