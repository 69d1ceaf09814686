SPECIFICATION OrchSpec
CONSTANTS
    \* AnswerCache
    k1 = k1
    Docs = {d1}
    Keys = {k1}
    Requests = {r1, r2}
    Query <- MCQuery
    Relevant <- MCRelevant
    Listeners = {l1}
    Ttl = 2
    MaxChanges = 1
    MaxFaults = 1
    \* UsageMeter
    m1 = m1
    m2 = m2
    f1 = f1
    f2 = f2
    UsageKeys = {p1, p2}
    Meters = {m1, m2}
    Flushers = {f1, f2}
    TokenCounts = {0, 1}
    TokenLimits = {1, NoLimit}
    NoLimit = NoLimit
    MaxUpsets = 1
    \* SessionMemory
    Sessions = {s1, s2, s3}
    OldSessions = {s1}
    SessionCallers = {a1, a2}
    MaxPerUser = 1
    MaxMessages = 2
    MaxSessionFaults = 1
INVARIANTS NotOlderThanTold UsageTruthful SessionsTruthful
PROPERTIES StaleAnswersGo
CHECK_DEADLOCK FALSE
