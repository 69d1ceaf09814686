SPECIFICATION PureSpec
CONSTANTS
    \* AccessControl
    u1 = u1
    t1 = t1
    t2 = t2
    g1 = g1
    g2 = g2
    d1 = d1
    d2 = d2
    s2 = s2
    Users = {u1, u2}
    Groups = {g1, g2}
    Tenants = {t1, t2}
    SuperTenant = t1
    NoOwner = NoOwner
    NoTenant = NoTenant
    Requesters <- MCRequesters
    AclConfigs <- MCAclConfigs
    Docs = {d1, d2}
    Sources = {s1, s2}
    Custom <- MCCustom
    Analysed <- MCAnalysed
    Requested <- MCRequested
    MaxConditions = 2
    \* Ranking
    i1 = i1
    i2 = i2
    i3 = i3
    Ids = {i1, i2, i3}
    Scores = {1, 3}
    Weights <- MCWeights
    RrfK = 2
    RrfUnit = 12
    MaxList = 2
    ZUnit = 1
    MaxQueries = 2
    AvgUnit = 2
    DocumentOf <- MCDocumentOf
    TopKs = {1, 2}
    RerankBatch = 2
    RerankThreshold = 2
    MaxReranked = 3
    \* Chunking
    MaxTokens = 4
    MaxRows = 6
    Separators = 2
    ChunkSizes = {0, 2, 3, 5}
    Overlaps = {0, 1, 2}
    Headroom = 1
    MinChunk = 2
    Families <- MCFamilies
    \* Permissions
    s1 = s1
    h1 = h1
    k1 = k1
    k2 = k2
    Nobody = Nobody
    Claims <- MCClaims
    Subjects = {s1, s2}
    AuthTenants = {h1, h2}
    Owners = {s1, s2, Nobody}
    AllowLists <- MCAllowLists
    Required <- MCRequired
    \* RequestText
    NoKeyUser = NoKeyUser
    MaxUnits = 4
    MinQuery = 2
    MaxQuery = 6
    KeyTenants = {w1, w2}
    KeyUsers = {v1}
INVARIANTS OneRule AnswersAuthorised KeywordWithinSemantic RankingRespectsScores ChunkingFaithful GrantsAgree RequestsReadAlike
CHECK_DEADLOCK FALSE
