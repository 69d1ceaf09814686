SPECIFICATION PlaySpec
CONSTANTS
    \* Reembed
    d1 = d1
    d2 = d2
    d3 = d3
    Documents = {d1, d2, d3}
    AclOf <- MCAclOf
    InScope = {d1, d2}
    ChunksOf <- MCChunksOf
    PageSize = 2
    BatchSize = 2
    MaxDeletes = 1
    MaxErrors = 2
    MaxAttempts = 2
    \* SearchStores
    StoredChunks <- MCStored
    Relevance <- MCRelevance
    StoreQueries = {"q1", "q2"}
    StoreTopK <- MCStoreTopK
    StoreFilters <- MCFilters
    ScoreUnit = 2
    MaxReports = 2
    NoValue = "null"
    Hyphenated = {"d1", "d2", "t1", "t2"}
    \* DocumentRegistry
    t1 = t1
    t2 = t2
    FileOwner <- MCOwner
    DeleteRequests <- MCDeletions
    MaxRowsAtDelete = 2
    MaxLost = 1
    PageSizes = {0, 2}
    RowCallers = {c1}
    ChunkCounts = {3, 5041}
    ColumnsBound = 13
    InsertBatch = 5461
    MaxParams = 65535
    \* AuthTokens
    h1 = h1
    h2 = h2
    shared = shared
    own = own
    NoList = NoList
    Handlers = {h1, h2}
    Signers = {h1}
    Layouts <- MCLayouts
    Lists = {shared, own}
    SharedLists = {shared}
    AccessLife = 1
    RefreshLife = 2
    ServiceLife = 1
    Leeway = 1
    Clients = {c1, c2}
    TargetServices = {"s"}
    Endpoints = {"e"}
    MaxTokens = 4
    MaxLogins = 1
    MaxServices = 1
    LastSecond = 3
    \* Records
    Members = {m1}
    Things = {r1, r2}
    Admins = {m2}
    Never = Never
    ApiKeys = {k1, k2}
    KeyPrefixes = {p1, p2}
    Dates <- MCDates
    AskedMonths <- MCMonths
    Amounts = {1}
    Limits = {2}
    Checkers = {c1, c2}
    Authors = {u1, u2}
    Ratings = {2, 4}
    PageLimit = 2
    MaxCalls = 3
    LastTick = 2
    \* TenantConfig
    x1 = x1
    Tenants = {x1}
    Lookups = {l1, l2}
    TenantRows <- MCTenantRows
    Unnamed = "null"
    CallerConfigs <- MCCallerConfigs
    ConfigTtl = 1
    SetDelay = 1
    MaxEdits = 1
    LastMoment = 3
    \* SharedCache
    x2 = x2
    u1 = u1
    u2 = u2
    CacheCallers = {k1, k2}
    CacheTenants = {x1, x2}
    Queries <- MCQueries
    Texts = {"a", "b"}
    Lengths = {3}
    MaxCachedResults = 2
    EntryTtl = 1
    MaxCached = 2
    MaxCounted = 2
INVARIANTS NoPartialDocument JobAccounts StoresTruthful RegistryTruthful RevocationHolds RecordsTruthful ConfigsCurrent CacheTruthful
CHECK_DEADLOCK FALSE
