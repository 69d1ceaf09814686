SPECIFICATION PlaySpec
CONSTANTS
    \* VideoPipeline
    Videos <- MCVideos
    Target = 4
    Shortest = 3
    Longest = 5
    Shared = 1
    FrameInterval = 5
    EmbedBatch = 3
    IndexBatch = 2
    MaxVideoRuns = 2
    \* QueryEmbedding
    Blank = "_"
    AskedQueries <- MCAsked
    Synonyms <- MCSynonyms
    LlmLines <- MCLines
    HydeTexts <- MCHyde
    LineLengths = {2, 3, 4}
    Setups <- MCExpanders
    HydeEnabled = TRUE
    HydeNumDocs = 1
    ChunkTexts <- MCChunks
    QueryBatch = 2
    IngestBatch = 2
    EmbedRetries = 1
    Pending = Pending
    NoText = NoText
    Failure = Failure
    \* LlmGateway
    g1 = g1
    g2 = g2
    Callers = {g1, g2}
    Limits = {0, 1}
    BurstNum = 3
    BurstDen = 2
    WindowTicks = 3
    SecondTicks = 2
    Events = 2
    LastTick = 6
    MaxChecks = 3
    Deployments <- MCDeployments
    Asks <- MCAsks
    \* ServiceHealth
    RerankerEnabled = TRUE
    CallTimeout <- MCCallTimeout
    RerankRetries = 2
    RetryMinWait = 1
    RetryMaxWait = 2
    RequestTimeout = 6
    MaxComponentChanges = 2
    \* JobTracker
    Replicas = {r1}
    Jobs = {j1, j2}
    MaxRetries = 3
    CounterSize = 8
    Timeouts = FALSE
    MaxCancels = 0
    MaxReplays = 0
    MaxFaults = 0
    Durable = FALSE
    MaxSnapshots = 0
INVARIANTS CallsAccounted DeletedStayDeleted EmbeddingFaithful RateBounded GatewayTruthful ProbesTruthful SettledJobsReported
PROPERTIES RetryAfterSuffices EveryTaskEnds
CHECK_DEADLOCK FALSE
