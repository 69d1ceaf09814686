SPECIFICATION FairSpec
CONSTANTS
    j1 = j1
    j2 = j2
    Jobs = {j1, j2}
    Workers = {w0, w1}
    Reclaimers = {w0}
    Clients = {c1}
    NoJob = NoJob
    Levels = 2
    Priority <- MCPriority
    MaxRetries = 2
    BatchSize = 1
    FaultPoints <- InHandler
    MaxFaults = 1
    Panics = FALSE
    SlowWorkers = TRUE
    MaxReplays = 0
INVARIANTS NoJobLost
PROPERTY EveryJobSettles
CHECK_DEADLOCK FALSE
