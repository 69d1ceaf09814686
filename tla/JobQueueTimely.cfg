SPECIFICATION Spec
CONSTANTS
    j1 = j1
    j2 = j2
    Jobs = {j1, j2}
    Workers = {w0, w1}
    Reclaimers = {w0, w1}
    Clients = {c1}
    NoJob = NoJob
    Levels = 2
    Priority <- MCPriority
    MaxRetries = 2
    BatchSize = 2
    FaultPoints <- Everywhere
    MaxFaults = 2
    Panics = TRUE
    SlowWorkers = FALSE
    MaxReplays = 1
INVARIANTS SingleCustody
PROPERTIES LifecycleSpec
CHECK_DEADLOCK FALSE
