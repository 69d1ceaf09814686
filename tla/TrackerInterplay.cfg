SPECIFICATION Spec
CONSTANTS
    Replicas = {r1, r2}
    Jobs = {j1}
    MaxRetries = 2
    CounterSize = 8
    Timeouts = TRUE
    MaxCancels = 1
    MaxReplays = 1
    MaxFaults = 1
    Durable = TRUE
    MaxSnapshots = 3
INVARIANTS SuccessIsFinal
CHECK_DEADLOCK FALSE
