SPECIFICATION FairSpec
CONSTANTS
    Calls = {c1, c2, c3}
    WithFallback = {c1, c2}
    Nobody = Nobody
    Threshold = 2
    HalfOpenMax = 2
    CancelPoints = {"waiting", "fallback", "guarded"}
    Resets = TRUE
INVARIANTS Shielded
PROPERTIES ClosesAfterRecovery EveryCallReturns
CHECK_DEADLOCK FALSE
