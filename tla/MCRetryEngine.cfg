SPECIFICATION FairSpec
CONSTANTS
    maxRetryAttempt  = 3
    minRetryAttempt  = 2
    Goroutines       = {g1, g2}
    retryGap0        = 10
    maxRetryGap      = 15
    ConstantRetryGap = 10
    Errors          <- MCErrors
    MaxCalls         = 1
INVARIANTS
    TypeOK
    AttemptBudget
    GapSettles
    NoBusyRetry
PROPERTY
    LoopTerminates
CHECK_DEADLOCK FALSE
