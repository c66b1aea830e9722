SPECIFICATION FairSpec
CONSTANTS
    maxRetryAttempt = 2
    minRetryAttempt = 2
    LastID          = 5
    DefaultPage     = 2
    FaultErrors    <- MCFaultErrors
    MaxFaults       = 1
    MaxChanges      = 2
    Readers         = {r1}
    Matching        = {3, 4}
    Limits         <- MCLimits
    maxLimit        = 2
    pageSize        = 2
    None            = None
INVARIANTS
    ListingIsComplete
    LookupIsTrue
PROPERTY
    ReadingEnds
CHECK_DEADLOCK FALSE
