SPECIFICATION Spec
CONSTANTS
    maxRetryAttempt = 2
    minRetryAttempt = 2
    Sessions     = {s1, s2, s3}
    Tags        <- MCTags
    SubTag      <- MCSubTag
    Requests    <- MCRequests
    FaultErrors <- MCFaultErrors
    MaxFaults    = 1
    MaxEdits     = 1
INVARIANTS
    TypeOK
    UpdatedTagsCovered
    RefusedOnlyWhenOvertaken
PROPERTY
    NoLostTags
SYMMETRY Symmetry
CHECK_DEADLOCK FALSE
