SPECIFICATION WatchSpec
CONSTANTS
    maxRetryAttempt = 2
    minRetryAttempt = 2
    Sessions        = {h1}
    Tags           <- MCTags
    SubTag         <- MCSubTag
    Requests       <- MCRequests
    FaultErrors    <- MCFaultErrors
    IksFaultErrors <- MCIksFaultErrors
    MaxFaults       = 1
    MaxEdits        = 1
    MaxCapacity     = 2
INVARIANT
    EmptySessionIsSafe
CHECK_DEADLOCK FALSE
