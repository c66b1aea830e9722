SPECIFICATION FairWatchSpec
CONSTANTS
    maxRetryAttempt = 2
    minRetryAttempt = 2
    Sessions        = {h1, h2}
    Tags           <- MCTags
    SubTag         <- MCSubTag
    Requests       <- MCRequests
    FaultErrors    <- MCFaultErrors
    IksFaultErrors <- MCIksFaultErrors
    MaxFaults       = 2
    MaxEdits        = 1
    MaxCapacity     = 2
INVARIANTS
    WatchTypeOK
    BoundVolumeIsTagged
    SuccessEventIsTrue
    IksFollowsTheVolume
PROPERTY
    HandlerEnds
CHECK_DEADLOCK FALSE
