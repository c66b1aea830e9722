SPECIFICATION FairSpec
CONSTANTS
    maxRetryAttempt = 2
    minRetryAttempt = 2
    SnapIDs         = {p1, p2}
    SnapNames       = {n1}
    MaxSize         = 3
    InitialSize     = 2
    None            = None
    FaultErrors    <- MCFaultErrors
    MaxFaults       = 1
    Expanders       = {e1}
    Snappers        = {s1, s2}
    Capacities     <- MCCapacities
    GiB             = 4
    MaxInt64        = 31
    MaxSnapOps      = 1
INVARIANTS
    ExpandedShareIsLargeEnough
    DeletedSnapshotIsDoomed
    SnapshotAnswersAreTrue
    NoStraySnapshot
PROPERTY
    DataOpEnds
CHECK_DEADLOCK FALSE
