SPECIFICATION FairSpec
CONSTANTS
    maxRetryAttempt = 2
    minRetryAttempt = 2
    ShareIDs        = {x1, x2}
    TargetIDs       = {t1}
    Names           = {n1}
    VPCs            = {v1}
    None            = None
    DuplicateTarget = "shares_target_vpc_duplicate"
    FaultErrors    <- MCFaultErrors
    MaxFaults       = 2
    Sessions        = {s1, s2}
    MaxOps          = 2
INVARIANTS
    TypeOK
    CreatedShareIsUsable
    NoSharedOwnership
    LeakNeedsFault
    DeletedShareIsDoomed
PROPERTY
    VolumeOpEnds
CHECK_DEADLOCK FALSE
