SPECIFICATION Spec
CONSTANTS
    maxRetryAttempt = 2
    minRetryAttempt = 2
    ShareIDs        = {x1, x2}
    TargetIDs       = {t1}
    Names           = {n1}
    VPCs            = {v1}
    None            = None
    DuplicateTarget = "shares_target_vpc_duplicate"
    FaultErrors    <- MCFaultErrors
    MaxFaults       = 1
    Sessions        = {s1, s2}
    MaxOps          = 1
INVARIANT
    DeletionWaitSurvives
CHECK_DEADLOCK FALSE
