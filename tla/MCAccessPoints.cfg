SPECIFICATION MCSpec
CONSTANTS
    maxRetryAttempt = 2
    minRetryAttempt = 2
    ShareIDs        = {x1}
    TargetIDs       = {t1, t2}
    Names           = {n1}
    VPCs            = {v1, v2}
    None            = None
    DuplicateTarget = "shares_target_vpc_duplicate"
    FaultErrors    <- MCFaultErrors
    MaxFaults       = 1
    ApSessions      = {a1, a2}
    MaxApOps        = 1
    Sessions        = {s1}
    MaxOps          = 1
INVARIANTS
    ApTypeOK
    CreatedTargetIsTheOneAskedFor
    LosingCreatorAdopts
    DeletedTargetIsDoomed
    WaitsTellTheTruth
PROPERTY
    EveryRequestBringsItFurther
SYMMETRY Symmetry
CHECK_DEADLOCK FALSE
