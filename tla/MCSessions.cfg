SPECIFICATION Spec
CONSTANTS
    RequestIDs          = {q1, q2}
    None                = None
    VPCVolumeType       = "vpc-share"
    IKSFileProviderName = "iks-vpc-share"
    G2EndpointURL       = "https://vpc"
    IKSPrivateURL       = "https://iks"
    Openers             = {g1, g2}
    EmptyHalf           = EmptyHalf
    NilHalf             = NilHalf
INVARIANTS
    SessionIsWhole
    OwnRequestID
    ReadyProviderIsRegistered
CHECK_DEADLOCK FALSE
SYMMETRY Symmetry
