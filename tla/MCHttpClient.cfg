SPECIFICATION Spec
CONSTANTS
    Callers = {g1, g2}
    Chunks  = 2
    Tokens  = {t1}
    Version = Version
    NoToken = NoToken
    NoError = NoError
    None    = None
INVARIANTS
    ErrorTellsWhatHappened
    RequestsDoNotMix
    UploadIsWhole
SYMMETRY Symmetry
CHECK_DEADLOCK FALSE
