SPECIFICATION Spec
CONSTANTS
    Requests = {r1}
    NoReq = NoReq
    ContentTTL = 1
    MetadataTTL = 1
    MissTTL = 1
    Window = 1
    FirstVersion = 1
    MaxVersions = 2
    MaxRequests = 3
    MaxTurns = 2
    MaxTime = 2
INVARIANT CopyIsVouched
CHECK_DEADLOCK FALSE
