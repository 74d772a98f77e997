SPECIFICATION Spec
CONSTANTS
    Requests = {r1, r2}
    NoReq = NoReq
    ContentTTL = 1
    MetadataTTL = 1
    MissTTL = 1
    Window = 1
    FirstVersion = 1
    MaxVersions = 2
    MaxRequests = 3
    MaxTurns = 1
    MaxTime = 1
PROPERTY HitIsInsideTTL
CHECK_DEADLOCK FALSE
