SPECIFICATION FairSpec
CONSTANTS
    Requests = {r1, r2}
    NoReq = NoReq
    ContentTTL = 1
    MetadataTTL = 1
    MissTTL = 1
    Window = 1
    FirstVersion = 2
    MaxVersions = 3
    MaxRequests = 3
    MaxTurns = 1
    MaxTime = 1
INVARIANTS TypeOK OneContactPerPath FreshCopyIsVouched
PROPERTIES ContactIsNeeded EveryRequestReturns
CHECK_DEADLOCK FALSE
