SPECIFICATION FairSpec
CONSTANTS
    r1 = r1  r2 = r2
    Reqs = {r1, r2}
    Evictor = Evictor
    Bytes = {x}
    MaxLen = 0
    MaxHandles = 2
    MaxRestarts = 0
    RowOutlivesIdle = TRUE
    OnlineSweep = FALSE
CHECK_DEADLOCK FALSE
INVARIANTS
    OneWriter
PROPERTIES
    JoinedRebuildEnds
