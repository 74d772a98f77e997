SPECIFICATION FairSpec
CONSTANTS
    r1 = r1  r2 = r2
    Reqs = {r1, r2}
    Evictor = Evictor
    Bytes = {x}
    MaxLen = 0
    MaxHandles = 2
    MaxRestarts = 1
    RowOutlivesIdle = FALSE
    OnlineSweep = TRUE
PROPERTIES
    ResidueIsReclaimed
