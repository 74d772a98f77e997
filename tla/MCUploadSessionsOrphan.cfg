SPECIFICATION Spec
CONSTANTS
    r1 = r1  r2 = r2
    Reqs = {r1}
    Evictor = Evictor
    Bytes = {x}
    MaxLen = 1
    MaxHandles = 1
    MaxRestarts = 0
    RowOutlivesIdle = FALSE
    OnlineSweep = TRUE
INVARIANTS
    LiveSessionKeepsItsFile
