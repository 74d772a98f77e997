SPECIFICATION Spec
CONSTANTS
    r1 = r1  r2 = r2
    Reqs = {r1, r2}
    Evictor = Evictor
    Bytes = {x}
    MaxLen = 1
    MaxHandles = 3
    MaxRestarts = 0
    RowOutlivesIdle = FALSE
    OnlineSweep = FALSE
SYMMETRY SlotSymmetry
CHECK_DEADLOCK FALSE
INVARIANTS
    BlobIsWhole
