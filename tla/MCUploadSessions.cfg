SPECIFICATION Spec
CONSTANTS
    r1 = r1  r2 = r2
    Reqs = {r1, r2}
    Evictor = Evictor
    Bytes = {x}
    MaxLen = 1
    MaxHandles = 2
    MaxRestarts = 1
    RowOutlivesIdle = FALSE
    OnlineSweep = TRUE
SYMMETRY SlotSymmetry
INVARIANTS
    TypeOK
    BlobMatchesDigest
    OffsetIsFileLength
    AckedBytesSurvive
