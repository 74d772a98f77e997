SPECIFICATION Spec
CONSTANTS
    Items = {i1, i2}
    Path <- SamePath
    Configs = {c1}
    MaxTasks = 2
    ScanLimit = 2
    MaxAttempts = 2
    ReviveCap = 9
    MaxTurns = 1
INVARIANT TriedRowsAreCycled
