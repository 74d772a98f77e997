SPECIFICATION FairSpec
CONSTANTS
    Items = {i1, i2}
    Path <- SamePath
    Configs = {c1}
    MaxTasks = 2
    ScanLimit = 1
    MaxAttempts = 2
    ReviveCap = 9
    MaxTurns = 0
PROPERTY EventuallyReplicated
