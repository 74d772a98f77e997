SPECIFICATION FairSpec
CONSTANTS
    Shas = {a}
    Slots = {c1, c2}
    Rounds = 1
    MaxAsks = 2
    MaxTurns = 3
PROPERTY WindowCloses
CHECK_DEADLOCK FALSE
