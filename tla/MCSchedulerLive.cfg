SPECIFICATION FairSpec
CONSTANTS
    k1 = k1  k2 = k2
    w1 = w1
    Keys = {k1}
    Registered = {k1}
    Writers = {w1}
    Exprs <- Once
    Explicits = {}
    MaxTime = 3
    MaxRollbacks = 1
    MaxRestarts = 1
    KickQueue = 1
PROPERTIES
    DueRowIsServed
