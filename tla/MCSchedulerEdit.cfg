SPECIFICATION Spec
CONSTANTS
    k1 = k1  k2 = k2
    w1 = w1
    Keys = {k1}
    Registered = {k1}
    Writers = {w1}
    Exprs <- OnceOrTwice
    Explicits = {}
    MaxTime = 3
    MaxRollbacks = 0
    MaxRestarts = 0
    KickQueue = 1
PROPERTIES
    WriteBackKeepsEdits
