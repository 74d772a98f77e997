SPECIFICATION Spec
CONSTANTS
    k1 = k1  k2 = k2
    w1 = w1
    Keys = {k1, k2}
    Registered = {k1, k2}
    Writers = {w1}
    Exprs <- OnceOrTwice
    Explicits = {3}
    MaxTime = 3
    MaxRollbacks = 0
    MaxRestarts = 0
    KickQueue = 0
SYMMETRY KeySymmetry
INVARIANTS
    TypeOK
    EnabledIsArmed
    FireHasItsTrigger
