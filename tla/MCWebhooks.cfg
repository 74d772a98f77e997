SPECIFICATION FairSpec
CONSTANTS
    Events = {e1}
    Subs = {s1, s2}
    Wants <- All
    Workers = {w1, w2}
    RetryCount = 2
    MaxConcurrent = 1
    MaxTurns = 1
INVARIANTS TypeOK OneWorkerPerRow SendsWithinBudget
PROPERTIES EveryRowSettles ImplementsOutbox
CHECK_DEADLOCK FALSE
