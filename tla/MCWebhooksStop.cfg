SPECIFICATION Spec
CONSTANTS
    Events = {e1}
    Subs = {s1}
    Wants <- All
    Workers = {w1}
    RetryCount = 1
    MaxConcurrent = 1
    MaxTurns = 1
INVARIANT CleanStopSettlesRows
CHECK_DEADLOCK FALSE
