SPECIFICATION FairSpec
CONSTANT Chunks = 3
PROPERTY AppendReturns
CHECK_DEADLOCK FALSE
