SPECIFICATION Spec
CONSTANT Chunks = 3
INVARIANTS TypeOK KeptArmIsWhole
CHECK_DEADLOCK FALSE
