SPECIFICATION Spec
CONSTANTS
    Call = {c1, c2}
    MaxWaits = 2
    MaxCalls = 3
SYMMETRY CallSymmetry
INVARIANTS
    CheckpointRunsOnce
CHECK_DEADLOCK FALSE
