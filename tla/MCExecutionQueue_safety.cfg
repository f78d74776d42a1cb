SPECIFICATION Spec
CONSTANTS
    Exec = {1}
    Worker = {w1, w2}
    Caller = {c1}
    Steps = 2
    MaxReclaims = 1
    ScanLimit = 1
    MaxWaits = 1
    MaxFaults <- Faults
SYMMETRY ProcessSymmetry
INVARIANTS
    LeaseDiscipline
    HolderRunsLatestSegment
    OneAttemptPerSegment
    SucceededTraceIsWhole
PROPERTIES
    FinishedNeverRunsAgain
    ImplementsLifecycle
CHECK_DEADLOCK FALSE
