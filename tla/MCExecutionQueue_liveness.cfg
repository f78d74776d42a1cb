SPECIFICATION FairSpec
CONSTANTS
    Exec = {1}
    Worker = {w1, w2}
    Caller = {c1}
    Steps = 1
    MaxReclaims = 1
    ScanLimit = 1
    MaxWaits = 1
    MaxFaults <- Faults
PROPERTIES
    QueuedSettles
    LeasedCancelCompletes
CHECK_DEADLOCK FALSE
