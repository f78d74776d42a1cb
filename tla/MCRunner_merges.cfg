SPECIFICATION Spec
CONSTANTS
    Graph <- Converging
    Batch = 1
    MaxIterations = 3
    Tries = 2
    TooLong = {3}
    MaxRows = 30
INVARIANTS
    MergesCollectEveryRun
CHECK_DEADLOCK FALSE
