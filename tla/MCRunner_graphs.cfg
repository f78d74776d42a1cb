SPECIFICATION Spec
CONSTANTS
    Graph <- Graphs
    Batch = 1
    MaxIterations = 3
    Tries = 2
    TooLong = {3}
    MaxRows = 30
INVARIANTS
    ResumeIsTransparent
    OneRunPerDelivery
    MergesRunLast
    LoopsHandOnTheirReturns
    TameRunsEnd
CHECK_DEADLOCK FALSE
