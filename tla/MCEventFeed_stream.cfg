SPECIFICATION Spec
CONSTANTS
    Publisher = {p1, p2}
    SubscriberQueue = 1
    Buffer = 2
    LoseTerminal = TRUE
    MaxEvents = 4
    MaxConns = 3
    MaxRestarts = 1
INVARIANTS NothingMissedSilently FramesInOrder
PROPERTY FinishedStreamEnds
CHECK_DEADLOCK FALSE
