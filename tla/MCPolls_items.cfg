SPECIFICATION FairSpec
CONSTANTS
    Replica = {w1, w2}
    None = None
    MaxItems = 3
    MaxValidity = 2
    Batch = 1
    SeenCap = 2
    MaxVersion = 2
    MaxFeed = 1
    MaxFaults = 1
INVARIANT NothingIsSkipped
PROPERTIES CursorNeverRewinds ArrivalsAreQueued
CHECK_DEADLOCK FALSE
