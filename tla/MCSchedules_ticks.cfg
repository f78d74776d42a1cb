SPECIFICATION FairSpec
CONSTANTS
    Replica = {1, 2}
    Cron = {"often", "daily", "never"}
    Fires <- MCFires
    Pinned = {"daily"}
    Zone = {"none", "shifted"}
    NoZone = "none"
    WallClock <- MCWallClock
    Trigger <- MCTriggers
    SearchLimit = 4
    MaxCatchUp = 1
    MaxTime = 4
    MaxRows = 2
    MaxVersion = 2
    MaxRequests = 1
    MaxFaults = 1
INVARIANTS FiresOncePerArming DueTimesAreOccurrences PinnedRunsOncePerWallClock
PROPERTIES CatchesUp
CHECK_DEADLOCK FALSE
