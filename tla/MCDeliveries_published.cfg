SPECIFICATION Spec
CONSTANTS
    Node = {"a", "b"}
    Doc = {"d1", "d2"}
    KindOf <- Swapping
    Refused = {}
    MaxRevision = 2
    MaxVersions = 1
    MaxRequests = 1
    Admin = {1}
    Caller = {c1, c2}
    DeliveryId = {1}
    MaxRuns = 2
    MaxFaults = 1
SYMMETRY CallerSymmetry
INVARIANTS RoutesFollowPublication NothingNamedIsPruned OneRunPerClaim StartsFromItsTrigger
CHECK_DEADLOCK FALSE
