SPECIFICATION KeySpec
CONSTANTS
    Request = {r1, r2, r3}
    Body = {b1, b2}
    InFlight = 1
    Retention = 1
    Until = 1
    Attempts = 2
    MaxClock = 2
SYMMETRY RequestSymmetry
INVARIANTS OneRunPerLease ReplayIsOfSameRequest AdmittedOnceInWindow
PROPERTY RememberedForRetention
CHECK_DEADLOCK FALSE
