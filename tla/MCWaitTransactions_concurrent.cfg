SPECIFICATION Spec
CONSTANTS
    Call = {c1, c2}
    MaxWaits = 3
    MaxCalls = 5
INVARIANTS
    WaitingCanBeWoken
PROPERTIES
    ConsumedIsFinal
    FinishedNeverRequeued
    SerialCallsRunOnce
CHECK_DEADLOCK FALSE
