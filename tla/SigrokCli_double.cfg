SPECIFICATION Spec
CONSTANTS
    NumDevs = 1
    SendsEnd = {1}
    Limit = 3
    MaxLen = 2
    SampleSize = 1
    UnitSize = 1
    WaitTrigger = FALSE
    Decoders = TRUE
    UserStops = TRUE
    MaxDepth = 5
    MaxReceived = 6
INVARIANTS
    EndOnce
CHECK_DEADLOCK FALSE
