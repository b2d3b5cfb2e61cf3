SPECIFICATION FairSpec
CONSTANTS
    NumDevs = 2
    SendsEnd = {}
    Limit = 3
    MaxLen = 2
    SampleSize = 1
    UnitSize = 1
    WaitTrigger = TRUE
    Decoders = TRUE
    UserStops = TRUE
    MaxDepth = 5
    MaxReceived = 6
INVARIANTS
    TypeOK
    CutToLimit
PROPERTIES
    EndIsFinal
    EndEndsSession
CHECK_DEADLOCK FALSE
