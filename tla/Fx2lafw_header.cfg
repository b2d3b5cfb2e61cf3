SPECIFICATION FairSpec
CONSTANTS
    NumTransfers = 2
    MaxEmpty = 1
    MaxLen = 2
    Limit = 3
    Stages = 0
    Wrap = 16
    EventsInStart = TRUE
    UserStops = FALSE
    StopsOnHeader = TRUE
    StopsOnData = FALSE
    MaxSamples = 6
PROPERTIES
    RunReturns
CHECK_DEADLOCK FALSE
