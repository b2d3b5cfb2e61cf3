SPECIFICATION MCFairSpec
CONSTANTS
    Limit = 7
    TimeLimit = 6
    Rate = 2
    Second = 2
    Delays = {0, 1, 2, 4}
    Bufsize = 3
    Capacity = 4
    UserStops = TRUE
    StopsOnHeader = TRUE
    StopsOnData = TRUE
    MaxSamples = 9
INVARIANTS
    TypeOK
    SamplesConserved
    LimitRespected
    LimitedStopped
PROPERTIES
    FeedSpec
    LimitedEnds
CHECK_DEADLOCK FALSE
