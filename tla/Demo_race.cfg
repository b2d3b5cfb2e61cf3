SPECIFICATION Spec
CONSTANTS
    Limit = 5
    TimeLimit = 0
    Rate = 2
    Second = 2
    Delays = {1, 2}
    Bufsize = 2
    Capacity = 4
    UserStops = FALSE
    StopsOnHeader = FALSE
    StopsOnData = FALSE
    MaxSamples = 5
INVARIANTS
    AllDelivered
CHECK_DEADLOCK FALSE
