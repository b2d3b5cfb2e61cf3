SPECIFICATION MCFairSpec
CONSTANTS
    NumTransfers = 3
    MaxEmpty = 2
    MaxLen = 3
    Limit = 3
    Stages = 2
    Wrap = 16
    EventsInStart = TRUE
    UserStops = TRUE
    StopsOnHeader = TRUE
    StopsOnData = TRUE
    MaxSamples = 8
INVARIANTS
    TypeOK
    CountsTransfers
    EndCanCome
    EndIsLast
    PlainAbortSticks
    PlainLimitDelivered
PROPERTIES
    FeedSpec
    PlainRunReturns
CHECK_DEADLOCK FALSE
