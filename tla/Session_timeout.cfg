SPECIFICATION FairSpec
CONSTANTS
    None = None
    Objects = {a, b}
    Pointers = {}
    Dummy = {}
    Timeouts = {1, 2}
    MaxSources = 2
    MaxOps = 0
PROPERTIES
    TimeoutHonoured
CHECK_DEADLOCK FALSE
