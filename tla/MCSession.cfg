SPECIFICATION MCSpec
CONSTANTS
    None = None
    Objects = {a, p, d}
    Pointers = {p}
    Dummy = {d}
    Timeouts = {0, 1, 2}
    MaxSources = 3
    MaxOps = 2
INVARIANTS
    TypeOK
    TimeoutCoversSources
    MissedOnlyByRemoval
PROPERTIES
    StopEndsRun
    SourcesServed
