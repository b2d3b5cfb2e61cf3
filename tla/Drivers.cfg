SPECIFICATION FairSpec
CONSTANTS
    FrameSize = 4
    TransferSize = 2
    MaxCaptureEmpty = 2
    LimitFrames = 2
    NumGroups = 2
    MaxSamples = 8
    LimitSamples = 8
    RleCounts = {1, 9}
    Stages = {0, 1, 2}
    Ratios = {0, 50, 100}
    BS = 4
    NUM_BLOCKS = 4
    NumBanks = 2
    NumChunks = 3
    ClustersPerChunk = 2
    EVENTS_PER_CLUSTER = 2
    ChunksPerRead = 2
    TsRange = 16
    FirstTimes = {13}
    Gaps = {2, 5}
    NumQuads = 2
    QuadWidth = 2
    FastProbes = 2
    MaxTriggers = 2
    PacketWords = 2
    MemoryPackets = 3
    Samplerates = {100, 500, 1000, 5000, 25000, 50000, 100000, 200000, 400000,
        800000, 1000000, 10000000, 25000000, 50000000, 80000000, 100000000,
        150000000, 200000000}
INVARIANTS TypeOK SentAsRecorded SetUpAsAsked
PROPERTIES FeedSpec GetsToItsEnd
CHECK_DEADLOCK FALSE
