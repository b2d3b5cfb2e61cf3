SPECIFICATION Spec
CONSTANTS
    ByteBits = 2
    IntBits = 6
    WordBits = 7
    ChunkSize = 4
    Plans <- MCPlans
    DevProbes <- MCDevProbes
    DevUnitsize = 3
    Signal <- MCSignal
    Channels <- MCChannels
    MaxPacket = 3
    La8Packets = 2
    La8PacketSize = 2
    DefaultProbes = 2
    SamplesPerLine = 4
INVARIANTS
    TypeOK
    StoredAndReadBack
    OutputFaithful
PROPERTIES
    EveryFileEnds
CHECK_DEADLOCK FALSE
