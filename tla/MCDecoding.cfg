SPECIFICATION Spec
CONSTANTS
    ByteBits = 4
    IntBits = 4
    WordBits = 6
    Classes <- MCClasses
    Commands <- MCCommands
    Signal <- MCSignal
    InUnitsize = 1
    Enabled <- MCEnabled
    MaxChunk = 2
    MaxPuts = 2
INVARIANTS
    TypeOK
    WellStacked
    SamplesReachDecoders
CHECK_DEADLOCK FALSE
