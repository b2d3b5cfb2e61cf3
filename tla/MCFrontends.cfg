CONSTANTS
    DriverOf <- MCDriverOf
    ProbeCount <- MCProbeCount
    ByteProbes = 1
    ResetDelay = 2
    MaxRenumDelay = 4
    MaxTime = 7
    Commands <- MCCommands
    Setups <- MCSetups
    MaxInsts = 3
    ScanTime = 2
SPECIFICATION Spec
INVARIANTS
    TypeOK
    HeldInSession
    OpensTheDevice
    StartsAsAsked
PROPERTIES
    EverythingReturns
