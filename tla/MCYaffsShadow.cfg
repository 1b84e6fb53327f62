CONSTANTS
    NBlocks = 6
    NPages = 3
    Reserved = 2
    Ids = {1, 2}
    Names = {10, 20}
    NChunks = 2
    Writes <- MCWrites
    Sizes = {0, 4}
    RefreshPeriod = 10
    SmallHole = 1
    Faults <- NoFaults
    Setup <- MCSetup
    MaxCalls = 2
    MaxOff = 2
SPECIFICATION Spec
INVARIANTS NameOnce
CHECK_DEADLOCK FALSE
