CONSTANTS
    NBlocks = 7
    NPages = 3
    Reserved = 3
    Ids = {1, 2}
    Names = {10, 20}
    NChunks = 2
    Writes <- MCWrites
    Sizes = {0, 4}
    RefreshPeriod = 10
    SmallHole = 1
    Faults <- MCFaults
    Setup <- MCSetup
    MaxCalls = 3
    MaxOff = 1
SPECIFICATION Spec
INVARIANTS YaffsTypeOK FreeCountExact EveryChunkOwned ReserveEnough Survives
CHECK_DEADLOCK FALSE
