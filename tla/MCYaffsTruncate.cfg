CONSTANTS
    NBlocks = 6
    NPages = 3
    Reserved = 2
    Ids = {1}
    Names = {10, 20}
    NChunks = 2
    Writes <- GrowWrites
    Sizes = {2}
    RefreshPeriod = 10
    SmallHole = 1
    Faults <- NoFaults
    Setup <- OneFile
    MaxCalls = 4
    MaxOff = 1
SPECIFICATION Spec
INVARIANTS TruncationLasts
CHECK_DEADLOCK FALSE
