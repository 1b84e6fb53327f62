SPECIFICATION LoadersSpec
CONSTANTS
    KermSeqs = 4
    MaxData = 5
    MaxLost = 3
    MaxDamaged = 1
    MaxEarly = 2
    BlkMod = 4
    MaxCut = 1
INVARIANTS
    SenderNotAhead
    SizeMeansWhole
    OrderKept
    YmodemStored
PROPERTIES
    TransferEnds
    YmodemEnds
CHECK_DEADLOCK FALSE
