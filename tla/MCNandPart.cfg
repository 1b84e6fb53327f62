SPECIFICATION FlashSpec
CONSTANTS
    NBlocks = 2
    NPages = 2
    ScanPages = 2
    PartTables <- MCPartTables
    FactoryBad <- MCFactoryBad
    MaxFail = 2
    MaxOff = 2
    Tags <- MCTags
    Types <- MCTypes
    MaxFlips = 0
INVARIANT
    StaysInPartition
CHECK_DEADLOCK FALSE
