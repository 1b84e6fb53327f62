SPECIFICATION FlashSpec
CONSTANTS
    NBlocks = 2
    NPages = 2
    ScanPages = 2
    PartTables <- MCPartTables
    FactoryBad <- MCFactoryBad
    MaxFail = 2
    MaxOff = 2
    Tags <- MCTags
    Types <- MCTypes
    MaxFlips = 2
INVARIANTS
    MarksLast
    GoodStaysGood
    TagsSurvive
CHECK_DEADLOCK FALSE
