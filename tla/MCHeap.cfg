SPECIFICATION Spec
CONSTANTS
    HeapBounds <- MCHeapBounds
    Sizes <- MCSizes
    SizeMod = 1048576
    MaxHeld = 5
INVARIANTS
    TypeOK
    BoundaryTags
    FreeListExact
    ListNodeFits
    FullyMerged
    BlocksFit
    NothingHeldNothingLost
PROPERTY
    KeepsPromise
