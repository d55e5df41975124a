SPECIFICATION FairSpec
CONSTANTS
    NumSectors = 3
    MaxOps = 2
INVARIANTS
    TypeOK
    AutoSaveHolds
    DurableKept
    HeldUnlessHurt
    SavedIsSaved
PROPERTIES
    BootRestores
    TransfersEnd
