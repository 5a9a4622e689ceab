SPECIFICATION Spec
CONSTANTS
    Pairs = 6
    Experts <- MCExperts
    Rows = 2
    SortCap = 6
    ReadyBase = 2
    HbN = 2
INVARIANTS
    TypeOK
    Sorted
    ChunksCut
    WordsFit
CHECK_DEADLOCK FALSE
