CONSTANTS
    MAX_SPACES = 3
    NURSERY_SIZE = 5
    RATIO = 2
    DEPTH = 0
    ArgSlots = {1, 2, 3, 4}
    MallocMayFail = TRUE
    KeySet = {1, 2, 3}
    Inserts = 3
SPECIFICATION FairSpec
INVARIANTS
    TreeHoldsKeys
    ExportIsCompact
    ExportOutlivesHeap
    OldNeverPointsYoung
    NothingDangles
PROPERTIES
    ImplementsInterface
    ImplementsGenerations
    StepsKeepGraph
    ImplementsAnyMutator
    Terminates
CHECK_DEADLOCK FALSE
