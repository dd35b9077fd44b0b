CONSTANTS
    MAX_SPACES = 3
    NURSERY_SIZE = 8
    RATIO = 2
    DEPTH = 2
    ArgSlots = {1, 2}
    MallocMayFail = TRUE
    Tags <- PlainTags
    Older = {0, 1}
SPECIFICATION MCSpec
INVARIANTS
    CopiesOnlyLive
PROPERTIES
    ImplementsInterface
    StepsKeepGraph
CHECK_DEADLOCK FALSE
