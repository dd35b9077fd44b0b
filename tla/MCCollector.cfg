CONSTANTS
    MAX_SPACES = 3
    NURSERY_SIZE = 8
    RATIO = 2
    DEPTH = 0
    ArgSlots = {1, 2}
    MallocMayFail = TRUE
    Tags <- AllTags
    Older = {0, 1, 2}
SPECIFICATION MCSpec
INVARIANTS
    ScannedPointsAway
    CopiesOnlyLive
    ExportReturnsAnswer
PROPERTIES
    ImplementsInterface
    NoScanLeftAlone
CHECK_DEADLOCK FALSE
