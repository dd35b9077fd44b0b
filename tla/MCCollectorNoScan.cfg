CONSTANTS
    MAX_SPACES = 3
    NURSERY_SIZE = 8
    RATIO = 2
    DEPTH = 1
    ArgSlots = {1, 2}
    MallocMayFail = TRUE
    Tags <- NoScanTags
    Older = {0, 1}
SPECIFICATION MCSpec
PROPERTIES
    NoScanLeftAlone
CHECK_DEADLOCK FALSE
