CONSTANTS
    MAX_SPACES = 3
    NURSERY_SIZE = 3
    RATIO = 2
    DEPTH = 0
    MallocMayFail = FALSE
    ArgSlots = {}
    Ordinals = {250}
    LocalNames <- Names
    CALLS = 3
    STEPS = 5
    OBJECTS = 1
SPECIFICATION Spec
INVARIANT ExportCopiesAnswer
CHECK_DEADLOCK FALSE
