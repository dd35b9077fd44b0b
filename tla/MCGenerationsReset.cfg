CONSTANTS
    MAX_SPACES = 3
    NURSERY_SIZE = 4
    RATIO = 2
    MAX_ALLOCS = 5
SPECIFICATION Spec
PROPERTIES
    ResetEmpties
CHECK_DEADLOCK FALSE
