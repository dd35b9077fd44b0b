CONSTANTS
    MAX_SPACES = 3
    NURSERY_SIZE = 10
    RATIO = 2
    MAX_ALLOCS = 5
    HEADROOM = 6
    INSERTS = 4
    RUNS = 2
SPECIFICATION RegSpec
INVARIANTS
    RegistersInNursery
    CollectorAssertions
CHECK_DEADLOCK FALSE
