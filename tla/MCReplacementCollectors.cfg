CONSTANTS
    SIZE = 4
    FIRST = 2
    MAX_ALLOCS = 5
    BLOCKS = 3
    WORDS = 6
SPECIFICATION Spec
INVARIANTS
    TypeOK
    WrittenInBlocks
PROPERTIES
    NothingOverwritten
    ImplementsInterface
CHECK_DEADLOCK FALSE
