CONSTANTS
    MAX_SPACES = 3
    NURSERY_SIZE = 4
    RATIO = 2
    MAX_ALLOCS = 5
SPECIFICATION FairSpec
INVARIANTS
    TypeOK
    NextCollectionFits
    AssertionsHold
    NoOverrun
    RanOutOnlyWhenFull
PROPERTIES
    CollectGivesRoom
    LimitStays
    CollectionEnds
CHECK_DEADLOCK FALSE
