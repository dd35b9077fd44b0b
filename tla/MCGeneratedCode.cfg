CONSTANTS
    nParam = 1
    Names <- MCNames
    Arity <- MCArity
    Terms <- MCTerms
    CPSTerms <- MCCPSTerms
    Height <- MCHeight
    Programs <- MCPrograms
    Data <- MCData
    Inputs <- MCInputs
    Vars <- MCVars
    SLOTS = 2
    ENTRIES = 4
    DEPTH_F = 2
SPECIFICATION Spec
INVARIANTS
    VariablesCurrent
    RootsCurrent
    RootsFit
    WithinPromise
    CaseTakesItsBranch
CHECK_DEADLOCK FALSE
