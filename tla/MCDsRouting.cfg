SPECIFICATION Spec
CONSTANTS
    NoRule = NoRule
    a = a
    main = main
    split = split
    missing = missing
    Tables <- MCTables
    Pools <- MCPools
    Keys <- MCKeys
    Bad = Bad
    MaxRev = 4
    MaxDrops = 1
    MaxFailures = 1
CHECK_DEADLOCK FALSE
INVARIANTS
    StartedSafely
    RefreshedIsCurrent
