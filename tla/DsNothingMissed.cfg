SPECIFICATION Spec
CONSTANTS
    NoRule = NoRule
    a = a
    main = main
    split = split
    missing = missing
    Tables <- MCTables
    Pools <- MCPools
    Keys <- MCKeys
    Bad = Bad
    MaxRev = 2
    MaxDrops = 0
    MaxFailures = 0
CHECK_DEADLOCK FALSE
INVARIANT NothingMissed
