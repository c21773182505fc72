SPECIFICATION TableSpec
CONSTANTS
    NoRule = NoRule
    Letters = {a, b}
    PoolNames = {p, q}
    MaxRules = 3
    MaxLen = 2
CHECK_DEADLOCK FALSE
INVARIANTS
    LongestPrefixWins
