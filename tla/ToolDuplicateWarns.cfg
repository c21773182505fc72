SPECIFICATION Spec
CONSTANTS
    Number <- MCNumber
    Max32 <- MCMax32
    Max64 <- MCMax64
    Upper <- MCUpper
    Digits <- MCDigits
    Files <- MCFilesFew
    Saved <- MCSaved
    Options <- MCOptions
    None = None
INVARIANT DuplicatesOnlyWarn
