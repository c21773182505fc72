SPECIFICATION Spec
CONSTANTS
    Number <- MCNumber
    Max32 <- MCMax32
    Max64 <- MCMax64
    Upper <- MCUpper
    Digits <- MCDigits
    Files <- MCFiles
    Saved <- MCSaved
    Options <- MCOptions
    None = None
INVARIANTS
    WrittenIsMeant
    EveryCellKept
    IntEntriesKept
    TypedIsLoadable
    OnlyCheckedLeaves
