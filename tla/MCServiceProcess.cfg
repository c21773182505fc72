SPECIFICATION FairSpec
CONSTANTS
    user = user
    lobby = lobby
    Addrs <- MCAddrs
    Lobbies <- MCLobbies
    DataSources <- MCDataSources
    Absent = Absent
    DefaultPool = "default"
    TTL = 3
    MaxStarts = 2
    MaxCuts = 1
CHECK_DEADLOCK FALSE
INVARIANTS
    TypeOK
    RegisteredServes
PROPERTIES
    DeregisteredByOutage
    DeadDisappear
    ListenersRegister
