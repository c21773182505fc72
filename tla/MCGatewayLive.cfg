SPECIFICATION FairSpec
CONSTANTS
    Clients = {c1}
    Users = {u1, u2}
    NoState = NoState
    NoClient = NoClient
    NoUser = NoUser
    Timeout = 1
    MaxMissed = 2
    IdleTimeout = 0
    MaxInvalidations = 2
PROPERTIES
    DroppedEnds
    NoStuckReader
