SPECIFICATION Spec
CONSTANTS
    Clients = {c1, c2}
    Users = {u1}
    NoState = NoState
    NoClient = NoClient
    NoUser = NoUser
    Timeout = 0
    MaxMissed = 1
    IdleTimeout = 1
    MaxInvalidations = 2
SYMMETRY Symmetry
INVARIANT UserMappingsLive
