SPECIFICATION Spec
CONSTANTS
    Clients = {c1}
    Users = {u1}
    NoState = NoState
    NoClient = NoClient
    NoUser = NoUser
    Timeout = 9
    MaxMissed = 3
    IdleTimeout = 0
    MaxInvalidations = 0
PROPERTY HeartbeatSparesActive
