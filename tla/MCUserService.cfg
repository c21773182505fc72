SPECIFICATION Spec
CONSTANTS
    Users = {u1, u2}
    Requests = {r1, r2, r3}
    Gateways = {g1}
    NoUser = NoUser
    NoToken = NoToken
    MaxFaults = 2
    MaxExpiries = 1
CHECK_DEADLOCK FALSE
SYMMETRY Symmetry
INVARIANTS
    KeysMirror
    SessionsHaveAccounts
    OneFirst
    ReplacementAnnounced
PROPERTY ImplementsSingleSession
