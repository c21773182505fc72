SPECIFICATION Spec
CONSTANTS
    Clients = {c1, c2}
    Users = {u1, u2}
    NoState = NoState
    NoClient = NoClient
    Timeout = 1
    MaxMissed = 2
    IdleTimeout = 1
    MaxDisconnects = 3
CONSTRAINT BoundedDisconnects
SYMMETRY Symmetry
INVARIANTS
    TypeOK
    ActiveNotOvercounted
    CountersAccurate
    ConnectionsMonitored
    UndercountExplained
