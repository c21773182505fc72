SPECIFICATION TakeoverSpec
CONSTANTS
    c1 = c1
    c2 = c2
    c3 = c3
    g1 = g1
    g2 = g2
    Users = {u1, u2}
    Requests <- MCRequests
    Gateways <- MCGateways
    Home <- MCHome
    NoUser = NoUser
    NoToken = NoToken
    NoConn = NoConn
    MaxFaults = 0
    MaxExpiries = 0
    ReplyField = "user_id"
CHECK_DEADLOCK FALSE
INVARIANT OneTerminal
