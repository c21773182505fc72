SPECIFICATION FairSpec
CONSTANTS
    Types = {user}
    Targets = {old, new}
    RouteIds = {1, 2}
    Methods = {login}
    NoSpec = NoSpec
    BadSpec = BadSpec
    Timers = {t1}
    MaxRev = 3
    MaxDrops = 2
    MaxFailures = 1
CHECK_DEADLOCK FALSE
INVARIANTS
    TableOpen
    NoLeak
    RoutesCurrent
PROPERTIES
    NewestWins
    Settles
