SPECIFICATION Spec
CONSTANTS
    Types = {user}
    Targets = {old, new}
    RouteIds = {1, 2}
    Methods = {login}
    NoSpec = NoSpec
    BadSpec = BadSpec
    Timers = {t1}
    MaxRev = 3
    MaxDrops = 0
    MaxFailures = 0
CHECK_DEADLOCK FALSE
INVARIANT TableCurrent
