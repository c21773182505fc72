SPECIFICATION Spec
CONSTANTS
    c1 = c1
    c2 = c2
    t1 = t1
    t2 = t2
    t3 = t3
    Names = {c1, c2}
    Registered <- OneRegistered
    Tools = {t1, t2}
    MaxRev = 2
    MaxFaults = 0
    QueriedColumn = "data"
    Tags = "json"
PROPERTY RegisteredIsFound
CHECK_DEADLOCK FALSE
