SPECIFICATION Spec
CONSTANTS
    c1 = c1
    c2 = c2
    t1 = t1
    t2 = t2
    t3 = t3
    Names = {c1, c2}
    Registered <- OneRegistered
    Tools = {t1, t2, t3}
    MaxRev = 3
    MaxFaults = 1
    QueriedColumn = "json_payload"
    Tags = "json"
INVARIANTS TypeOK BehindOnlyIfMissed
PROPERTIES NeverBackward NotifiedIsLoaded
SYMMETRY Symmetric
CHECK_DEADLOCK FALSE
