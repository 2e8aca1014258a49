SPECIFICATION Spec
CONSTANTS
    p1 = p1
    p2 = p2
    t1 = t1
    t2 = t2
    Process = {p1, p2}
    Thread = {t1, t2}
    Analysis = {a1, a2}
    Limit = 1
    Host <- OneEach
    Nobody = Nobody
INVARIANTS
    StagedWithinLimit
PROPERTIES
    LockoutEnds
CHECK_DEADLOCK FALSE
