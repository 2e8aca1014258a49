SPECIFICATION Spec
CONSTANTS
    Thread = {t1, t2}
    Limit = 2
    Window = 2
    Tick = 2
    Horizon = 5
INVARIANTS
    TypeOK
    DatabaseQuota
    MemoryQuota
    RetryAfterEnough
CHECK_DEADLOCK FALSE
