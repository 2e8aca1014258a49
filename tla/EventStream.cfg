SPECIFICATION FairSpec
CONSTANTS
    t1 = t1
    t2 = t2
    c1 = c1
    Thread = {t1, t2}
    Client = {c1}
    Requests = 2
    After = {2}
    SandboxRun = {1}
    Judged = {"UNSAFE"}
INVARIANTS
    TypeOK
    StreamFaithful
    CompleteAfterLastEvent
    Settled
PROPERTIES
    ResultsKeepLease
    StreamEnds
CHECK_DEADLOCK FALSE
