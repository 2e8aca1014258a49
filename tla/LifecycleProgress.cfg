SPECIFICATION FairSpec
CONSTANTS
    t1 = t1
    t2 = t2
    Thread = {t1, t2}
    Process = {t1, t2}
    Host <- OwnHost
    MaxPlans = 1
    CandidateVerdict = {}
    InsightKind = {}
    Rejection = "plan_rejection"
    Clock = {}
    Fault = {}
    NoToken = NoToken
    LostToken = LostToken
PROPERTIES
    ArchiveNotOrphaned
    VerifiedArchiveErased
CHECK_DEADLOCK FALSE
