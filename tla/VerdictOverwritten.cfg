SPECIFICATION FairSpec
CONSTANTS
    t1 = t1
    t2 = t2
    Thread = {t1, t2}
    Process = {t1, t2}
    Host <- OwnHost
    MaxPlans = 1
    CandidateVerdict = {"UNSAFE"}
    InsightKind = {}
    Rejection = "plan_rejection"
    Clock = {}
    Fault = {}
    NoToken = NoToken
    LostToken = LostToken
PROPERTIES
    CandidateVerdictKept
CHECK_DEADLOCK FALSE
