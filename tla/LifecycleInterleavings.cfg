SPECIFICATION Spec
CONSTANTS
    t1 = t1
    t2 = t2
    Thread = {t1, t2}
    Process = {t1, t2}
    Host <- OwnHost
    MaxPlans = 1
    CandidateVerdict = {"UNSAFE"}
    InsightKind = {"finding_explanations"}
    Rejection = "plan_rejection"
    Clock = {"claim"}
    Fault = {}
    NoToken = NoToken
    LostToken = LostToken
SYMMETRY Symmetry
INVARIANTS
    TypeOK
    StoredReportCoherent
    PlanLimitHeld
    StagedKeepsBundle
PROPERTIES
    DeletedStaysDeleted
    LeaseKept
CHECK_DEADLOCK FALSE
