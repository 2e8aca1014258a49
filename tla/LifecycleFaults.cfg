SPECIFICATION FairSpec
CONSTANTS
    t1 = t1
    t2 = t2
    Thread = {t1}
    Process = {t1, t2}
    Host <- OwnHost
    MaxPlans = 1
    CandidateVerdict = {"UNSAFE", "CONDITIONALLY_VERIFIED", "VERIFIED_FOR_REVIEW", "INSUFFICIENT_EVIDENCE"}
    InsightKind = {"finding_explanations", "plan_rejection"}
    Rejection = "plan_rejection"
    Clock = {"report", "archive", "claim"}
    Fault = {"crash", "database", "store"}
    NoToken = NoToken
    LostToken = LostToken
PROPERTIES
    ClaimNeverStuck
    ExpiredReportRemoved
CHECK_DEADLOCK FALSE
