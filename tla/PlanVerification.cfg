SPECIFICATION Spec
CONSTANTS
    Database <- SmallDatabase
    Statement <- SmallStatement
    Failed = Failed
    Apply <- SmallApply
    Answer <- SmallAnswer
    NoPlan = NoPlan
    Flagged <- SmallFlagged
    Required <- AddRequired
    Legible <- AddRequired
    Admissible <- SmallAdmissible
    ReadOnly <- SmallReadOnly
    Expand <- SmallExpand
    Backfill <- SmallBackfill
    SetDefault <- SmallSetDefault
    Enforce <- SmallEnforce
    NoNulls <- SmallNoNulls
    Candidate <- SmallCandidate
    Unseeded <- Empty
    Baseline <- Seeded
    Compatible <- SmallCompatible
    Kept <- SmallKept
    Contents <- SmallContents
    LegacyPasses <- SmallLegacy
    Holds <- SmallHolds
    Assertion <- SmallAssertion
    Timeout = {"restore", "candidate", "plan", "assertion", "legacy", "prefix", "retry"}
INVARIANTS
    TypeOK
    PlanSound
    PlanComplete
    TemplateVerifies
CHECK_DEADLOCK FALSE
