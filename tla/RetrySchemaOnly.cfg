SPECIFICATION Spec
CONSTANTS
    Database <- SmallDatabase
    Statement <- SmallStatement
    Failed = Failed
    Apply <- SmallApply
    Candidate <- SmallCandidate
    Unseeded <- Empty
    Baseline <- Seeded
    Schema <- SmallSchema
    Kept <- SmallKept
    LegacyPasses <- SmallLegacy
    Reversal <- SmallReversal
    UndoOf <- SmallUndo
    Risk = {"low"}
    Timeout = {}
INVARIANTS
    RetryReachesTarget
CHECK_DEADLOCK FALSE
