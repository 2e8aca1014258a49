SPECIFICATION Spec
CONSTANTS
    Database <- SmallDatabase
    Statement <- SmallStatement
    Failed = Failed
    Apply <- SmallApply
    Candidate <- SmallCandidate
    Unseeded <- Empty
    Baseline <- Seeded
    Schema <- SmallSchema
    Kept <- SmallKept
    LegacyPasses <- SmallLegacy
    Reversal <- SmallReversal
    UndoOf <- SmallUndo
    Risk = {"low", "heuristic", "critical"}
    Timeout = {"restore", "seed", "candidate", "legacy", "metadata", "inverse", "prefix", "retry"}
INVARIANTS
    TypeOK
    VerdictSound
    VerdictComplete
    ReversalHonest
CHECK_DEADLOCK FALSE
