------------------------- MODULE CandidateSimulation -------------------------
(***************************************************************************)
(* One run of SimulationEngine: the candidate migration is applied to a    *)
(* seeded baseline, replayed against the old application's queries,        *)
(* reversed, and interrupted and retried at every statement boundary; the  *)
(* service then turns the evidence dimensions into a verdict.              *)
(*                                                                         *)
(* A step is one experiment.  Every execution in the sandbox has a time    *)
(* limit, so any of them may be cut short although it would have           *)
(* succeeded; every call to the sandbox may also raise.                    *)
(***************************************************************************)
EXTENDS Evidence, FiniteSets
LOCAL INSTANCE SequencesExt

CONSTANTS
    Candidate,          \* candidate migrations: sequences of statements
    Unseeded,           \* the database after the prior migrations
    Baseline,           \* the same with the synthetic fixtures
    Schema(_),          \* the schema a snapshot shows
    Kept(_),            \* the rows and values a snapshot shows of the baseline's columns
    LegacyPasses(_),    \* the old application's queries answer as expected
    Reversal(_),        \* what _generate_inverse finds for a statement
    UndoOf(_),          \* the statements that undo it, if it finds any
    Risk                \* the gravest findings of the static analysis

Execution == {"restore", "seed", "candidate", "legacy", "metadata", "inverse",
              "prefix", "retry"}

ASSUME SimulationAssumption ==
    /\ Candidate \subseteq Seq(Statement)
    /\ Unseeded \in Database /\ Baseline \in Database
    /\ \A s \in Statement :
         Reversal(s) \in {"SCRIPT", "METADATA", "EXTERNALLY_RECOVERABLE_ONLY",
                          "NOT_APPLICABLE"}
    /\ Risk \subseteq {"low", "heuristic", "high", "critical"}
    /\ Timeout \subseteq Execution

VARIABLES
    bundle,     \* the migration, its gravest finding, and whether the engine takes
                \* it and its prior migrations and fixtures work at all
    pc,         \* the next experiment
    target,     \* the database after the candidate's normal application
    dimensions, \* the status of each evidence dimension
    rollback,   \* how the reversal was classified
    runs,       \* the interruptions so far: boundary b is runs[b + 1]
    verdict,    \* "none" until the service has judged
    cut         \* history: the executions that were cut short

vars == <<bundle, pc, target, dimensions, rollback, runs, verdict, cut>>

Bundle == [script : Candidate, risk : Risk, supported : BOOLEAN,
           replays : BOOLEAN, seeds : BOOLEAN]

RecoveryClassification ==
    {"none", "FULLY_REVERSIBLE", "SCHEMA_REVERSIBLE", "FORWARD_FIX_REQUIRED",
     "EXTERNALLY_RECOVERABLE_ONLY", "NOT_APPLICABLE"}

\* Whether the retry after an interruption counts as recovered; and, as history,
\* whether it left exactly the target.
Interruption == [status : {"PASS", "FAIL"}, exact : BOOLEAN]

TypeOK ==
    /\ bundle \in Bundle
    /\ pc \in {"replay", "seed", "apply", "legacy", "rollback", "inject", "reapply",
               "judge", "done"}
    /\ target \in Database
    /\ dimensions \in [Dimension -> EvidenceStatus]
    /\ rollback \in RecoveryClassification
    /\ runs \in Seq(Interruption)
    /\ verdict \in {"none", "UNSAFE", "CONDITIONALLY_VERIFIED", "VERIFIED_FOR_REVIEW",
                    "INSUFFICIENT_EVIDENCE", "ERROR"}
    /\ cut \subseteq Timeout

Init ==
    /\ bundle \in Bundle
    /\ pc = "replay"
    /\ target = Unseeded
    /\ dimensions = Untested
    /\ rollback = "none"
    /\ runs = <<>>
    /\ verdict = "none"
    /\ cut = {}

----------------------------------------------------------------------------
(* Helpers *)

script == bundle.script
Size == Len(script)

Set(changes) == dimensions' = Recorded(dimensions, changes)

\* The last statement for which _generate_inverse, scanning from the end, finds no
\* inverse; 0 if it finds one for each.
Blocking(known) ==
    LET blocked == {i \in 1..Size : Reversal(script[i]) \notin known}
    IN  IF blocked = {} THEN 0 ELSE CHOOSE i \in blocked : \A j \in blocked : j <= i

\* The generated reversal: the inverse of every statement, the last one first.
Undo(statements) == FoldLeft(LAMBDA undo, s : UndoOf(s) \o undo, <<>>, statements)

----------------------------------------------------------------------------
(* Experiments *)

\* The engine takes only complete PostgreSQL bundles.
Skip ==
    /\ pc = "replay" /\ ~bundle.supported
    /\ pc' = "judge"
    /\ UNCHANGED <<bundle, target, dimensions, rollback, runs, verdict, cut>>

Replay ==
    /\ pc = "replay" /\ bundle.supported
    /\ \E isCut \in MayCut("restore") :
         LET holds == bundle.replays /\ ~isCut
         IN  /\ Set([prior_migrations |-> Status(holds)])
             /\ pc' = IF holds THEN "seed" ELSE "judge"
             /\ cut' = cut \union Noting("restore", isCut)
    /\ UNCHANGED <<bundle, target, rollback, runs, verdict>>

Seed ==
    /\ pc = "seed"
    /\ \E isCut \in MayCut("seed") :
         LET holds == bundle.seeds /\ ~isCut
         IN  /\ Set([fixture_load |-> Status(holds)])
             /\ pc' = IF holds THEN "apply" ELSE "judge"
             /\ target' = IF holds THEN Baseline ELSE target
             /\ cut' = cut \union Noting("seed", isCut)
    /\ UNCHANGED <<bundle, rollback, runs, verdict>>

ApplyCandidate ==
    /\ pc = "apply"
    /\ \E r \in Attempt("candidate", script, Size, target) :
         /\ target' = r.db
         /\ Set([schema_application |-> Status(r.ok),
                 data_preservation |-> Status(r.ok /\ Kept(r.db) = Kept(Baseline))])
         /\ pc' = IF r.ok THEN "legacy" ELSE "reapply"
         /\ cut' = cut \union Noting("candidate", r.cut)
    /\ UNCHANGED <<bundle, rollback, runs, verdict>>

\* A query that is cut short counts as failed, which may be what was expected of it.
ReplayLegacy ==
    /\ pc = "legacy"
    /\ \E isCut \in MayCut("legacy") :
         \E holds \in IF isCut THEN BOOLEAN ELSE {LegacyPasses(target)} :
            /\ Set([legacy_queries |-> Status(holds)])
            /\ cut' = cut \union Noting("legacy", isCut)
    /\ pc' = "rollback"
    /\ UNCHANGED <<bundle, target, rollback, runs, verdict>>

RollbackUnsupported ==
    /\ pc = "rollback"
    /\ \E isCut \in MayCut("metadata") :
         LET known == IF isCut THEN {"SCRIPT"} ELSE {"SCRIPT", "METADATA"}
             found == Reversal(script[Blocking(known)])
         IN  /\ Blocking(known) # 0
             /\ rollback' = IF found = "METADATA" THEN "EXTERNALLY_RECOVERABLE_ONLY" ELSE found
             /\ Set([rollback_recovery |->
                       IF found = "NOT_APPLICABLE" THEN "NOT_TESTED" ELSE "FAIL"])
             /\ cut' = cut \union Noting("metadata", found = "METADATA")
    /\ pc' = "inject"
    /\ UNCHANGED <<bundle, target, runs, verdict>>

RollbackNotRestored ==
    /\ pc = "rollback"
    /\ "restore" \in Timeout
    /\ Set([rollback_recovery |-> "FAIL"])
    /\ cut' = cut \union {"restore"}
    /\ pc' = "inject"
    /\ UNCHANGED <<bundle, target, rollback, runs, verdict>>

\* Mutant: a reversal that executes counts as restored.
RestoredIfExecuted(r) == r.ok

\* The schema decides whether the reversal succeeded; the contents only refine that.
Restored(r) == r.ok /\ Schema(r.db) = Schema(Baseline)

RollbackTried ==
    /\ pc = "rollback"
    /\ Blocking({"SCRIPT", "METADATA"}) = 0
    /\ \E c \in Attempt("candidate", script, Size, Baseline) :
         \E u \in Attempt("inverse", Undo(script), Len(Undo(script)), c.db) :
            LET restored == c.ok /\ Restored(u)
            IN  /\ rollback' = IF ~restored THEN "FORWARD_FIX_REQUIRED"
                               ELSE IF Kept(u.db) = Kept(Baseline) THEN "FULLY_REVERSIBLE"
                               ELSE "SCHEMA_REVERSIBLE"
                /\ Set([rollback_recovery |-> Status(restored)])
                /\ cut' = cut \union Noting("candidate", c.cut)
                              \union Noting("inverse", c.ok /\ u.cut)
    /\ pc' = "inject"
    /\ UNCHANGED <<bundle, target, runs, verdict>>

\* Mutant: the failure of the retry itself is overlooked.
MatchesSchemaOnly(r) == Schema(r.db) = Schema(target)

\* Only the retry and the schema it leaves decide whether it matches.
Matches(r) == r.ok /\ Schema(r.db) = Schema(target)

InjectFailure ==
    /\ pc = "inject" /\ Len(runs) <= Size
    /\ \E p \in Attempt("prefix", script, Len(runs), Baseline) :
         \E r \in Attempt("retry", script, Size, p.db) :
            /\ runs' = Append(runs, [status |-> Status(Matches(r)), exact |-> r.db = target])
            /\ cut' = cut \union Noting("prefix", p.cut) \union Noting("retry", r.cut)
    /\ UNCHANGED <<bundle, pc, target, dimensions, rollback, verdict>>

\* The run is recorded as failed, and the next boundary is tried.
InjectNotRestored ==
    /\ pc = "inject" /\ Len(runs) <= Size
    /\ "restore" \in Timeout
    /\ runs' = Append(runs, [status |-> "FAIL", exact |-> FALSE])
    /\ cut' = cut \union {"restore"}
    /\ UNCHANGED <<bundle, pc, target, dimensions, rollback, verdict>>

AllInjected ==
    /\ pc = "inject" /\ Len(runs) = Size + 1
    /\ LET recovered == Status(\A i \in 1..Len(runs) : runs[i].status = "PASS")
       IN  Set([failure_recovery |-> recovered, idempotent_retry |-> recovered])
    /\ pc' = "judge"
    /\ UNCHANGED <<bundle, target, rollback, runs, verdict, cut>>

\* A candidate that failed is tried once more from a clean baseline.
Reapply ==
    /\ pc = "reapply"
    /\ \/ \E r \in Attempt("retry", script, Size, Baseline) :
            /\ Set([failure_recovery |-> Status(r.ok), idempotent_retry |-> Status(r.ok)])
            /\ cut' = cut \union Noting("retry", r.cut)
       \/ /\ "restore" \in Timeout
          /\ Set([failure_recovery |-> "FAIL", idempotent_retry |-> "FAIL"])
          /\ cut' = cut \union {"restore"}
    /\ pc' = "judge"
    /\ UNCHANGED <<bundle, target, rollback, runs, verdict>>

----------------------------------------------------------------------------
(* The verdict *)

Some(status) == \E d \in Dimension : dimensions[d] = status

\* Mutant: what was not tested counts against the candidate.
CandidateVerdictUntestedUnsafe ==
    IF Some("FAIL") \/ Some("NOT_TESTED") \/ bundle.risk = "critical" THEN "UNSAFE"
    ELSE IF bundle.risk \in {"high", "heuristic"} THEN "CONDITIONALLY_VERIFIED"
    ELSE "VERIFIED_FOR_REVIEW"

\* A finding is confirmed by the candidate's error only, and then some dimension
\* has failed: "high and confirmed" needs no case of its own.
CandidateVerdict ==
    IF Some("FAIL") \/ bundle.risk = "critical" THEN "UNSAFE"
    ELSE IF Some("NOT_TESTED") THEN "INSUFFICIENT_EVIDENCE"
    ELSE IF bundle.risk \in {"high", "heuristic"} THEN "CONDITIONALLY_VERIFIED"
    ELSE "VERIFIED_FOR_REVIEW"

Judge ==
    /\ pc = "judge"
    /\ verdict' = CandidateVerdict
    /\ pc' = "done"
    /\ UNCHANGED <<bundle, target, dimensions, rollback, runs, cut>>

\* No slot is free, or PostgreSQL cannot be started.
SandboxUnavailable ==
    /\ pc = "replay" /\ bundle.supported
    /\ verdict' = "INSUFFICIENT_EVIDENCE"
    /\ pc' = "done"
    /\ UNCHANGED <<bundle, target, dimensions, rollback, runs, cut>>

\* A call to the sandbox raises: the total time is over, too many rows, psql fails; or
\* PostgreSQL does not stop in time when everything has been tested.
SandboxError ==
    /\ pc # "done"
    /\ bundle.supported
    /\ verdict' = "ERROR"
    /\ pc' = "done"
    /\ UNCHANGED <<bundle, target, dimensions, rollback, runs, cut>>

Next ==
    \/ Skip \/ Replay \/ Seed \/ ApplyCandidate \/ ReplayLegacy
    \/ RollbackUnsupported \/ RollbackNotRestored \/ RollbackTried
    \/ InjectFailure \/ InjectNotRestored \/ AllInjected
    \/ Reapply \/ Judge \/ SandboxUnavailable \/ SandboxError

Spec == Init /\ [][Next]_vars

----------------------------------------------------------------------------
(* What the experiments would show if none of them were cut short *)

Applied == Execute(script, Size, Baseline)

\* The candidate's normal application works and keeps the rows and the values.
AppliesSafely == Applied.ok /\ Kept(Applied.db) = Kept(Baseline)

Reversed == Execute(Undo(script), Len(Undo(script)), Applied.db)

\* Each statement has an inverse and together they restore the schema.
Reverses ==
    /\ Blocking({"SCRIPT", "METADATA"}) = 0
    /\ Reversed.ok
    /\ Schema(Reversed.db) = Schema(Baseline)

\* It is known what to run, or that nothing can be run, and it does not restore the
\* schema; a migration the engine cannot judge is not irreversible.
Irreversible ==
    LET blocking == Blocking({"SCRIPT", "METADATA"})
    IN  ~Reverses /\ (blocking = 0 \/ Reversal(script[blocking]) # "NOT_APPLICABLE")

\* After an interruption at boundary b, running the whole script again leads to the
\* target's schema.
RetriesAfter(b) ==
    LET retry == Execute(script, Size, Execute(script, b, Baseline).db)
    IN  retry.ok /\ Schema(retry.db) = Schema(Applied.db)

Favourable == {"VERIFIED_FOR_REVIEW", "CONDITIONALLY_VERIFIED"}

----------------------------------------------------------------------------
(* Properties *)

\* A favourable verdict is earned although executions may be cut short at any
\* statement: prior migrations and fixtures work, the candidate applies and keeps
\* the data, its reversal restores the schema, and a retry works after every
\* interruption and the old queries pass, as far as they really were interrupted
\* and replayed.
VerdictSound ==
    verdict \in Favourable =>
        /\ bundle.replays /\ bundle.seeds /\ bundle.risk # "critical"
        /\ AppliesSafely
        /\ Reverses
        /\ "prefix" \notin cut => \A b \in 0..Size : RetriesAfter(b)
        /\ "legacy" \notin cut => LegacyPasses(Applied.db)

\* UNSAFE is never a false alarm of the engine: if nothing was cut short, one of
\* the experiments really goes wrong or a finding is critical.
VerdictComplete ==
    verdict = "UNSAFE" /\ cut = {} =>
        \/ ~bundle.replays \/ ~bundle.seeds \/ bundle.risk = "critical"
        \/ ~AppliesSafely
        \/ Irreversible
        \/ ~LegacyPasses(Applied.db)
        \/ \E b \in 0..Size : ~RetriesAfter(b)

\* A reversal is classified by what it restores: the schema and the data, and not
\* one of the two only.
ReversalHonest ==
    rollback \in {"FULLY_REVERSIBLE", "SCHEMA_REVERSIBLE"} =>
        /\ Reverses
        /\ rollback = "FULLY_REVERSIBLE" <=> Kept(Reversed.db) = Kept(Baseline)

\* "Retry succeeds only when the resulting state matches the target."
RetryReachesTarget ==
    \A i \in 1..Len(runs) : runs[i].status = "PASS" => runs[i].exact
=============================================================================
