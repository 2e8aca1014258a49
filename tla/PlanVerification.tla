-------------------------- MODULE PlanVerification --------------------------
(***************************************************************************)
(* One run of SimulationEngine.verify_plan: the candidate defines the      *)
(* target schema on an empty baseline; the plan has to reach it on a       *)
(* seeded one with the data kept, its assertions true and the old queries  *)
(* answered, and to reach it again after an interruption between any two   *)
(* of its items.  The service then verifies or rejects the plan.           *)
(*                                                                         *)
(* As in CandidateSimulation, a step is one experiment, any execution may  *)
(* be cut short and any call to the sandbox may raise.                     *)
(***************************************************************************)
EXTENDS Evidence, RecoveryPlanner
Seqs == INSTANCE SequencesExt

CONSTANTS
    Candidate,          \* candidate migrations: sequences of statements
    Assertion,          \* the assertions of plans
    Unseeded,           \* the database after the prior migrations
    Baseline,           \* the same with the synthetic fixtures
    Compatible(_),      \* the schema a snapshot shows, without the defaults of columns
    Kept(_),            \* the rows and values it shows of the baseline's columns
    Contents(_),        \* the same, and the number of rows of every other table
    LegacyPasses(_),    \* the old application's queries answer as expected
    Holds(_, _)         \* an assertion reports no violation

Execution == {"restore", "candidate", "plan", "assertion", "legacy", "prefix", "retry"}

Payload == [sql : Seq(Seq(Statement)), checks : Seq(Assertion)]

ASSUME VerificationAssumption ==
    /\ Candidate \subseteq Seq(Statement)
    /\ Answer \subseteq Payload
    /\ \A s \in Legible : Template(s) \in Payload
    /\ Unseeded \in Database /\ Baseline \in Database
    /\ Timeout \subseteq Execution

\* A statement has nothing left to do.
Moot(p, db) == Apply(p, db) = db

\* The template's statements, in order, and the databases they lead to.
Statements(s) == <<Expand(s), Backfill(s), SetDefault(s), Enforce(s)>>

Reached(s) == {Execute(Statements(s), k, db).db : k \in 0..4, db \in {Unseeded, Baseline}}

\* What PostgreSQL makes of these statements, where the policy admits neither functions nor
\* triggers.  Each is harmless when it is repeated or comes after another one; what it does
\* to the schema depends on the schema alone; and nothing of the baseline is in a column
\* the baseline lacks.  A column that is there and filled can be required, and a default
\* that has filled a new one can be its default.
ASSUME TemplateAssumption ==
    /\ Compatible(Unseeded) = Compatible(Baseline)
    /\ \A s \in Legible : \A db \in Reached(s) :
         /\ \A i \in 1..4 :
              LET p     == Statements(s)[i]
                  after == Apply(p, db)
              IN  after # Failed =>
                    /\ Moot(p, after)
                    /\ \A j \in 1..4 :
                         Moot(Statements(s)[j], db) => Moot(Statements(s)[j], after)
                    /\ \A other \in Reached(s) :
                         Compatible(other) = Compatible(db) /\ Apply(p, other) # Failed
                         => Compatible(Apply(p, other)) = Compatible(after)
                    /\ ~Moot(Expand(s), Baseline) => Kept(after) = Kept(db)
         /\ Moot(Expand(s), db) /\ Moot(Backfill(s), db) =>
              /\ ~Moot(Expand(s), Baseline) => Apply(SetDefault(s), db) # Failed
              /\ Apply(Enforce(s), db) # Failed /\ Holds(NoNulls(s), db)

VARIABLES
    bundle,     \* the migration, and whether its prior migrations and fixtures work
    plan,       \* the plan to verify
    pc,         \* the next experiment
    target,     \* the database after the candidate, without fixtures
    result,     \* the database after the plan
    dimensions, \* the status of each evidence dimension
    runs,       \* the interruptions so far: boundary b is runs[b + 1]
    verdict,    \* "none" until the service has judged
    cut         \* history: the executions that were cut short

vars == <<bundle, plan, pc, target, result, dimensions, runs, verdict, cut>>

Bundle == [script : Candidate, replays : BOOLEAN, seeds : BOOLEAN]

TypeOK ==
    /\ bundle \in Bundle
    /\ plan \in Payload
    /\ pc \in {"target", "restore", "apply", "examine", "inject", "judge", "done"}
    /\ target \in Database /\ result \in Database
    /\ dimensions \in [Dimension -> EvidenceStatus]
    /\ runs \in Seq({"PASS", "FAIL"})
    /\ verdict \in {"none", "VERIFIED_FOR_REVIEW", "UNSAFE", "ERROR"}
    /\ cut \subseteq Timeout

Init ==
    /\ bundle \in Bundle
    /\ plan \in PlansFor(bundle.script)
    /\ pc = "target"
    /\ target = Unseeded /\ result = Unseeded
    /\ dimensions = Untested
    /\ runs = <<>>
    /\ verdict = "none"
    /\ cut = {}

----------------------------------------------------------------------------
(* Helpers *)

Size == Len(plan.sql)

\* The statements of the first b items.
Through(b) == Seqs!FlattenSeq(SubSeq(plan.sql, 1, b))

Run(statements, db) == Execute(statements, Len(statements), db)

Try(kind, statements, db) == Attempt(kind, statements, Len(statements), db)

Set(changes) == dimensions' = Recorded(dimensions, changes)

\* An assertion that is cut short fails, whatever it would have reported.
Asserted(db) == \A c \in Seqs!ToSet(plan.checks) : Holds(c, db)

----------------------------------------------------------------------------
(* Experiments *)

TargetNotRestored ==
    /\ pc = "target"
    /\ \/ ~bundle.replays /\ UNCHANGED cut
       \/ "restore" \in Timeout /\ cut' = cut \union {"restore"}
    /\ Set([prior_migrations |-> "FAIL"])
    /\ pc' = "judge"
    /\ UNCHANGED <<bundle, plan, target, result, runs, verdict>>

BuildTarget ==
    /\ pc = "target" /\ bundle.replays
    /\ \E r \in Try("candidate", bundle.script, Unseeded) :
         /\ target' = r.db
         /\ cut' = cut \union Noting("candidate", r.cut)
         /\ IF r.ok
            THEN pc' = "restore" /\ UNCHANGED dimensions
            ELSE /\ pc' = "judge"
                 /\ Set([prior_migrations |-> "PASS", schema_application |-> "FAIL"])
    /\ UNCHANGED <<bundle, plan, result, runs, verdict>>

\* A fixture that does not load counts against the prior migrations here.
RestoreBaseline ==
    /\ pc = "restore"
    /\ \E isCut \in MayCut("restore") :
         /\ cut' = cut \union Noting("restore", isCut)
         /\ IF bundle.seeds /\ ~isCut
            THEN /\ Set([prior_migrations |-> "PASS", fixture_load |-> "PASS"])
                 /\ pc' = "apply"
            ELSE /\ Set([prior_migrations |-> "FAIL"])
                 /\ pc' = "judge"
    /\ UNCHANGED <<bundle, plan, target, result, runs, verdict>>

ApplyPlan ==
    /\ pc = "apply"
    /\ \E r \in Try("plan", Through(Size), Baseline) :
         /\ result' = r.db
         /\ cut' = cut \union Noting("plan", r.cut)
         /\ IF r.ok
            THEN pc' = "examine" /\ UNCHANGED dimensions
            ELSE /\ pc' = "judge"
                 /\ Set([schema_application |-> "FAIL", data_preservation |-> "FAIL"])
    /\ UNCHANGED <<bundle, plan, target, runs, verdict>>

\* The snapshots, the assertions and the old queries.  The interruptions are tried
\* only if all of these agree.
Examine ==
    /\ pc = "examine"
    /\ \E assertionCut \in MayCut("assertion"), legacyCut \in MayCut("legacy") :
         \E answered \in IF legacyCut THEN BOOLEAN ELSE {LegacyPasses(result)} :
           LET asserted == Asserted(result) /\ ~assertionCut
               verified == Compatible(result) = Compatible(target) /\ asserted
               kept     == Kept(result) = Kept(Baseline)
               legacy   == answered /\ asserted
               proceed  == verified /\ kept /\ legacy
               unproven == IF proceed THEN "NOT_TESTED" ELSE "FAIL"
           IN  /\ Set([schema_application |-> Status(verified),
                       data_preservation  |-> Status(kept),
                       legacy_queries     |-> Status(legacy),
                       failure_recovery   |-> unproven,
                       idempotent_retry   |-> unproven])
               /\ pc' = IF proceed THEN "inject" ELSE "judge"
               /\ cut' = cut \union Noting("assertion", assertionCut)
                             \union Noting("legacy", legacyCut)
    /\ UNCHANGED <<bundle, plan, target, result, runs, verdict>>

\* Mutant: as after the candidate, the rows are not compared.
MatchesSchemaOnly(r) == r.ok /\ Compatible(r.db) = Compatible(result)

\* The retry, the schema and the rows it leaves decide whether it matches.
Matches(r) ==
    /\ r.ok
    /\ Compatible(r.db) = Compatible(result)
    /\ Contents(r.db) = Contents(result)

InjectFailure ==
    /\ pc = "inject" /\ Len(runs) <= Size
    /\ \E p \in Try("prefix", Through(Len(runs)), Baseline) :
         \E r \in Try("retry", Through(Size), p.db) :
            /\ runs' = Append(runs, Status(Matches(r)))
            /\ cut' = cut \union Noting("prefix", p.cut) \union Noting("retry", r.cut)
    /\ UNCHANGED <<bundle, plan, pc, target, result, dimensions, verdict>>

InjectNotRestored ==
    /\ pc = "inject" /\ Len(runs) <= Size
    /\ "restore" \in Timeout
    /\ runs' = Append(runs, "FAIL")
    /\ cut' = cut \union {"restore"}
    /\ UNCHANGED <<bundle, plan, pc, target, result, dimensions, verdict>>

AllInjected ==
    /\ pc = "inject" /\ Len(runs) = Size + 1
    /\ LET recovered == Status(\A i \in 1..Len(runs) : runs[i] = "PASS")
       IN  Set([failure_recovery |-> recovered, idempotent_retry |-> recovered])
    /\ pc' = "judge"
    /\ UNCHANGED <<bundle, plan, target, result, runs, verdict, cut>>

----------------------------------------------------------------------------
(* The verdict *)

\* Mutant: every dimension counts, the reversal that is never tried included.
MandatoryAll == Dimension

\* A generated plan need not be reversible.
Mandatory == Dimension \ {"rollback_recovery"}

Passed == \A d \in Mandatory : dimensions[d] = "PASS"

Judge ==
    /\ pc = "judge"
    /\ verdict' = IF Passed THEN "VERIFIED_FOR_REVIEW" ELSE "UNSAFE"
    /\ pc' = "done"
    /\ UNCHANGED <<bundle, plan, target, result, dimensions, runs, cut>>

\* No slot is free, PostgreSQL cannot be started or stopped, the total time is over, a
\* snapshot shows too many rows: the plan stays unverified.
SandboxError ==
    /\ pc # "done"
    /\ verdict' = "ERROR"
    /\ pc' = "done"
    /\ UNCHANGED <<bundle, plan, target, result, dimensions, runs, cut>>

Next ==
    \/ TargetNotRestored \/ BuildTarget \/ RestoreBaseline \/ ApplyPlan \/ Examine
    \/ InjectFailure \/ InjectNotRestored \/ AllInjected \/ Judge \/ SandboxError

Spec == Init /\ [][Next]_vars

----------------------------------------------------------------------------
(* What the experiments would show if none of them were cut short *)

Intended == Run(bundle.script, Unseeded)
Planned == Run(Through(Size), Baseline)

\* Running the whole plan again after the first b items leads to what it leads to
\* alone: the schema, the baseline's values and the number of rows.
Resumes(b) ==
    LET retry == Run(Through(Size), Run(Through(b), Baseline).db)
    IN  /\ retry.ok
        /\ Compatible(retry.db) = Compatible(Planned.db)
        /\ Contents(retry.db) = Contents(Planned.db)

\* The plan does on the seeded baseline what the candidate does on an empty one.
Fulfils ==
    /\ Planned.ok
    /\ Compatible(Planned.db) = Compatible(Intended.db)
    /\ Asserted(Planned.db)
    /\ Kept(Planned.db) = Kept(Baseline)

----------------------------------------------------------------------------
(* Properties *)

\* A verified plan has earned it, although executions may be cut short at any
\* statement: it reaches the candidate's schema on seeded data and keeps the data, its
\* assertions hold, and the old queries pass and a retry after every item repeats
\* nothing, as far as they really were replayed and interrupted.
PlanSound ==
    verdict = "VERIFIED_FOR_REVIEW" =>
        /\ bundle.replays /\ bundle.seeds /\ Intended.ok
        /\ Fulfils
        /\ "legacy" \notin cut => LegacyPasses(Planned.db)
        /\ "prefix" \notin cut => \A b \in 0..Size : Resumes(b)

\* A plan is not rejected without a reason: if nothing was cut short, one of the
\* experiments really goes wrong.
PlanComplete ==
    verdict = "UNSAFE" /\ cut = {} =>
        \/ ~bundle.replays \/ ~bundle.seeds \/ ~Intended.ok
        \/ ~Fulfils
        \/ ~LegacyPasses(Planned.db)
        \/ \E b \in 0..Size : ~Resumes(b)

\* The template is of use: for a migration that only adds a required column the baseline
\* lacks, whose transitional default suits the column's type and which the old queries
\* tolerate, the deterministic plan is verified unless something is cut short or raises.
TemplateVerifies ==
    \A s \in Legible :
        LET empty == Run(Seqs!FlattenSeq(Template(s).sql), Unseeded)
        IN  /\ bundle = [script |-> <<s>>, replays |-> TRUE, seeds |-> TRUE]
            /\ plan = Generate(NoPlan, <<s>>)
            /\ ~Moot(Expand(s), Baseline)
            /\ Run(<<Expand(s), Backfill(s)>>, Baseline).ok
            /\ Planned.ok => LegacyPasses(Planned.db)
            /\ Intended.ok
            /\ empty.ok /\ Compatible(empty.db) = Compatible(Intended.db)
            /\ cut = {}
            => verdict # "UNSAFE"
=============================================================================
