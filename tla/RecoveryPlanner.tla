--------------------------- MODULE RecoveryPlanner ---------------------------
(***************************************************************************)
(* RecoveryPlanner: the plan a set of findings leads to.  The provider's   *)
(* answer, or the deterministic template when there is none, is a sequence *)
(* of SQL items, each of one or more statements, and of assertions; both   *)
(* go through the same policy.  What the statements do, and which of them  *)
(* the policy admits, is left to the instance.                             *)
(***************************************************************************)
EXTENDS SandboxDatabase
LOCAL INSTANCE SequencesExt

CONSTANTS
    Answer,         \* what the provider may answer: records of SQL items and assertions
    NoPlan,         \* no answer, or no plan
    Flagged,        \* the statements in which the rules find a risk
    Required,       \* of these, the ones that add a required column without a default
    Legible,        \* of these, the ones in whose redacted shape the template finds a
                    \* plain table, column and type
    Admissible(_),  \* the policy lets a statement pass
    ReadOnly(_),    \* an assertion is one SELECT statement
    Expand(_), Backfill(_), SetDefault(_), Enforce(_),
                    \* the statements the template makes for a required column
    NoNulls(_)      \* and its assertion

ASSUME PlannerAssumption ==
    /\ NoPlan \notin Answer
    /\ Legible \subseteq Required /\ Required \subseteq Flagged /\ Flagged \subseteq Statement

\* Every phase asserts that the column holds no NULL: all of them are evaluated at the end.
Template(s) ==
    [sql    |-> << <<Expand(s)>>, <<Backfill(s)>>, <<SetDefault(s)>>, <<Enforce(s)>> >>,
     checks |-> <<NoNulls(s), NoNulls(s), NoNulls(s)>>]

\* The statement that adds a script's first required column, if the template can read it.
Readable(script) ==
    {script[i] : i \in {i \in DOMAIN script :
        script[i] \in Legible /\ \A j \in 1 .. i - 1 : script[j] \notin Required}}

\* Mutant: the constraint is enforced before the rows are filled.
FallbackEnforcingFirst(script) ==
    IF Readable(script) = {} THEN NoPlan
    ELSE LET s == CHOOSE s \in Readable(script) : TRUE
         IN  [Template(s) EXCEPT !.sql =
                << <<Expand(s)>>, <<SetDefault(s)>>, <<Enforce(s)>>, <<Backfill(s)>> >>]

\* The template treats the first required column only, whatever else there is.
Fallback(script) ==
    IF Readable(script) = {} THEN NoPlan
    ELSE Template(CHOOSE s \in Readable(script) : TRUE)

Accepted(payload) ==
    /\ payload.sql # <<>> /\ payload.checks # <<>>
    /\ \A i \in DOMAIN payload.sql :
         payload.sql[i] # <<>> /\ \A s \in ToSet(payload.sql[i]) : Admissible(s)
    /\ \A c \in ToSet(payload.checks) : ReadOnly(c)

\* An answer that the policy refuses is not replaced by the template.
Generate(answer, script) ==
    LET payload == IF answer = NoPlan THEN Fallback(script) ELSE answer
    IN  IF payload # NoPlan /\ Accepted(payload) /\ ToSet(script) \cap Flagged # {}
        THEN payload ELSE NoPlan

\* All the plans a migration may be given.
PlansFor(script) == {Generate(a, script) : a \in Answer \union {NoPlan}} \ {NoPlan}
=============================================================================
