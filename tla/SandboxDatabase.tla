--------------------------- MODULE SandboxDatabase ---------------------------
(***************************************************************************)
(* What psql does with a SQL script in the disposable PostgreSQL database  *)
(* of a simulation.  Which databases and statements there are, and what a  *)
(* statement does, is left to the instance.                                *)
(***************************************************************************)
EXTENDS Naturals, Sequences

CONSTANTS
    Database,       \* states of the database
    Statement,      \* statements of a script
    Failed,         \* not a database: the statement is refused
    Apply(_, _)     \* the database after a statement, or Failed

ASSUME SandboxAssumption ==
    /\ Failed \notin Database
    /\ \A s \in Statement, db \in Database : Apply(s, db) \in Database \union {Failed}

\* ON_ERROR_STOP: nothing is executed after a statement that failed.
Advance(result, s) ==
    LET next == Apply(s, result.db)
    IN  IF ~result.ok \/ next = Failed
        THEN [result EXCEPT !.ok = FALSE]
        ELSE [result EXCEPT !.db = next]

\* The first k statements of a script, each committed as it succeeds: the SQL policy
\* admits no BEGIN and no COMMIT.
Execute(script, k, db) ==
    LET after[i \in 0..k] ==
            IF i = 0 THEN [db |-> db, ok |-> TRUE] ELSE Advance(after[i - 1], script[i])
    IN  after[k]

\* What may come of it when a time limit may cut it short at any statement: the
\* execution then counts as failed, whatever the database holds.
Results(script, k, db, mayCut) ==
    {[db |-> Execute(script, k, db).db, ok |-> Execute(script, k, db).ok, cut |-> FALSE]}
    \union {[db |-> Execute(script, j, db).db, ok |-> FALSE, cut |-> TRUE] :
               j \in IF mayCut THEN 0..k ELSE {}}
=============================================================================
