------------------------------ MODULE Evidence ------------------------------
(***************************************************************************)
(* What the two simulations have in common: the dimensions of the evidence *)
(* and executions in the sandbox that a time limit may cut short.          *)
(***************************************************************************)
EXTENDS SandboxDatabase

CONSTANT Timeout    \* the kinds of execution that a time limit may cut short

Dimension == {"prior_migrations", "fixture_load", "schema_application",
              "data_preservation", "legacy_queries", "rollback_recovery",
              "failure_recovery", "idempotent_retry"}

EvidenceStatus == {"PASS", "FAIL", "NOT_TESTED"}

\* Mutant: an experiment that fails is recorded as not tested.
StatusUntested(holds) == IF holds THEN "PASS" ELSE "NOT_TESTED"

Status(holds) == IF holds THEN "PASS" ELSE "FAIL"

Untested == [d \in Dimension |-> "NOT_TESTED"]

Recorded(dimensions, changes) ==
    [d \in Dimension |-> IF d \in DOMAIN changes THEN changes[d] ELSE dimensions[d]]

MayCut(kind) == IF kind \in Timeout THEN BOOLEAN ELSE {FALSE}

Noting(kind, isCut) == IF isCut THEN {kind} ELSE {}

\* The outcomes of the first k statements of a script on a database.
Attempt(kind, script, k, db) == Results(script, k, db, kind \in Timeout)
=============================================================================
