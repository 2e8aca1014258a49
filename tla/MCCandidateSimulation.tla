------------------------ MODULE MCCandidateSimulation ------------------------
(***************************************************************************)
(* A small PostgreSQL for TLC: one baseline table with one column the old  *)
(* application reads, a new column, a default, a constraint, and a second  *)
(* table.  The statements are one of each kind that differs in what it     *)
(* does when it is repeated and in what _generate_inverse makes of it.     *)
(***************************************************************************)
EXTENDS CandidateSimulation

\* "moved": a restored column has a new ordinal position and placeholder values.
SmallDatabase ==
    [col : BOOLEAN, default : BOOLEAN, constraint : BOOLEAN, tab : BOOLEAN,
     rows : 0..3, old : {"empty", "kept", "changed", "lost", "moved"}]

Empty == [col |-> FALSE, default |-> FALSE, constraint |-> FALSE, tab |-> FALSE,
          rows |-> 0, old |-> "empty"]
Seeded == [Empty EXCEPT !.old = "kept"]

Ordinary == {"addCol", "addColIfMissing", "setDefault", "addConstraint",
             "createTabIfMissing", "insertNew", "rewriteOld", "dropOld"}

SmallStatement == Ordinary
    \union {"dropCol", "dropTab", "dropDefault", "dropColumnConstraint", "restoreOld"}

\* ADD COLUMN is refused the second time, ADD COLUMN IF NOT EXISTS is not.
\* dropColumnConstraint is the inverse that the expression for ADD COLUMN makes of
\* ADD CONSTRAINT; it is not SQL.
SmallApply(s, db) ==
    CASE s = "addCol" /\ ~db.col -> [db EXCEPT !.col = TRUE]
      [] s = "addColIfMissing" -> [db EXCEPT !.col = TRUE]
      [] s = "dropCol" /\ db.col -> [db EXCEPT !.col = FALSE]
      [] s = "setDefault" -> [db EXCEPT !.default = TRUE]
      [] s = "dropDefault" -> [db EXCEPT !.default = FALSE]
      [] s = "addConstraint" /\ ~db.constraint -> [db EXCEPT !.constraint = TRUE]
      [] s = "createTabIfMissing" -> [db EXCEPT !.tab = TRUE]
      [] s = "dropTab" /\ db.tab -> [db EXCEPT !.tab = FALSE, !.rows = 0]
      [] s = "insertNew" /\ db.tab -> [db EXCEPT !.rows = IF @ = 3 THEN 3 ELSE @ + 1]
      [] s = "rewriteOld" /\ db.old # "lost" -> [db EXCEPT !.old = "changed"]
      [] s = "dropOld" /\ db.old # "lost" -> [db EXCEPT !.old = "lost"]
      [] s = "restoreOld" /\ db.old = "lost" -> [db EXCEPT !.old = "moved"]
      [] OTHER -> Failed

SmallSchema(db) ==
    <<db.col, db.default, db.constraint, db.tab,
      IF db.old \in {"lost", "moved"} THEN db.old ELSE "present">>

SmallKept(db) == db.old

\* The old application inserts rows that a new constraint may refuse.
SmallLegacy(db) == db.old # "lost" /\ ~db.constraint

SmallReversal(s) ==
    CASE s \in {"addCol", "addColIfMissing", "setDefault", "addConstraint",
                "createTabIfMissing"} -> "SCRIPT"
      [] s = "dropOld" -> "METADATA"
      [] OTHER -> "NOT_APPLICABLE"

SmallUndo(s) ==
    CASE s \in {"addCol", "addColIfMissing"} -> <<"dropCol">>
      [] s = "setDefault" -> <<"dropDefault">>
      [] s = "addConstraint" -> <<"dropColumnConstraint">>
      [] s = "createTabIfMissing" -> <<"dropTab">>
      [] s = "dropOld" -> <<"restoreOld">>

\* Every migration of one or two statements, and a third after a table is created and
\* filled, which a second attempt fills again.
Short == {<<s>> : s \in Ordinary} \union (Ordinary \X Ordinary)
Filled == {<<"createTabIfMissing", "insertNew", s>> : s \in Ordinary}

SmallCandidate == Short \union Filled
=============================================================================
