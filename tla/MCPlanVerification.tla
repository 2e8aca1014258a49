------------------------- MODULE MCPlanVerification -------------------------
(***************************************************************************)
(* A small PostgreSQL for the verification of plans: a table with a column *)
(* the old application reads and writes, a new column with or without      *)
(* NULLs, a default and a constraint, and a second table with some rows.   *)
(***************************************************************************)
EXTENDS PlanVerification

SmallDatabase ==
    [col : {"absent", "nullable", "required"}, nulls : BOOLEAN, default : BOOLEAN,
     unique : BOOLEAN, rows : 0..3, old : {"empty", "kept", "changed", "lost"}]

Empty == [col |-> "absent", nulls |-> FALSE, default |-> FALSE, unique |-> FALSE,
          rows |-> 0, old |-> "empty"]
Seeded == [Empty EXCEPT !.old = "kept"]

\* addSized adds a varchar(20), whose size is redacted; addUuid a type that the
\* template's default does not suit; addUnique a UNIQUE column; addAgain says IF NOT
\* EXISTS, which the template's expression reads as a column IF of the type NOT.
AddRequired == {"add", "addSized", "addUuid", "addUnique", "addAgain"}

SmallStatement == AddRequired
    \union {"expand", "expandSized", "expandIf", "fill", "fillUuid", "setDefault",
            "enforce", "insertRow", "rewriteOld", "dropOld"}

SmallApply(s, db) ==
    CASE s \in AddRequired /\ db.col = "absent" /\ db.old = "empty" ->
           [db EXCEPT !.col = "required", !.unique = s = "addUnique"]
      [] s = "addAgain" /\ db.col # "absent" -> db
      [] s = "expand" /\ db.col = "absent" ->
           [db EXCEPT !.col = "nullable", !.nulls = db.old # "empty"]
      [] s = "expand" /\ db.col # "absent" -> db
      [] s = "fill" /\ db.col # "absent" -> [db EXCEPT !.nulls = FALSE]
      [] s = "setDefault" /\ db.col # "absent" -> [db EXCEPT !.default = TRUE]
      [] s = "enforce" /\ db.col # "absent" /\ ~db.nulls -> [db EXCEPT !.col = "required"]
      [] s = "insertRow" -> [db EXCEPT !.rows = IF @ = 3 THEN 3 ELSE @ + 1]
      [] s = "rewriteOld" /\ db.old # "lost" ->
           [db EXCEPT !.old = IF @ = "empty" THEN @ ELSE "changed"]
      [] s = "dropOld" /\ db.old # "lost" -> [db EXCEPT !.old = "lost"]
      [] OTHER -> Failed

SmallCompatible(db) == <<db.col, db.unique, db.old = "lost">>
SmallKept(db) == db.old
SmallContents(db) == <<db.old, db.rows>>

\* The old application reads its column and inserts rows without the new one.
SmallLegacy(db) == db.old # "lost" /\ (db.col # "required" \/ db.default)

SmallHolds(check, db) ==
    check = "noNulls" /\ db.col # "absent" /\ ~db.nulls

SmallAdmissible(s) == s \notin {"expandSized", "expandIf"}
SmallReadOnly(check) == check # "delete"

SmallExpand(s) ==
    CASE s = "addSized" -> "expandSized" [] s = "addAgain" -> "expandIf" [] OTHER -> "expand"
SmallBackfill(s) == IF s = "addUuid" THEN "fillUuid" ELSE "fill"
SmallSetDefault(s) == "setDefault"
SmallEnforce(s) == "enforce"
SmallNoNulls(s) == "noNulls"

SmallFlagged == AddRequired \union {"dropOld", "rewriteOld"}

SmallCandidate ==
    {<<s>> : s \in AddRequired \union {"dropOld"}}
    \union {<<"insertRow", "add">>, <<"add", "dropOld">>, <<"add", "add">>}

\* The items of an answer: a statement each, or several at once.
Item == {<<s>> : s \in {"expand", "fill", "setDefault", "enforce", "insertRow",
                        "rewriteOld", "dropOld", "expandSized"}}
    \union {<<"expand", "fill", "setDefault", "enforce">>, <<"fill", "insertRow">>}

Steps == {"expand", "fill", "setDefault", "enforce"}

SmallAssertion == {"noNulls", "never", "delete"}

\* Every answer of at most two items, and the template's statements in every order.
SmallAnswer ==
    [sql : UNION {[1..n -> Item] : n \in 0..2},
     checks : {<<>>} \union {<<c>> : c \in SmallAssertion}]
    \union
    [sql : {[i \in 1..4 |-> <<order[i]>>] : order \in
               {f \in [1..4 -> Steps] : {f[i] : i \in 1..4} = Steps}},
     checks : {<<"noNulls">>}]
=============================================================================
