----------------------- MODULE PlanVerificationProofs -----------------------
(***************************************************************************)
(* A plan is verified only if it has earned it and rejected only for a     *)
(* reason, for every database, every set of statements, migrations and     *)
(* plans, and whatever executions are cut short.                           *)
(***************************************************************************)
EXTENDS PlanVerification, SequenceTheorems, TLAPS

WF == INSTANCE WellFoundedInduction

USE DEF Dimension

(* What an execution that was not cut short, or that succeeded, tells. *)

LEMMA NotCut ==
    ASSUME NEW statements, NEW k, NEW db, NEW mayCut,
           NEW r \in Results(statements, k, db, mayCut), ~r.cut
    PROVE  /\ r.db = Execute(statements, k, db).db
           /\ r.ok = Execute(statements, k, db).ok
BY DEF Results

LEMMA Succeeded ==
    ASSUME NEW statements, NEW k, NEW db, NEW mayCut,
           NEW r \in Results(statements, k, db, mayCut), r.ok
    PROVE  /\ r.db = Execute(statements, k, db).db
           /\ Execute(statements, k, db).ok
BY DEF Results

LEMMA StatusIs ==
    ASSUME NEW holds
    PROVE  /\ Status(holds) \in EvidenceStatus /\ Status(holds) \in {"PASS", "FAIL"}
           /\ Status(holds) = "PASS" <=> holds
BY DEF Status, EvidenceStatus

(* Natural numbers *)

LEMMA LeastNatural ==
    ASSUME NEW S \in SUBSET Nat, S # {}
    PROVE  \E n \in S : \A m \in S : n <= m
<1> DEFINE R == WF!OpToRel(<, Nat)
<1>1. WF!IsWellFoundedOn(R, Nat)
    BY WF!NatLessThanWellFounded
<1>2. \A m, n \in Nat : m < n => <<m, n>> \in R
    BY DEF WF!OpToRel
<1> HIDE DEF R
<1>3. PICK n \in S : \A m \in S : ~(<<m, n>> \in R)
    BY <1>1, WF!WFMin
<1>4. \A m \in S : ~(m < n)
    BY <1>2, <1>3
<1> QED BY <1>4

(* Recursion on natural numbers, over the values of a set *)

\* A set that has 0, and the next number for each it has, has all up to n.
LEMMA Reaches ==
    ASSUME NEW n \in Nat, NEW G, 0 \in G, \A i \in 1..n : i - 1 \in G => i \in G
    PROVE  \A i \in 0..n : i \in G
<1> DEFINE T == {i \in 0..n : i \notin G}
<1> SUFFICES ASSUME T # {} PROVE FALSE
    OBVIOUS
<1>1. PICK i \in T : \A j \in T : i <= j
    <2>1. T \in SUBSET Nat
        OBVIOUS
    <2> HIDE DEF T
    <2> QED BY <2>1, LeastNatural
<1>2. i \in 1..n /\ i - 1 \in 0..n /\ ~(i <= i - 1)
    BY <1>1
<1>3. i - 1 \in G
    BY <1>1, <1>2
<1> QED BY <1>1, <1>2, <1>3

\* What the first of a list of values has, and each hands on to the next, all have.
LEMMA Stays ==
    ASSUME NEW n \in Nat, NEW S, NEW g, g[0] \in S,
           \A i \in 1..n : g[i - 1] \in S => g[i] \in S
    PROVE  \A i \in 0..n : g[i] \in S
<1> DEFINE G == {i \in 0..n : g[i] \in S}
<1>1. 0 \in G
    OBVIOUS
<1>2. \A i \in 1..n : i \in 0..n /\ (i - 1 \in G => i \in G)
    OBVIOUS
<1> HIDE DEF G
<1>3. \A i \in 0..n : i \in G
    BY <1>1, <1>2, Reaches
<1> QED BY <1>3 DEF G

\* A list of n values after a base, in which each is made from the one before.
Chain(f, S, base, n, F) ==
    f \in [0..n -> S] /\ f[0] = base /\ \A i \in 1..n : f[i] = F[i][f[i - 1]]

LEMMA Recursion ==
    ASSUME NEW S, NEW base \in S, NEW n \in Nat, NEW F \in [1..n -> [S -> S]]
    PROVE  \E f : Chain(f, S, base, n, F)
<1> DEFINE T == {m \in 0..n : ~ \E f : Chain(f, S, base, m, F)}
<1> SUFFICES ASSUME T # {} PROVE FALSE
    <2>1. n \in 0..n
        OBVIOUS
    <2>2. n \notin T => \E f : Chain(f, S, base, n, F)
        BY <2>1
    <2> QED BY <2>2
<1>1. PICK m \in T : \A j \in T : m <= j
    <2>1. T \in SUBSET Nat
        OBVIOUS
    <2> HIDE DEF T
    <2> QED BY <2>1, LeastNatural
<1>2. m # 0
    <2> DEFINE one == [i \in 0..0 |-> base]
    <2>1. one \in [0..0 -> S] /\ one[0] = base
        OBVIOUS
    <2> HIDE DEF one
    <2>2. Chain(one, S, base, 0, F)
        BY <2>1 DEF Chain
    <2>3. 0 \notin T
        BY <2>2
    <2> HIDE DEF T
    <2> QED BY <1>1, <2>3
<1>3. m - 1 \in 0..n /\ m \in 1..n /\ ~(m <= m - 1)
    BY <1>1, <1>2
<1>4. PICK f : Chain(f, S, base, m - 1, F)
    BY <1>1, <1>3
<1> DEFINE g == [i \in 0..m |-> IF i = m THEN F[m][f[m - 1]] ELSE f[i]]
<1>5. \A i \in 0..m : i # m => i \in 0 .. m - 1
    BY <1>3
<1>6. g \in [0..m -> S]
    <2>1. m - 1 \in 0 .. m - 1
        BY <1>3
    <2>2. F[m][f[m - 1]] \in S
        BY <1>3, <1>4, <2>1 DEF Chain
    <2> QED BY <1>4, <1>5, <2>2 DEF Chain
<1>7. g[0] = base
    BY <1>3, <1>4 DEF Chain
<1>8. ASSUME NEW i \in 1..m PROVE g[i] = F[i][g[i - 1]]
    <2>1. i - 1 \in 0..m /\ i - 1 # m /\ i \in 0..m
        BY <1>3
    <2>2. g[i - 1] = f[i - 1]
        BY <2>1
    <2>3. CASE i = m
        BY <2>1, <2>2, <2>3
    <2>4. CASE i # m
        <3>1. i \in 1 .. m - 1
            BY <1>3, <2>4
        <3> QED BY <1>4, <2>1, <2>2, <2>4, <3>1 DEF Chain
    <2> QED BY <2>3, <2>4
<1> HIDE DEF g
<1>9. Chain(g, S, base, m, F)
    BY <1>6, <1>7, <1>8 DEF Chain
<1> QED BY <1>1, <1>9

----------------------------------------------------------------------------
(* An execution leaves a database, wherever it stops. *)

LEMMA AdvanceType ==
    ASSUME NEW r \in [db : Database, ok : BOOLEAN], NEW s \in Statement
    PROVE  Advance(r, s) \in [db : Database, ok : BOOLEAN]
<1>1. Apply(s, r.db) \in Database \union {Failed}
    BY SandboxAssumption
<1> QED BY <1>1 DEF Advance

\* The first k of a sequence, or of what counts as one, are statements.
Legal(statements, k) == \A i \in 1..k : statements[i] \in Statement

\* The outcomes after 0, 1, ... k statements.
Stages(after, statements, k, db) ==
    /\ after[0] = [db |-> db, ok |-> TRUE]
    /\ \A i \in 1..k : after[i] = Advance(after[i - 1], statements[i])

LEMMA ExecuteStages ==
    ASSUME NEW statements, NEW k \in Nat, Legal(statements, k),
           NEW db \in Database
    PROVE  \E after : /\ Stages(after, statements, k, db)
                      /\ Execute(statements, k, db) = after[k]
<1> DEFINE Outcome == [db : Database, ok : BOOLEAN]
           base == [db |-> db, ok |-> TRUE]
           Is(f) == f = [i \in 0..k |->
                            IF i = 0 THEN base ELSE Advance(f[i - 1], statements[i])]
           after == CHOOSE f : Is(f)
           F == [i \in 1..k |-> [r \in Outcome |-> Advance(r, statements[i])]]
<1>1. k \in Nat /\ base \in Outcome
    OBVIOUS
<1>2. Execute(statements, k, db) = after[k]
    BY DEF Execute
<1>3. \A i \in 1..k, r \in Outcome : Advance(r, statements[i]) \in Outcome
    BY AdvanceType DEF Legal
<1> HIDE DEF Outcome, base, Is, after
<1>4. F \in [1..k -> [Outcome -> Outcome]]
    BY <1>3
<1>5. \A i \in 1..k, r \in Outcome : F[i][r] = Advance(r, statements[i])
    OBVIOUS
<1> HIDE DEF F
<1>6. PICK f : Chain(f, Outcome, base, k, F)
    BY <1>1, <1>4, Recursion
<1>7. Is(f)
    <2> USE DEF Is
    <2>1. ASSUME NEW i \in 0..k
          PROVE  f[i] = IF i = 0 THEN base ELSE Advance(f[i - 1], statements[i])
        <3>1. CASE i = 0
            BY <1>6, <3>1 DEF Chain
        <3>2. CASE i # 0
            <4>1. i \in 1..k /\ i - 1 \in 0..k
                BY <3>2
            <4>2. f[i] = F[i][f[i - 1]] /\ f[i - 1] \in Outcome
                BY <1>6, <4>1 DEF Chain
            <4> QED BY <1>5, <3>2, <4>1, <4>2
        <3> QED BY <3>1, <3>2
    <2> QED BY <1>6, <2>1 DEF Chain
<1>8. Is(after)
    BY <1>7 DEF after
<1>9. after[0] = base /\ \A i \in 1..k : after[i] = Advance(after[i - 1], statements[i])
    BY <1>1, <1>8 DEF Is
<1> QED BY <1>2, <1>9 DEF Stages, base

LEMMA ExecuteType ==
    ASSUME NEW statements, NEW k \in Nat, Legal(statements, k),
           NEW db \in Database
    PROVE  Execute(statements, k, db) \in [db : Database, ok : BOOLEAN]
<1> DEFINE Outcome == [db : Database, ok : BOOLEAN]
<1>1. PICK after : Stages(after, statements, k, db) /\ Execute(statements, k, db) = after[k]
    BY ExecuteStages
<1>2. after[0] \in Outcome
    BY <1>1 DEF Stages
<1>3. \A i \in 1..k : after[i - 1] \in Outcome => after[i] \in Outcome
    BY <1>1, AdvanceType DEF Legal, Stages
<1> HIDE DEF Outcome
<1>4. \A i \in 0..k : after[i] \in Outcome
    BY <1>2, <1>3, Stays
<1> QED BY <1>1, <1>4 DEF Outcome

\* A list of databases, each of which a statement makes from the one before.
Path(x, statements, n) ==
    \A i \in 1..n : x[i - 1] \in Database /\ x[i] \in Database
                     /\ Apply(statements[i], x[i - 1]) = x[i]

LEMMA WithDatabase ==
    ASSUME NEW db, NEW ok, NEW next
    PROVE  [[db |-> db, ok |-> ok] EXCEPT !.db = next] = [db |-> next, ok |-> ok]
OBVIOUS

LEMMA AdvanceSucceeds ==
    ASSUME NEW db, NEW statement, NEW next, Apply(statement, db) = next, next # Failed
    PROVE  Advance([db |-> db, ok |-> TRUE], statement) = [db |-> next, ok |-> TRUE]
<1> DEFINE r == [db |-> db, ok |-> TRUE]
<1>1. r.ok = TRUE /\ r.db = db
    OBVIOUS
<1>2. [r EXCEPT !.db = next] = [db |-> next, ok |-> TRUE]
    BY WithDatabase
<1> HIDE DEF r
<1>3. Advance(r, statement) = [r EXCEPT !.db = next]
    BY <1>1 DEF Advance
<1> QED BY <1>2, <1>3 DEF r

LEMMA PathIsRun ==
    ASSUME NEW statements, NEW n \in Nat, Legal(statements, n),
           NEW x, x[0] \in Database, Path(x, statements, n)
    PROVE  Execute(statements, n, x[0]) = [db |-> x[n], ok |-> TRUE]
<1>1. PICK after : /\ Stages(after, statements, n, x[0])
                   /\ Execute(statements, n, x[0]) = after[n]
    BY ExecuteStages
<1> DEFINE G == {i \in 0..n : after[i] = [db |-> x[i], ok |-> TRUE]}
<1>2. 0 \in G
    BY <1>1 DEF Stages
<1>3. ASSUME NEW i \in 1..n, i - 1 \in G PROVE i \in G
    <2>1. i \in 0..n /\ after[i - 1] = [db |-> x[i - 1], ok |-> TRUE]
        BY <1>3
    <2>2. after[i] = Advance(after[i - 1], statements[i]) /\ x[i] # Failed
        BY <1>1, SandboxAssumption DEF Stages, Path
    <2>3. Apply(statements[i], x[i - 1]) = x[i]
        BY DEF Path
    <2>4. after[i] = [db |-> x[i], ok |-> TRUE]
        BY <2>1, <2>2, <2>3, AdvanceSucceeds
    <2> QED BY <2>1, <2>4
<1>4. n \in 0..n
    OBVIOUS
<1> HIDE DEF G
<1>5. n \in G
    BY <1>2, <1>3, <1>4, Reaches
<1> QED BY <1>1, <1>5 DEF G

\* And an execution without an error is such a path.
LEMMA RunIsPath ==
    ASSUME NEW statements, NEW n \in Nat, Legal(statements, n),
           NEW db \in Database, Execute(statements, n, db).ok
    PROVE  \E x : /\ x[0] = db /\ Path(x, statements, n)
                  /\ Execute(statements, n, db).db = x[n]
<1>1. PICK after : /\ Stages(after, statements, n, db)
                   /\ Execute(statements, n, db) = after[n]
    BY ExecuteStages
<1> DEFINE Outcome == [db : Database, ok : BOOLEAN]
<1>2. \A i \in 0..n : after[i] \in Outcome
    <2>1. after[0] \in Outcome
        BY <1>1 DEF Stages
    <2>2. \A i \in 1..n : after[i - 1] \in Outcome => after[i] \in Outcome
        BY <1>1, AdvanceType DEF Legal, Stages
    <2> HIDE DEF Outcome
    <2> QED BY <2>1, <2>2, Stays
<1>3. \A i \in 1..n : i - 1 \in 0..n /\ i \in 0..n
    OBVIOUS
<1>4. \A i \in 1..n : after[i] = Advance(after[i - 1], statements[i])
    BY <1>1 DEF Stages
<1> DEFINE G == {i \in 0..n : after[n - i].ok = TRUE}
<1>5. 0 \in G
    <2>1. after[n].ok = TRUE /\ n - 0 = n /\ 0 \in 0..n
        BY <1>1, <1>2
    <2> QED BY <2>1
<1>6. ASSUME NEW i \in 1..n, i - 1 \in G PROVE i \in G
    <2> DEFINE j == n - i + 1
    <2>1. /\ j \in 1..n /\ n - (i - 1) = j /\ n - i = j - 1
          /\ i \in 0..n /\ j - 1 \in 0..n
        OBVIOUS
    <2> HIDE DEF j
    <2>2. after[j].ok = TRUE
        BY <1>6, <2>1
    <2>3. after[j - 1] \in Outcome /\ after[j] = Advance(after[j - 1], statements[j])
        BY <1>2, <1>4, <2>1
    <2>4. after[j - 1].ok = TRUE
        BY <2>2, <2>3 DEF Advance
    <2> QED BY <2>1, <2>4
<1> HIDE DEF G
<1>7. \A i \in 0..n : i \in G
    BY <1>5, <1>6, Reaches
<1>8. \A i \in 0..n : after[i].ok = TRUE
    <2> SUFFICES ASSUME NEW i \in 0..n PROVE after[i].ok = TRUE
        OBVIOUS
    <2>1. n - i \in 0..n /\ n - (n - i) = i
        OBVIOUS
    <2> QED BY <1>7, <2>1 DEF G
<1> DEFINE x == [i \in 0..n |-> after[i].db]
<1>9. \A i \in 0..n : x[i] = after[i].db /\ x[i] \in Database
    BY <1>2
<1> HIDE DEF x
<1>10. x[0] = db /\ x[n] = after[n].db
    BY <1>1, <1>9 DEF Stages
<1>11. ASSUME NEW i \in 1..n PROVE Apply(statements[i], x[i - 1]) = x[i]
    <2>1. after[i - 1] \in Outcome /\ after[i - 1].ok = TRUE /\ after[i].ok = TRUE
        BY <1>2, <1>3, <1>8
    <2>2. after[i] = Advance(after[i - 1], statements[i])
        BY <1>4
    <2>3. x[i - 1] = after[i - 1].db /\ x[i] = after[i].db
        BY <1>3, <1>9
    <2> QED BY <2>1, <2>2, <2>3 DEF Advance
<1>12. Path(x, statements, n)
    BY <1>3, <1>9, <1>11 DEF Path
<1> QED BY <1>1, <1>10, <1>12

\* So does one that may be cut short; and it is, only if a time limit may do it.
LEMMA AttemptType ==
    ASSUME NEW kind, NEW statements \in Seq(Statement), NEW k \in 0..Len(statements),
           NEW db \in Database, NEW r \in Attempt(kind, statements, k, db)
    PROVE  r.db \in Database /\ r.ok \in BOOLEAN /\ (r.cut => kind \in Timeout)
<1>1. \A j \in 0..k : j \in Nat /\ Legal(statements, j)
    BY DEF Legal
<1>2. /\ Execute(statements, k, db) \in [db : Database, ok : BOOLEAN]
      /\ \A j \in 0..k : Execute(statements, j, db) \in [db : Database, ok : BOOLEAN]
    <2>1. k \in 0..k
        OBVIOUS
    <2> QED BY <1>1, <2>1, ExecuteType
<1>3. \/ /\ r.db = Execute(statements, k, db).db
         /\ r.ok = Execute(statements, k, db).ok
         /\ r.cut = FALSE
      \/ /\ kind \in Timeout /\ r.ok = FALSE
         /\ \E j \in 0..k : r.db = Execute(statements, j, db).db
    BY DEF Attempt, Results
<1> QED BY <1>2, <1>3

(* Sequences of statements, one after the other *)

\* The scripts that come of joining 1, 2, ... of the scripts.
Joined(f, ss) ==
    \A i \in 1..Len(ss) : f[i] = IF i = 1 THEN ss[i] ELSE f[i - 1] \o ss[i]

LEMMA FlattenJoins ==
    ASSUME NEW ss \in Seq(Seq(Statement)), Len(ss) # 0
    PROVE  \E f : Joined(f, ss) /\ Seqs!FlattenSeq(ss) = f[Len(ss)]
<1> DEFINE n == Len(ss)
           Script == Seq(Statement)
           Is(f) == f = [i \in 1..n |-> IF i = 1 THEN ss[i] ELSE f[i - 1] \o ss[i]]
           flatten == CHOOSE f : Is(f)
           F == [i \in 1..n |-> [x \in Script |-> IF i = 1 THEN ss[i] ELSE x \o ss[i]]]
           none == <<>>
<1>1. Seqs!FlattenSeq(ss) = flatten[n]
    BY DEF Seqs!FlattenSeq
<1>2. n \in Nat /\ n \in 1..n /\ \A i \in 1..n : ss[i] \in Script
    OBVIOUS
<1>3. none \in Script
    OBVIOUS
<1>4. \A x, y \in Script : x \o y \in Script
    OBVIOUS
<1>5. n = Len(ss)
    OBVIOUS
<1> HIDE DEF n, Script
<1>6. F \in [1..n -> [Script -> Script]]
    BY <1>2, <1>4
<1>7. \A i \in 1..n, x \in Script : F[i][x] = IF i = 1 THEN ss[i] ELSE x \o ss[i]
    BY <1>2, <1>4
<1> HIDE DEF F, Is, flatten, none
<1>8. PICK f : Chain(f, Script, none, n, F)
    BY <1>2, <1>3, <1>6, Recursion
<1> DEFINE g == [i \in 1..n |-> f[i]]
<1>9. Is(g)
    <2>1. ASSUME NEW i \in 1..n
          PROVE  f[i] = IF i = 1 THEN ss[i] ELSE g[i - 1] \o ss[i]
        <3>1. i - 1 \in 0..n /\ (i # 1 => i - 1 \in 1..n)
            BY <1>2
        <3>2. f[i - 1] \in Script /\ f[i] = F[i][f[i - 1]]
            BY <1>8, <3>1 DEF Chain
        <3> QED BY <1>7, <3>1, <3>2
    <2> QED BY <2>1 DEF Is
<1>10. Is(flatten)
    BY <1>9 DEF flatten
<1>11. \A i \in 1..n : flatten[i] = IF i = 1 THEN ss[i] ELSE flatten[i - 1] \o ss[i]
    BY <1>10 DEF Is
<1> QED BY <1>1, <1>5, <1>11 DEF Joined

LEMMA FlattenType ==
    ASSUME NEW ss \in Seq(Seq(Statement))
    PROVE  Seqs!FlattenSeq(ss) \in Seq(Statement)
<1>1. CASE Len(ss) = 0
    <2>1. ss = <<>> /\ Seqs!FlattenSeq(ss) = ss
        BY <1>1 DEF Seqs!FlattenSeq
    <2>2. <<>> \in Seq(Statement)
        OBVIOUS
    <2> QED BY <2>1, <2>2
<1>2. CASE Len(ss) # 0
    <2> DEFINE n == Len(ss)
               Script == Seq(Statement)
               none == <<>>
    <2>1. PICK f : Joined(f, ss) /\ Seqs!FlattenSeq(ss) = f[n]
        BY <1>2, FlattenJoins
    <2>2. n \in Nat /\ n \in 1..n /\ n \in 0..n /\ \A i \in 1..n : ss[i] \in Script
        BY <1>2
    <2>3. \A i \in 1..n : f[i] = IF i = 1 THEN ss[i] ELSE f[i - 1] \o ss[i]
        BY <2>1 DEF Joined
    <2>4. \A x, y \in Script : x \o y \in Script
        OBVIOUS
    <2>5. none \in Script
        OBVIOUS
    <2> HIDE DEF n, Script, none
    <2> DEFINE h == [i \in 0..n |-> IF i = 0 THEN none ELSE f[i]]
    <2>6. h[0] \in Script
        BY <2>2, <2>5
    <2>7. ASSUME NEW i \in 1..n, h[i - 1] \in Script PROVE h[i] \in Script
        <3>1. h[i] = f[i] /\ ss[i] \in Script
            BY <2>2
        <3>2. CASE i = 1
            BY <2>3, <3>1, <3>2
        <3>3. CASE i # 1
            <4>1. h[i - 1] = f[i - 1]
                BY <2>2, <3>3
            <4> QED BY <2>3, <2>4, <2>7, <3>1, <3>3, <4>1
        <3> QED BY <3>2, <3>3
    <2>8. h[n] = f[n]
        BY <2>2
    <2> HIDE DEF h
    <2>9. \A i \in 0..n : h[i] \in Script
        BY <2>2, <2>6, <2>7, Stays
    <2>10. f[n] \in Script
        BY <2>2, <2>8, <2>9
    <2> QED BY <2>1, <2>10 DEF Script
<1> QED BY <1>1, <1>2

\* The items of a plan are statements.
LEMMA ThroughType ==
    ASSUME plan \in Payload, NEW b \in 0..Size
    PROVE  Through(b) \in Seq(Statement)
<1>1. plan.sql \in Seq(Seq(Statement)) /\ Size = Len(plan.sql)
    BY DEF Payload, Size
<1>2. SubSeq(plan.sql, 1, b) \in Seq(Seq(Statement))
    <2> DEFINE S == Seq(Statement)
               items == plan.sql
    <2>1. items \in Seq(S) /\ b \in 0..Len(items)
        BY <1>1
    <2> HIDE DEF S, items
    <2>2. SubSeq(items, 1, b) \in Seq(S)
        BY <2>1
    <2> QED BY <2>2 DEF S, items
<1> QED BY <1>2, FlattenType DEF Through

----------------------------------------------------------------------------
(* The inductive invariant *)

Experiment == {"target", "restore", "apply", "examine", "inject", "judge", "done"}

Early == {"target", "restore", "apply", "examine", "inject"}

Types ==
    /\ dimensions \in [Dimension -> EvidenceStatus]
    /\ runs \in Seq({"PASS", "FAIL"})
    /\ Size \in Nat
    /\ pc \in Experiment

\* What was tried before an experiment and went well, and so what is in the databases.
Progress ==
    /\ pc \in {"restore", "apply", "examine", "inject"} =>
         bundle.replays /\ Intended.ok /\ target = Intended.db
    /\ pc \in {"apply", "examine", "inject"} => bundle.seeds
    /\ pc \in {"examine", "inject"} => Planned.ok /\ result = Planned.db
    /\ pc = "inject" => Fulfils /\ ("legacy" \notin cut => LegacyPasses(Planned.db))

\* What counts for the plan.
Earned ==
    /\ bundle.replays /\ bundle.seeds /\ Intended.ok
    /\ Fulfils
    /\ "legacy" \notin cut => LegacyPasses(Planned.db)
    /\ "prefix" \notin cut => \A b \in 0..Size : Resumes(b)

RunsTrue ==
    "prefix" \notin cut =>
        \A i \in 1..Len(runs) : runs[i] = "PASS" => Resumes(i - 1)

\* The interruptions come last: when they have passed, everything has.
Recovered ==
    /\ pc \in Early => dimensions["failure_recovery"] = "NOT_TESTED"
    /\ dimensions["failure_recovery"] = "PASS" => Earned

\* What counts against the plan.
Reason ==
    \/ ~bundle.replays \/ ~bundle.seeds \/ ~Intended.ok
    \/ ~Fulfils
    \/ ~LegacyPasses(Planned.db)
    \/ \E b \in 0..Size : ~Resumes(b)

RunsComplete ==
    /\ Len(runs) <= Size + 1
    /\ cut = {} => \A i \in 1..Len(runs) : runs[i] = "FAIL" => ~Resumes(i - 1)

Passing(ds) == \A d \in ds : dimensions[d] = "PASS"

Before == {"prior_migrations", "fixture_load", "schema_application", "data_preservation",
           "legacy_queries"}

Reasons ==
    /\ pc \in {"apply", "examine"} => Passing({"prior_migrations", "fixture_load"})
    /\ pc = "inject" => Passing(Before)
    /\ pc = "judge" /\ cut = {} /\ ~Passed => Reason

Judged ==
    /\ pc # "done" => verdict = "none"
    /\ verdict = "VERIFIED_FOR_REVIEW" => dimensions["failure_recovery"] = "PASS"
    /\ verdict = "UNSAFE" /\ cut = {} => Reason

EvidenceTrue ==
    Types /\ Progress /\ RunsTrue /\ Recovered /\ RunsComplete /\ Reasons /\ Judged

\* A plan is the provider's answer or the template.
LEMMA PlanGiven == Init => plan \in Payload /\ plan # NoPlan
<1> SUFFICES ASSUME Init PROVE plan \in Payload /\ plan # NoPlan
    OBVIOUS
<1>1. PICK a \in Answer \union {NoPlan} : plan = Generate(a, bundle.script) /\ plan # NoPlan
    BY DEF Init, PlansFor
<1>2. CASE a = NoPlan
    <2>1. plan = Fallback(bundle.script)
        BY <1>1, <1>2 DEF Generate
    <2>2. Readable(bundle.script) # {} /\ Readable(bundle.script) \subseteq Legible
        BY <1>1, <2>1 DEF Fallback, Readable
    <2> QED BY <1>1, <2>1, <2>2, VerificationAssumption DEF Fallback
<1>3. CASE a # NoPlan
    <2>1. a \in Payload
        BY <1>3, VerificationAssumption
    <2> QED BY <1>1, <1>3, <2>1 DEF Generate
<1> QED BY <1>2, <1>3

LEMMA EvidenceInit == Init => EvidenceTrue
<1> SUFFICES ASSUME Init PROVE EvidenceTrue
    OBVIOUS
<1>1. plan \in Payload
    BY PlanGiven
<1>2. Types
    BY <1>1 DEF Init, Types, Untested, EvidenceStatus, Experiment, Size, Payload
<1> QED
    BY <1>2 DEF Init, Untested, EvidenceTrue, Progress, RunsTrue, Recovered, RunsComplete,
                Reasons, Judged, Types, Early

----------------------------------------------------------------------------
(* What is true of a migration and a plan does not change while they are tried. *)

LEMMA SameTruth ==
    ASSUME UNCHANGED <<bundle, plan>>
    PROVE  /\ Size' = Size /\ Intended' = Intended /\ Planned' = Planned
           /\ Fulfils' = Fulfils /\ Reason' = Reason
           /\ \A b : Resumes(b)' = Resumes(b)
<1>1. Size' = Size /\ Intended' = Intended /\ Planned' = Planned /\ Fulfils' = Fulfils
    BY DEF Size, Intended, Planned, Run, Through, Fulfils, Asserted
<1>2. \A b : Resumes(b)' = Resumes(b)
    BY <1>1 DEF Size, Resumes, Planned, Run, Through
<1>3. Reason' = Reason
    BY <1>1, <1>2 DEF Reason
<1> QED BY <1>1, <1>2, <1>3

\* No execution that was cut short is forgotten.
LEMMA StaysEarned ==
    ASSUME UNCHANGED <<bundle, plan>>, cut \subseteq cut', Earned
    PROVE  Earned'
BY SameTruth DEF Earned

LEMMA SetType ==
    ASSUME NEW changes, \A d \in DOMAIN changes : changes[d] \in EvidenceStatus,
           dimensions \in [Dimension -> EvidenceStatus], Set(changes)
    PROVE  /\ dimensions' \in [Dimension -> EvidenceStatus]
           /\ \A d \in Dimension :
                dimensions'[d] = IF d \in DOMAIN changes THEN changes[d] ELSE dimensions[d]
BY DEF Set, Recorded

----------------------------------------------------------------------------
(* The experiments before the interruptions *)

\* What they have in common.  A step that ends the trial early has a reason, or cuts
\* something short.
LEMMA Carried ==
    ASSUME EvidenceTrue, pc \in Early, pc' \in {"restore", "apply", "examine", "inject", "judge"},
           UNCHANGED <<bundle, plan, runs, verdict>>, cut \subseteq cut',
           dimensions' \in [Dimension -> EvidenceStatus],
           dimensions'["failure_recovery"] # "PASS",
           pc' # "judge" => dimensions'["failure_recovery"] = "NOT_TESTED",
           pc' = "judge" /\ cut' = {} => Reason,
           Progress',
           pc' \in {"apply", "examine"} => Passing({"prior_migrations", "fixture_load"})',
           pc' = "inject" => Passing(Before)'
    PROVE  EvidenceTrue'
<1>1. /\ Size' = Size /\ Reason' = Reason
      /\ \A b : Resumes(b)' = Resumes(b)
    BY SameTruth
<1>2. Types' /\ RunsTrue' /\ RunsComplete'
    BY <1>1 DEF EvidenceTrue, Types, RunsTrue, RunsComplete, Experiment
<1>3. Recovered'
    BY DEF Recovered, Early
<1>4. Reasons' /\ Judged'
    BY <1>1 DEF EvidenceTrue, Reasons, Judged, Early
<1> QED BY <1>2, <1>3, <1>4 DEF EvidenceTrue

LEMMA TargetNotRestoredStep ==
    ASSUME EvidenceTrue, TargetNotRestored PROVE EvidenceTrue'
<1>1. /\ dimensions' \in [Dimension -> EvidenceStatus]
      /\ dimensions'["failure_recovery"] = dimensions["failure_recovery"]
    <2> DEFINE changes == [prior_migrations |-> "FAIL"]
    <2>1. Set(changes) /\ \A d \in DOMAIN changes : changes[d] \in EvidenceStatus
        BY DEF TargetNotRestored, EvidenceStatus
    <2> QED BY <2>1, SetType DEF EvidenceTrue, Types
<1>2. pc' = "judge" /\ cut \subseteq cut' /\ (cut' = {} => Reason)
    BY DEF TargetNotRestored, Reason
<1>3. Progress'
    BY <1>2 DEF Progress
<1> QED BY <1>1, <1>2, <1>3, Carried DEF TargetNotRestored, EvidenceTrue, Recovered, Early

LEMMA BuildTargetStep == ASSUME EvidenceTrue, BuildTarget PROVE EvidenceTrue'
<1>1. PICK r \in Try("candidate", bundle.script, Unseeded) :
         /\ target' = r.db
         /\ cut' = cut \union Noting("candidate", r.cut)
         /\ IF r.ok
            THEN pc' = "restore" /\ UNCHANGED dimensions
            ELSE /\ pc' = "judge"
                 /\ Set([prior_migrations |-> "PASS", schema_application |-> "FAIL"])
    BY DEF BuildTarget
<1>2. r.ok => Intended.ok /\ r.db = Intended.db
    BY Succeeded DEF Try, Attempt, Intended, Run
<1>3. ~r.ok /\ ~r.cut => ~Intended.ok
    BY NotCut DEF Try, Attempt, Intended, Run
<1>4. /\ dimensions' \in [Dimension -> EvidenceStatus]
      /\ dimensions'["failure_recovery"] = dimensions["failure_recovery"]
    <2> DEFINE changes == [prior_migrations |-> "PASS", schema_application |-> "FAIL"]
    <2>1. \A d \in DOMAIN changes : changes[d] \in EvidenceStatus
        BY DEF EvidenceStatus
    <2>2. CASE ~r.ok
        <3>1. Set(changes)
            BY <1>1, <2>2
        <3> QED BY <2>1, <3>1, SetType DEF EvidenceTrue, Types
    <2> QED BY <1>1, <2>2 DEF EvidenceTrue, Types
<1>5. pc' = (IF r.ok THEN "restore" ELSE "judge") /\ cut \subseteq cut'
    BY <1>1
<1>6. pc' = "judge" /\ cut' = {} => Reason
    <2>1. r.cut => cut' # {}
        BY <1>1 DEF Noting
    <2> QED BY <1>3, <1>5, <2>1 DEF Reason
<1>7. Progress'
    BY <1>1, <1>2, <1>5, SameTruth DEF Progress, BuildTarget
<1> QED BY <1>4, <1>5, <1>6, <1>7, Carried DEF BuildTarget, EvidenceTrue, Recovered, Early

LEMMA RestoreBaselineStep == ASSUME EvidenceTrue, RestoreBaseline PROVE EvidenceTrue'
<1>1. PICK isCut \in MayCut("restore") :
         /\ cut' = cut \union Noting("restore", isCut)
         /\ IF bundle.seeds /\ ~isCut
            THEN /\ Set([prior_migrations |-> "PASS", fixture_load |-> "PASS"])
                 /\ pc' = "apply"
            ELSE /\ Set([prior_migrations |-> "FAIL"])
                 /\ pc' = "judge"
    BY DEF RestoreBaseline
<1>2. /\ dimensions' \in [Dimension -> EvidenceStatus]
      /\ dimensions'["failure_recovery"] = dimensions["failure_recovery"]
      /\ pc' = "apply" => Passing({"prior_migrations", "fixture_load"})'
    <2> DEFINE passes == [prior_migrations |-> "PASS", fixture_load |-> "PASS"]
               fails  == [prior_migrations |-> "FAIL"]
    <2>1. /\ \A d \in DOMAIN passes : passes[d] \in EvidenceStatus
          /\ \A d \in DOMAIN fails : fails[d] \in EvidenceStatus
        BY DEF EvidenceStatus
    <2>2. CASE bundle.seeds /\ ~isCut
        <3>1. Set(passes)
            BY <1>1, <2>2
        <3> QED BY <2>1, <3>1, SetType DEF EvidenceTrue, Types, Passing
    <2>3. CASE ~(bundle.seeds /\ ~isCut)
        <3>1. Set(fails) /\ pc' = "judge"
            BY <1>1, <2>3
        <3> QED BY <2>1, <3>1, SetType DEF EvidenceTrue, Types
    <2> QED BY <2>2, <2>3
<1>3. /\ pc' = (IF bundle.seeds /\ ~isCut THEN "apply" ELSE "judge")
      /\ cut \subseteq cut' /\ (isCut => cut' # {})
    BY <1>1 DEF Noting
<1>4. pc' = "judge" /\ cut' = {} => Reason
    BY <1>3 DEF Reason
<1>5. Progress'
    BY <1>3, SameTruth DEF EvidenceTrue, Progress, RestoreBaseline
<1> QED BY <1>2, <1>3, <1>4, <1>5, Carried
    DEF RestoreBaseline, EvidenceTrue, Recovered, Early

LEMMA ApplyPlanStep == ASSUME EvidenceTrue, ApplyPlan PROVE EvidenceTrue'
<1>1. PICK r \in Try("plan", Through(Size), Baseline) :
         /\ result' = r.db
         /\ cut' = cut \union Noting("plan", r.cut)
         /\ IF r.ok
            THEN pc' = "examine" /\ UNCHANGED dimensions
            ELSE /\ pc' = "judge"
                 /\ Set([schema_application |-> "FAIL", data_preservation |-> "FAIL"])
    BY DEF ApplyPlan
<1>2. r.ok => Planned.ok /\ r.db = Planned.db
    BY Succeeded DEF Try, Attempt, Planned, Run
<1>3. ~r.ok /\ ~r.cut => ~Planned.ok
    BY NotCut DEF Try, Attempt, Planned, Run
<1>4. /\ dimensions' \in [Dimension -> EvidenceStatus]
      /\ dimensions'["failure_recovery"] = dimensions["failure_recovery"]
    <2> DEFINE changes == [schema_application |-> "FAIL", data_preservation |-> "FAIL"]
    <2>1. \A d \in DOMAIN changes : changes[d] \in EvidenceStatus
        BY DEF EvidenceStatus
    <2>2. CASE ~r.ok
        <3>1. Set(changes)
            BY <1>1, <2>2
        <3> QED BY <2>1, <3>1, SetType DEF EvidenceTrue, Types
    <2> QED BY <1>1, <2>2 DEF EvidenceTrue, Types
<1>5. /\ pc' = (IF r.ok THEN "examine" ELSE "judge") /\ cut \subseteq cut'
      /\ r.ok => dimensions' = dimensions
    BY <1>1
<1>6. pc' = "judge" /\ cut' = {} => Reason
    <2>1. r.cut => cut' # {}
        BY <1>1 DEF Noting
    <2> QED BY <1>3, <1>5, <2>1 DEF Reason, Fulfils
<1>7. Progress'
    BY <1>1, <1>2, <1>5, SameTruth DEF EvidenceTrue, Progress, ApplyPlan
<1>8. pc' = "examine" => Passing({"prior_migrations", "fixture_load"})'
    BY <1>5 DEF EvidenceTrue, Reasons, Passing, ApplyPlan
<1> QED BY <1>4, <1>5, <1>6, <1>7, <1>8, Carried
    DEF ApplyPlan, EvidenceTrue, Recovered, Early

LEMMA ExamineStep == ASSUME EvidenceTrue, Examine PROVE EvidenceTrue'
<1>1. PICK assertionCut \in MayCut("assertion"), legacyCut \in MayCut("legacy") :
         \E answered \in IF legacyCut THEN BOOLEAN ELSE {LegacyPasses(result)} :
           LET asserted == Asserted(result) /\ ~assertionCut
               verified == Compatible(result) = Compatible(target) /\ asserted
               kept     == Kept(result) = Kept(Baseline)
               legacy   == answered /\ asserted
               proceed  == verified /\ kept /\ legacy
               unproven == IF proceed THEN "NOT_TESTED" ELSE "FAIL"
           IN  /\ Set([schema_application |-> Status(verified),
                       data_preservation  |-> Status(kept),
                       legacy_queries     |-> Status(legacy),
                       failure_recovery   |-> unproven,
                       idempotent_retry   |-> unproven])
               /\ pc' = IF proceed THEN "inject" ELSE "judge"
               /\ cut' = cut \union Noting("assertion", assertionCut)
                             \union Noting("legacy", legacyCut)
    BY DEF Examine
<1>2. PICK answered \in (IF legacyCut THEN BOOLEAN ELSE {LegacyPasses(result)}) :
           LET asserted == Asserted(result) /\ ~assertionCut
               verified == Compatible(result) = Compatible(target) /\ asserted
               kept     == Kept(result) = Kept(Baseline)
               legacy   == answered /\ asserted
               proceed  == verified /\ kept /\ legacy
               unproven == IF proceed THEN "NOT_TESTED" ELSE "FAIL"
           IN  /\ Set([schema_application |-> Status(verified),
                       data_preservation  |-> Status(kept),
                       legacy_queries     |-> Status(legacy),
                       failure_recovery   |-> unproven,
                       idempotent_retry   |-> unproven])
               /\ pc' = IF proceed THEN "inject" ELSE "judge"
               /\ cut' = cut \union Noting("assertion", assertionCut)
                             \union Noting("legacy", legacyCut)
    BY <1>1
<1> DEFINE asserted == Asserted(result) /\ ~assertionCut
           verified == Compatible(result) = Compatible(target) /\ asserted
           kept     == Kept(result) = Kept(Baseline)
           legacy   == answered /\ asserted
           proceed  == verified /\ kept /\ legacy
           unproven == IF proceed THEN "NOT_TESTED" ELSE "FAIL"
           changes  == [schema_application |-> Status(verified),
                        data_preservation  |-> Status(kept),
                        legacy_queries     |-> Status(legacy),
                        failure_recovery   |-> unproven,
                        idempotent_retry   |-> unproven]
<1>3. /\ Set(changes) /\ pc' = (IF proceed THEN "inject" ELSE "judge")
      /\ cut' = (cut \union Noting("assertion", assertionCut)) \union Noting("legacy", legacyCut)
    BY <1>2
<1>4. /\ Status(verified) \in EvidenceStatus /\ (Status(verified) = "PASS" <=> verified)
      /\ Status(kept) \in EvidenceStatus /\ (Status(kept) = "PASS" <=> kept)
      /\ Status(legacy) \in EvidenceStatus /\ (Status(legacy) = "PASS" <=> legacy)
    BY StatusIs
<1>5. unproven \in EvidenceStatus /\ unproven # "PASS"
    BY DEF EvidenceStatus
<1>6. target = Intended.db /\ result = Planned.db /\ Planned.ok
    BY DEF EvidenceTrue, Progress, Examine
<1>7. /\ cut \subseteq cut'
      /\ assertionCut \/ legacyCut => cut' # {}
      /\ "legacy" \notin cut' => ~legacyCut
    BY <1>3 DEF Noting
<1>8. answered = LegacyPasses(result) \/ legacyCut
    BY <1>2
<1>9. proceed => Fulfils /\ ("legacy" \notin cut' => LegacyPasses(Planned.db))
    BY <1>6, <1>7, <1>8 DEF Fulfils
<1>10. ~proceed /\ cut' = {} => Reason
    BY <1>6, <1>7, <1>8 DEF Fulfils, Reason
<1>11. /\ dimensions' \in [Dimension -> EvidenceStatus]
       /\ \A d \in Dimension :
            dimensions'[d] = IF d \in DOMAIN changes THEN changes[d] ELSE dimensions[d]
    <2>1. \A d \in DOMAIN changes : changes[d] \in EvidenceStatus
        BY <1>4, <1>5
    <2> QED BY <1>3, <2>1, SetType DEF EvidenceTrue, Types
<1>12. /\ dimensions'["failure_recovery"] = unproven
       /\ proceed => Passing(Before)'
    <2>1. Passing({"prior_migrations", "fixture_load"})
        BY DEF EvidenceTrue, Reasons, Examine
    <2>2. /\ dimensions'["failure_recovery"] = unproven
          /\ dimensions'["schema_application"] = Status(verified)
          /\ dimensions'["data_preservation"] = Status(kept)
          /\ dimensions'["legacy_queries"] = Status(legacy)
          /\ dimensions'["prior_migrations"] = dimensions["prior_migrations"]
          /\ dimensions'["fixture_load"] = dimensions["fixture_load"]
        BY <1>11
    <2> HIDE DEF verified, kept, legacy
    <2> QED BY <1>4, <2>1, <2>2 DEF Passing, Before
<1> HIDE DEF proceed
<1>13. Progress'
    BY <1>3, <1>9, SameTruth DEF EvidenceTrue, Progress, Examine
<1>14. pc' = "judge" /\ cut' = {} => Reason
    BY <1>3, <1>10
<1>15. pc' # "judge" => dimensions'["failure_recovery"] = "NOT_TESTED"
    BY <1>3, <1>12
<1> HIDE DEF unproven
<1> QED BY <1>3, <1>5, <1>7, <1>11, <1>12, <1>13, <1>14, <1>15, Carried DEF Examine, Early

----------------------------------------------------------------------------
(* The interruptions *)

\* One more interruption, which passed only if it resumes and failed for no other
\* reason unless something was cut short.
LEMMA RunStep ==
    ASSUME EvidenceTrue, pc = "inject", pc' = "inject", Len(runs) <= Size,
           NEW status \in {"PASS", "FAIL"}, runs' = Append(runs, status),
           UNCHANGED <<bundle, plan, target, result, dimensions, verdict>>,
           cut \subseteq cut',
           status = "PASS" /\ "prefix" \notin cut' => Resumes(Len(runs)),
           status = "FAIL" /\ cut' = {} => ~Resumes(Len(runs))
    PROVE  EvidenceTrue'
<1>1. /\ Size' = Size /\ Reason' = Reason /\ Intended' = Intended /\ Planned' = Planned
      /\ Fulfils' = Fulfils /\ \A b : Resumes(b)' = Resumes(b)
    BY SameTruth
<1>2. /\ Len(runs') = Len(runs) + 1 /\ Len(runs) \in Nat
      /\ \A i \in 1..Len(runs) : runs'[i] = runs[i]
      /\ runs'[Len(runs) + 1] = status
      /\ runs' \in Seq({"PASS", "FAIL"})
    BY AppendProperties DEF EvidenceTrue, Types
<1>3. (Len(runs) + 1) - 1 = Len(runs)
    BY <1>2
<1>4. RunsTrue'
    <2> SUFFICES ASSUME "prefix" \notin cut', NEW i \in 1..Len(runs'), runs'[i] = "PASS"
                 PROVE  Resumes(i - 1)
        BY <1>1 DEF RunsTrue
    <2>1. CASE i = Len(runs) + 1
        BY <1>2, <1>3, <2>1
    <2>2. CASE i # Len(runs) + 1
        <3>1. i \in 1..Len(runs) /\ runs[i] = "PASS"
            BY <1>2, <2>2
        <3> QED BY <3>1 DEF EvidenceTrue, RunsTrue
    <2> QED BY <2>1, <2>2
<1>5. RunsComplete'
    <2>1. Len(runs') <= Size' + 1
        BY <1>1, <1>2 DEF EvidenceTrue, Types
    <2>2. ASSUME cut' = {}, NEW i \in 1..Len(runs'), runs'[i] = "FAIL"
          PROVE  ~Resumes(i - 1)
        <3>1. CASE i = Len(runs) + 1
            BY <1>2, <1>3, <2>2, <3>1
        <3>2. CASE i # Len(runs) + 1
            <4>1. i \in 1..Len(runs) /\ runs[i] = "FAIL" /\ cut = {}
                BY <1>2, <2>2, <3>2
            <4> QED BY <4>1 DEF EvidenceTrue, RunsComplete
        <3> QED BY <3>1, <3>2
    <2> QED BY <1>1, <2>1, <2>2 DEF RunsComplete
<1>6. Types' /\ Progress' /\ Recovered' /\ Reasons' /\ Judged'
    BY <1>1, <1>2
    DEF EvidenceTrue, Types, Progress, Recovered, Reasons, Judged, Experiment, Early, Passing
<1> QED BY <1>4, <1>5, <1>6 DEF EvidenceTrue

LEMMA InjectFailureStep == ASSUME EvidenceTrue, InjectFailure PROVE EvidenceTrue'
<1>1. PICK p \in Try("prefix", Through(Len(runs)), Baseline) :
        \E r \in Try("retry", Through(Size), p.db) :
            /\ runs' = Append(runs, Status(Matches(r)))
            /\ cut' = cut \union Noting("prefix", p.cut) \union Noting("retry", r.cut)
    BY DEF InjectFailure
<1>2. PICK r \in Try("retry", Through(Size), p.db) :
            /\ runs' = Append(runs, Status(Matches(r)))
            /\ cut' = (cut \union Noting("prefix", p.cut)) \union Noting("retry", r.cut)
    BY <1>1
<1>3. result = Planned.db
    BY DEF EvidenceTrue, Progress, InjectFailure
<1>4. /\ Status(Matches(r)) \in {"PASS", "FAIL"}
      /\ Status(Matches(r)) = "PASS" <=> Matches(r)
    BY StatusIs
<1>5. /\ cut \subseteq cut' /\ ("prefix" \notin cut' => ~p.cut)
      /\ cut' = {} => ~p.cut /\ ~r.cut
    BY <1>2 DEF Noting
<1>6. ~p.cut => p.db = Run(Through(Len(runs)), Baseline).db
    BY NotCut DEF Try, Attempt, Run
<1>7. /\ r.ok => r.db = Run(Through(Size), p.db).db /\ Run(Through(Size), p.db).ok
      /\ ~r.cut => r.db = Run(Through(Size), p.db).db /\ r.ok = Run(Through(Size), p.db).ok
    BY Succeeded, NotCut DEF Try, Attempt, Run
<1>8. Matches(r) /\ ~p.cut => Resumes(Len(runs))
    BY <1>3, <1>6, <1>7 DEF Matches, Resumes
<1>9. ~Matches(r) /\ ~p.cut /\ ~r.cut => ~Resumes(Len(runs))
    BY <1>3, <1>6, <1>7 DEF Matches, Resumes
<1> QED BY <1>2, <1>4, <1>5, <1>8, <1>9, RunStep DEF InjectFailure

LEMMA InjectNotRestoredStep == ASSUME EvidenceTrue, InjectNotRestored PROVE EvidenceTrue'
<1>1. cut \subseteq cut' /\ cut' # {}
    BY DEF InjectNotRestored
<1> QED BY <1>1, RunStep DEF InjectNotRestored

LEMMA AllInjectedStep == ASSUME EvidenceTrue, AllInjected PROVE EvidenceTrue'
<1> DEFINE all == \A i \in 1..Len(runs) : runs[i] = "PASS"
           changes == [failure_recovery |-> Status(all), idempotent_retry |-> Status(all)]
<1>1. /\ Status(all) \in EvidenceStatus /\ Status(all) \in {"PASS", "FAIL"}
      /\ Status(all) = "PASS" <=> all
    BY StatusIs
<1>2. /\ Set(changes) /\ pc = "inject" /\ pc' = "judge" /\ Len(runs) = Size + 1
      /\ UNCHANGED <<bundle, plan, target, result, runs, verdict, cut>>
    BY DEF AllInjected
<1>3. all => Earned
    <2>1. ASSUME all, "prefix" \notin cut, NEW b \in 0..Size PROVE Resumes(b)
        <3>1. b + 1 \in 1..Len(runs) /\ (b + 1) - 1 = b
            BY <1>2 DEF EvidenceTrue, Types
        <3>2. Resumes((b + 1) - 1)
            BY <2>1, <3>1 DEF EvidenceTrue, RunsTrue
        <3> QED BY <3>1, <3>2
    <2> QED BY <1>2, <2>1 DEF EvidenceTrue, Progress, Earned
<1>4. ~all /\ cut = {} => Reason
    <2> SUFFICES ASSUME ~all, cut = {} PROVE \E b \in 0..Size : ~Resumes(b)
        BY DEF Reason
    <2>1. PICK i \in 1..Len(runs) : runs[i] # "PASS"
        OBVIOUS
    <2>2. runs[i] = "FAIL" /\ i - 1 \in 0..Size
        BY <1>2, <2>1 DEF EvidenceTrue, Types
    <2>3. ~Resumes(i - 1)
        BY <2>2 DEF EvidenceTrue, RunsComplete
    <2> QED BY <2>2, <2>3
<1> HIDE DEF all
<1>5. /\ dimensions' \in [Dimension -> EvidenceStatus]
      /\ \A d \in Dimension :
           dimensions'[d] = IF d \in {"failure_recovery", "idempotent_retry"}
                            THEN Status(all) ELSE dimensions[d]
    <2>1. \A d \in DOMAIN changes : changes[d] \in EvidenceStatus
        BY <1>1
    <2> QED BY <1>2, <2>1, SetType DEF EvidenceTrue, Types
<1> HIDE DEF changes
<1>6. /\ Size' = Size /\ Reason' = Reason /\ \A b : Resumes(b)' = Resumes(b)
    BY <1>2, SameTruth
<1>7. Types' /\ Progress' /\ RunsTrue' /\ RunsComplete'
    BY <1>2, <1>5, <1>6
    DEF EvidenceTrue, Types, Progress, RunsTrue, RunsComplete, Experiment
<1>8. Recovered'
    BY <1>1, <1>2, <1>3, <1>5, StaysEarned DEF Recovered, Early
<1>9. Reasons' /\ Judged'
    <2>1. ASSUME all, NEW d \in Mandatory PROVE dimensions'[d] = "PASS"
        <3>1. Status(all) = "PASS"
            BY <1>1, <2>1
        <3>2. Passing(Before)
            BY <1>2 DEF EvidenceTrue, Reasons
        <3>3. d \in Dimension /\ (d \in {"failure_recovery", "idempotent_retry"} \/ d \in Before)
            BY DEF Mandatory, Before
        <3> QED BY <1>5, <3>1, <3>2, <3>3 DEF Passing
    <2>2. all => Passed'
        BY <2>1 DEF Passed
    <2>3. pc' = "judge" /\ cut' = {} /\ ~Passed' => Reason'
        BY <1>2, <1>4, <1>6, <2>2
    <2> QED BY <1>2, <2>3 DEF EvidenceTrue, Reasons, Judged
<1> QED BY <1>7, <1>8, <1>9 DEF EvidenceTrue

----------------------------------------------------------------------------
(* The verdict *)

LEMMA EndStep ==
    ASSUME EvidenceTrue, pc' = "done",
           UNCHANGED <<bundle, plan, target, result, dimensions, runs, cut>>,
           verdict' = "VERIFIED_FOR_REVIEW" => dimensions["failure_recovery"] = "PASS",
           verdict' = "UNSAFE" /\ cut = {} => Reason
    PROVE  EvidenceTrue'
<1>1. /\ Size' = Size /\ Reason' = Reason /\ \A b : Resumes(b)' = Resumes(b)
    BY SameTruth
<1>2. Types' /\ Progress' /\ RunsTrue' /\ RunsComplete' /\ Reasons' /\ Judged'
    BY <1>1
    DEF EvidenceTrue, Types, Progress, RunsTrue, RunsComplete, Reasons, Judged, Experiment
<1>3. Recovered'
    BY StaysEarned DEF EvidenceTrue, Recovered, Early
<1> QED BY <1>2, <1>3 DEF EvidenceTrue

LEMMA JudgeStep == ASSUME EvidenceTrue, Judge PROVE EvidenceTrue'
<1>1. Passed => dimensions["failure_recovery"] = "PASS"
    BY DEF Passed, Mandatory
<1>2. ~Passed /\ cut = {} => Reason
    BY DEF EvidenceTrue, Reasons, Judge
<1> QED BY <1>1, <1>2, EndStep DEF Judge

LEMMA EvidenceStep == EvidenceTrue /\ [Next]_vars => EvidenceTrue'
<1> SUFFICES ASSUME EvidenceTrue, [Next]_vars PROVE EvidenceTrue'
    OBVIOUS
<1>1. CASE TargetNotRestored
    BY <1>1, TargetNotRestoredStep
<1>2. CASE BuildTarget
    BY <1>2, BuildTargetStep
<1>3. CASE RestoreBaseline
    BY <1>3, RestoreBaselineStep
<1>4. CASE ApplyPlan
    BY <1>4, ApplyPlanStep
<1>5. CASE Examine
    BY <1>5, ExamineStep
<1>6. CASE InjectFailure
    BY <1>6, InjectFailureStep
<1>7. CASE InjectNotRestored
    BY <1>7, InjectNotRestoredStep
<1>8. CASE AllInjected
    BY <1>8, AllInjectedStep
<1>9. CASE Judge
    BY <1>9, JudgeStep
<1>10. CASE SandboxError
    BY <1>10, EndStep DEF SandboxError
<1>11. CASE UNCHANGED vars
    <2>1. UNCHANGED <<bundle, plan, pc, target, result, dimensions, runs, verdict, cut>>
        BY <1>11 DEF vars
    <2>2. /\ Size' = Size /\ Reason' = Reason /\ Intended' = Intended /\ Planned' = Planned
          /\ Fulfils' = Fulfils /\ \A b : Resumes(b)' = Resumes(b)
        BY <2>1, SameTruth
    <2>3. Types' /\ Progress' /\ RunsTrue' /\ RunsComplete'
        BY <2>1, <2>2 DEF EvidenceTrue, Types, Progress, RunsTrue, RunsComplete
    <2>4. Recovered' /\ Reasons' /\ Judged'
        BY <2>1, <2>2, StaysEarned
        DEF EvidenceTrue, Recovered, Reasons, Judged, Passing, Passed
    <2> QED BY <2>3, <2>4 DEF EvidenceTrue
<1> QED BY <1>1, <1>2, <1>3, <1>4, <1>5, <1>6, <1>7, <1>8, <1>9, <1>10, <1>11 DEF Next

LEMMA EvidenceHolds == Spec => []EvidenceTrue
BY EvidenceInit, EvidenceStep, PTL DEF Spec

\* verify_plan and the service verify no plan that has not earned it, for every database,
\* migration and plan and whatever the time limits cut short.
THEOREM PlanIsSound == Spec => []PlanSound
<1>1. EvidenceTrue => PlanSound
    BY DEF EvidenceTrue, Judged, Recovered, Earned, PlanSound
<1> QED BY <1>1, EvidenceHolds, PTL

\* They reject no plan without a reason, as long as nothing is cut short.
THEOREM PlanIsComplete == Spec => []PlanComplete
<1>1. EvidenceTrue => PlanComplete
    BY DEF EvidenceTrue, Judged, Reason, PlanComplete
<1> QED BY <1>1, EvidenceHolds, PTL

----------------------------------------------------------------------------
(* Types *)

LEMMA TypesInit == Init => TypeOK
<1> SUFFICES ASSUME Init PROVE TypeOK
    OBVIOUS
<1>1. plan \in Payload
    BY PlanGiven
<1> QED BY <1>1, VerificationAssumption DEF Init, TypeOK, Untested, EvidenceStatus

\* A script is executed to its end on a database.
LEMMA TryType ==
    ASSUME NEW kind, NEW statements \in Seq(Statement), NEW db \in Database,
           NEW r \in Try(kind, statements, db)
    PROVE  r.db \in Database /\ (r.cut => kind \in Timeout)
<1>1. Len(statements) \in 0..Len(statements)
    OBVIOUS
<1> QED BY <1>1, AttemptType DEF Try

LEMMA TypesStep == TypeOK /\ EvidenceTrue' /\ [Next]_vars => TypeOK'
<1> SUFFICES ASSUME TypeOK, EvidenceTrue', [Next]_vars PROVE TypeOK'
    OBVIOUS
<1>1. /\ dimensions' \in [Dimension -> EvidenceStatus]
      /\ runs' \in Seq({"PASS", "FAIL"}) /\ pc' \in Experiment
    BY DEF EvidenceTrue, Types
<1>2. SUFFICES /\ UNCHANGED <<bundle, plan>>
               /\ target' \in Database /\ result' \in Database
               /\ verdict' \in {"none", "VERIFIED_FOR_REVIEW", "UNSAFE", "ERROR"}
               /\ cut' \subseteq Timeout
    BY <1>1 DEF TypeOK, Experiment
<1>3. bundle.script \in Seq(Statement) /\ cut \subseteq Timeout
    BY VerificationAssumption DEF TypeOK, Bundle
<1>4. Baseline \in Database /\ Unseeded \in Database
    BY VerificationAssumption
<1>5. \A kind : \A isCut \in MayCut(kind) : isCut => kind \in Timeout
    BY DEF MayCut
<1>6. CASE BuildTarget
    <2>1. PICK r \in Try("candidate", bundle.script, Unseeded) :
             target' = r.db /\ cut' = cut \union Noting("candidate", r.cut)
        BY <1>6 DEF BuildTarget
    <2>2. r.db \in Database /\ (r.cut => "candidate" \in Timeout)
        BY <1>3, <1>4, TryType
    <2>3. cut' \subseteq Timeout
        BY <1>3, <2>1, <2>2 DEF Noting
    <2> QED BY <1>6, <2>1, <2>2, <2>3 DEF BuildTarget, TypeOK
<1>7. CASE ApplyPlan
    <2>1. PICK r \in Try("plan", Through(Size), Baseline) :
             result' = r.db /\ cut' = cut \union Noting("plan", r.cut)
        BY <1>7 DEF ApplyPlan
    <2>2. Size \in 0..Size
        BY DEF TypeOK, Payload, Size
    <2>3. Through(Size) \in Seq(Statement)
        BY <2>2, ThroughType DEF TypeOK
    <2>4. r.db \in Database /\ (r.cut => "plan" \in Timeout)
        BY <1>4, <2>3, TryType
    <2>5. cut' \subseteq Timeout
        BY <1>3, <2>1, <2>4 DEF Noting
    <2> QED BY <1>7, <2>1, <2>4, <2>5 DEF ApplyPlan, TypeOK
<1>8. CASE RestoreBaseline
    <2>1. \E isCut \in MayCut("restore") : cut' = cut \union Noting("restore", isCut)
        BY <1>8 DEF RestoreBaseline
    <2>2. cut' \subseteq Timeout
        BY <1>3, <1>5, <2>1 DEF Noting
    <2> QED BY <1>8, <2>2 DEF RestoreBaseline, TypeOK
<1>9. CASE Examine
    <2>1. \E assertionCut \in MayCut("assertion"), legacyCut \in MayCut("legacy") :
             cut' = (cut \union Noting("assertion", assertionCut))
                      \union Noting("legacy", legacyCut)
        BY <1>9 DEF Examine
    <2>2. cut' \subseteq Timeout
        BY <1>3, <1>5, <2>1 DEF Noting
    <2> QED BY <1>9, <2>2 DEF Examine, TypeOK
<1>10. CASE InjectFailure
    <2>1. PICK p \in Try("prefix", Through(Len(runs)), Baseline) :
            \E r \in Try("retry", Through(Size), p.db) :
               cut' = (cut \union Noting("prefix", p.cut)) \union Noting("retry", r.cut)
        BY <1>10 DEF InjectFailure
    <2>2. /\ p.cut => "prefix" \in Timeout
          /\ \A r \in Try("retry", Through(Size), p.db) : r.cut => "retry" \in Timeout
        BY DEF Try, Attempt, Results
    <2>3. cut' \subseteq Timeout
        BY <1>3, <2>1, <2>2 DEF Noting
    <2> QED BY <1>10, <2>3 DEF InjectFailure, TypeOK
<1>11. CASE TargetNotRestored
    BY <1>3, <1>11 DEF TargetNotRestored, TypeOK
<1>12. CASE InjectNotRestored
    BY <1>3, <1>12 DEF InjectNotRestored, TypeOK
<1>13. CASE AllInjected \/ Judge \/ SandboxError
    BY <1>13 DEF AllInjected, Judge, SandboxError, TypeOK
<1>14. CASE UNCHANGED vars
    BY <1>14 DEF vars, TypeOK
<1> QED BY <1>6, <1>7, <1>8, <1>9, <1>10, <1>11, <1>12, <1>13, <1>14 DEF Next

\* What the candidate and the plan leave are databases, whatever their statements do and
\* wherever the executions stop; and only what has a time limit is cut short.
THEOREM VerificationTypes == Spec => []TypeOK
<1>1. TypeOK /\ EvidenceTrue /\ [Next]_vars => (TypeOK /\ EvidenceTrue)'
    BY TypesStep, EvidenceStep
<1> QED BY EvidenceInit, TypesInit, <1>1, PTL DEF Spec

----------------------------------------------------------------------------
(* The template *)

\* Items of one statement each are joined to a script of these statements.
LEMMA SinglesJoin ==
    ASSUME NEW ss \in Seq(Seq(Statement)), \A i \in 1..Len(ss) : Len(ss[i]) = 1
    PROVE  /\ Seqs!FlattenSeq(ss) \in Seq(Statement)
           /\ Len(Seqs!FlattenSeq(ss)) = Len(ss)
           /\ \A i \in 1..Len(ss) : Seqs!FlattenSeq(ss)[i] = ss[i][1]
<1> DEFINE n == Len(ss)
           Is(script, k) == /\ script \in Seq(Statement) /\ Len(script) = k
                            /\ \A j \in 1..k : script[j] = ss[j][1]
<1>1. CASE n = 0
    <2>1. ss = <<>> /\ Seqs!FlattenSeq(ss) = ss
        BY <1>1 DEF Seqs!FlattenSeq
    <2>2. \A i \in 1..0 : FALSE
        OBVIOUS
    <2>3. Len(ss) = 0 /\ Seqs!FlattenSeq(ss) \in Seq(Statement)
        BY <1>1, FlattenType
    <2> QED BY <2>1, <2>2, <2>3
<1>2. CASE n # 0
    <2>1. PICK f : Joined(f, ss) /\ Seqs!FlattenSeq(ss) = f[n]
        BY <1>2, FlattenJoins
    <2>2. n \in Nat /\ n \in 0..n
        OBVIOUS
    <2> DEFINE G == {i \in 0..n : i = 0 \/ Is(f[i], i)}
    <2>3. 0 \in G
        OBVIOUS
    <2>4. ASSUME NEW i \in 1..n, i - 1 \in G PROVE i \in G
        <3>1. f[i] = IF i = 1 THEN ss[i] ELSE f[i - 1] \o ss[i]
            BY <2>1 DEF Joined
        <3>2. ss[i] \in Seq(Statement) /\ Len(ss[i]) = 1
            OBVIOUS
        <3>3. CASE i = 1
            BY <3>1, <3>2, <3>3
        <3>4. CASE i # 1
            <4> DEFINE p == f[i - 1]
                       q == ss[i]
                       k == i - 1
            <4>1. Is(p, k)
                BY <2>4, <3>4
            <4>2. f[i] = p \o q
                BY <3>1, <3>4
            <4>3. k \in Nat /\ i = k + 1
                OBVIOUS
            <4>4. /\ p \in Seq(Statement) /\ Len(p) = k /\ \A j \in 1..k : p[j] = ss[j][1]
                  /\ q \in Seq(Statement) /\ Len(q) = 1 /\ q[1] = ss[i][1]
                BY <3>2, <4>1
            <4> HIDE DEF p, q, k, G, Is
            <4>5. /\ p \o q \in Seq(Statement) /\ Len(p \o q) = k + 1
                  /\ \A j \in 1 .. k + 1 :
                       (p \o q)[j] = IF j <= k THEN p[j] ELSE q[j - k]
                <5>1. p \o q \in Seq(Statement) /\ Len(p \o q) = Len(p) + Len(q)
                    BY <4>4, ConcatProperties
                <5>2. \A j \in 1 .. Len(p) + Len(q) :
                         (p \o q)[j] = IF j <= Len(p) THEN p[j] ELSE q[j - Len(p)]
                    BY <4>4, ConcatProperties
                <5> QED BY <4>4, <5>1, <5>2
            <4>6. ASSUME NEW j \in 1..i PROVE f[i][j] = ss[j][1]
                <5>1. j \in 1 .. k + 1
                    BY <4>3
                <5>2. CASE j \in 1..k
                    <6>1. j <= k
                        BY <4>3, <5>2
                    <6>2. (p \o q)[j] = p[j]
                        BY <4>5, <5>1, <6>1
                    <6> QED BY <4>2, <4>4, <5>2, <6>2
                <5>3. CASE j = k + 1
                    <6>1. ~(j <= k) /\ j - k = 1 /\ j = i
                        BY <4>3, <5>3
                    <6>2. (p \o q)[j] = q[1]
                        BY <4>5, <5>1, <6>1
                    <6> QED BY <4>2, <4>4, <6>1, <6>2
                <5> QED BY <4>3, <5>1, <5>2, <5>3
            <4>7. Is(f[i], i)
                BY <4>2, <4>3, <4>5, <4>6 DEF Is
            <4>8. i \in 0..n
                OBVIOUS
            <4> QED BY <4>7, <4>8 DEF G
        <3> QED BY <3>3, <3>4
    <2> HIDE DEF G, n
    <2>5. n \in G
        BY <2>2, <2>3, <2>4, Reaches
    <2> QED BY <1>2, <2>1, <2>5 DEF G, n
<1> QED BY <1>1, <1>2

LEMMA TemplateItems ==
    ASSUME NEW s \in Legible, NEW b \in 0..4
    PROVE  LET first == Seqs!FlattenSeq(SubSeq(Template(s).sql, 1, b))
           IN  /\ first \in Seq(Statement) /\ Len(first) = b
               /\ \A i \in 1..b : first[i] = Statements(s)[i]
<1> DEFINE ss == SubSeq(Template(s).sql, 1, b)
<1>1. Template(s).sql \in Seq(Seq(Statement))
    BY VerificationAssumption DEF Payload
<1>2. Template(s).sql = << <<Expand(s)>>, <<Backfill(s)>>, <<SetDefault(s)>>, <<Enforce(s)>> >>
    BY DEF Template
<1>3. /\ ss \in Seq(Seq(Statement)) /\ Len(ss) = b
      /\ \A i \in 1..b : ss[i] = Template(s).sql[i]
    <2> DEFINE S == Seq(Statement)
               items == Template(s).sql
    <2>1. items \in Seq(S) /\ Len(items) = 4
        BY <1>1, <1>2
    <2>2. b \in Nat /\ b <= 4 /\ \A i \in 1..b : i \in 1..4
        OBVIOUS
    <2> HIDE DEF S, items
    <2>3. SubSeq(items, 1, b) = [i \in 1..b |-> items[i]]
        BY <2>1, <2>2, SubSeqProperties
    <2>4. \A i \in 1..b : items[i] \in S
        BY <2>1, <2>2
    <2>5. SubSeq(items, 1, b) \in Seq(S) /\ Len(SubSeq(items, 1, b)) = b
        BY <2>1, <2>2, <2>3, <2>4
    <2> QED BY <2>3, <2>5 DEF S, items
<1>4. \A i \in 1..b : Template(s).sql[i] = <<Statements(s)[i]>>
    <2> SUFFICES ASSUME NEW i \in 1..b PROVE Template(s).sql[i] = <<Statements(s)[i]>>
        OBVIOUS
    <2>1. i = 1 \/ i = 2 \/ i = 3 \/ i = 4
        OBVIOUS
    <2> QED BY <1>2, <2>1 DEF Statements
<1> HIDE DEF ss
<1>5. ASSUME NEW i \in 1..b PROVE Len(ss[i]) = 1 /\ ss[i][1] = Statements(s)[i]
    <2>1. ss[i] = <<Statements(s)[i]>>
        BY <1>3, <1>4
    <2> QED BY <2>1
<1>6. /\ Seqs!FlattenSeq(ss) \in Seq(Statement) /\ Len(Seqs!FlattenSeq(ss)) = b
      /\ \A i \in 1..b : Seqs!FlattenSeq(ss)[i] = ss[i][1]
    BY <1>3, <1>5, SinglesJoin
<1> QED BY <1>5, <1>6 DEF ss

LEMMA TemplateStatements ==
    ASSUME NEW s \in Legible, NEW i \in 1..4
    PROVE  Statements(s)[i] \in Statement
<1> DEFINE first == Seqs!FlattenSeq(SubSeq(Template(s).sql, 1, 4))
<1>1. 4 \in 0..4
    OBVIOUS
<1>2. /\ first \in Seq(Statement) /\ Len(first) = 4
      /\ \A j \in 1..4 : first[j] = Statements(s)[j]
    BY <1>1, TemplateItems
<1> HIDE DEF first
<1>3. first \in Seq(Statement) /\ i \in 1..Len(first)
    BY <1>2
<1>4. first[i] \in Statement
    BY <1>3, ElementOfSeq
<1> QED BY <1>2, <1>4

\* The first items of the template take a database along a path of its statements.
LEMMA TemplateRun ==
    ASSUME NEW s \in Legible, NEW b \in 0..4, NEW x, x[0] \in Database,
           Path(x, Statements(s), b)
    PROVE  Run(Seqs!FlattenSeq(SubSeq(Template(s).sql, 1, b)), x[0])
             = [db |-> x[b], ok |-> TRUE]
<1> DEFINE first == Seqs!FlattenSeq(SubSeq(Template(s).sql, 1, b))
<1>1. /\ first \in Seq(Statement) /\ Len(first) = b
      /\ \A i \in 1..b : first[i] = Statements(s)[i]
    BY TemplateItems
<1> HIDE DEF first
<1>2. b \in Nat /\ Legal(first, b)
    BY <1>1 DEF Legal
<1>3. Path(x, first, b)
    BY <1>1 DEF Path
<1>4. Execute(first, b, x[0]) = [db |-> x[b], ok |-> TRUE]
    BY <1>2, <1>3, PathIsRun
<1> QED BY <1>1, <1>4 DEF Run, first

LEMMA TemplateIsWhole ==
    ASSUME NEW s \in Legible
    PROVE  Len(Template(s).sql) = 4 /\ SubSeq(Template(s).sql, 1, 4) = Template(s).sql
<1> DEFINE items == Template(s).sql
           S == Seq(Statement)
<1>1. items \in Seq(S)
    BY VerificationAssumption DEF Payload
<1>2. Len(items) = 4
    BY DEF Template
<1> HIDE DEF items, S
<1>3. SubSeq(items, 1, 4) = items
    BY <1>1, <1>2, SubSeqFull
<1> QED BY <1>2, <1>3 DEF items

\* Without an error, so does the whole.
LEMMA TemplatePath ==
    ASSUME NEW s \in Legible, NEW db \in Database,
           Run(Seqs!FlattenSeq(Template(s).sql), db).ok
    PROVE  \E x : /\ x[0] = db /\ Path(x, Statements(s), 4)
                  /\ Run(Seqs!FlattenSeq(Template(s).sql), db).db = x[4]
<1> DEFINE all == Seqs!FlattenSeq(Template(s).sql)
           first == Seqs!FlattenSeq(SubSeq(Template(s).sql, 1, 4))
<1>1. first = all
    BY TemplateIsWhole
<1>2. /\ all \in Seq(Statement) /\ Len(all) = 4
      /\ \A i \in 1..4 : all[i] = Statements(s)[i]
    <2>1. /\ first \in Seq(Statement) /\ Len(first) = 4
          /\ \A i \in 1..4 : first[i] = Statements(s)[i]
        <3>1. 4 \in 0..4
            OBVIOUS
        <3> QED BY <3>1, TemplateItems
    <2> HIDE DEF first, all
    <2> QED BY <1>1, <2>1
<1> HIDE DEF all, first
<1>3. Legal(all, 4)
    BY <1>2, TemplateStatements DEF Legal
<1>4. Run(all, db) = Execute(all, 4, db)
    BY <1>2 DEF Run
<1>5. Execute(all, 4, db).ok
    BY <1>4 DEF all
<1>6. PICK x : /\ x[0] = db /\ Path(x, all, 4) /\ Execute(all, 4, db).db = x[4]
    BY <1>3, <1>5, RunIsPath
<1>7. Path(x, Statements(s), 4)
    BY <1>2, <1>6 DEF Path
<1> QED BY <1>4, <1>6, <1>7 DEF all

\* What they lead to is what the laws of the template are about.
LEMMA TemplateReaches ==
    ASSUME NEW s \in Legible, NEW n \in 0..4, NEW x, Path(x, Statements(s), n),
           x[0] \in {Unseeded, Baseline}, NEW i \in 0..n
    PROVE  x[i] \in Reached(s) /\ x[i] \in Database
<1>1. i \in 0..4 /\ i \in Nat
    OBVIOUS
<1>2. Legal(Statements(s), i) /\ x[0] \in Database
    BY <1>1, TemplateStatements, VerificationAssumption DEF Legal
<1>3. Path(x, Statements(s), i)
    BY <1>1 DEF Path
<1>4. Execute(Statements(s), i, x[0]) = [db |-> x[i], ok |-> TRUE]
    BY <1>1, <1>2, <1>3, PathIsRun
<1>5. x[i] = Execute(Statements(s), i, x[0]).db
    BY <1>4
<1>6. x[i] \in Reached(s)
    BY <1>1, <1>5 DEF Reached
<1>7. x[i] \in Database
    <2>1. CASE i = 0
        BY <1>2, <2>1
    <2>2. CASE i # 0
        BY <2>2 DEF Path
    <2> QED BY <2>1, <2>2
<1> QED BY <1>6, <1>7

\* What these laws say of one step of a path.
LEMMA TemplateStep ==
    ASSUME NEW s \in Legible, NEW n \in 0..4, NEW x, Path(x, Statements(s), n),
           x[0] \in {Unseeded, Baseline}, NEW i \in 1..n
    PROVE  LET p == Statements(s)[i]
           IN  /\ Moot(p, x[i])
               /\ \A j \in 1..4 :
                    Moot(Statements(s)[j], x[i - 1]) => Moot(Statements(s)[j], x[i])
               /\ \A other \in Reached(s) :
                    Compatible(other) = Compatible(x[i - 1]) /\ Apply(p, other) # Failed
                    => Compatible(Apply(p, other)) = Compatible(x[i])
               /\ ~Moot(Expand(s), Baseline) => Kept(x[i]) = Kept(x[i - 1])
<1>1. i \in 1..4 /\ i - 1 \in 0..n
    OBVIOUS
<1>2. x[i - 1] \in Reached(s)
    BY <1>1, TemplateReaches
<1>3. Apply(Statements(s)[i], x[i - 1]) = x[i] /\ x[i] # Failed
    BY SandboxAssumption DEF Path
<1> QED BY <1>1, <1>2, <1>3, TemplateAssumption

\* Once a statement has been executed, it and those before it have nothing left to do.
LEMMA TemplateRepeats ==
    ASSUME NEW s \in Legible, NEW n \in 0..4, NEW x, Path(x, Statements(s), n),
           x[0] \in {Unseeded, Baseline}, NEW j \in 0..n, NEW i \in 1..j
    PROVE  Moot(Statements(s)[i], x[j])
<1> DEFINE p == Statements(s)[i]
           G == {k \in 0..n : i <= k => Moot(p, x[k])}
<1>1. 0 \in G
    OBVIOUS
<1>2. i \in 1..4
    OBVIOUS
<1>3. ASSUME NEW k \in 1..n, k - 1 \in G PROVE k \in G
    <2>1. CASE i = k
        <3>1. Moot(p, x[k])
            BY <2>1, TemplateStep
        <3> QED BY <3>1
    <2>2. CASE i # k
        <3>1. i <= k => i <= k - 1
            BY <2>2
        <3>2. Moot(p, x[k - 1]) => Moot(p, x[k])
            BY <1>2, TemplateStep
        <3> QED BY <1>3, <3>1, <3>2
    <2> QED BY <2>1, <2>2
<1>4. n \in Nat
    OBVIOUS
<1> HIDE DEF G
<1>5. j \in G
    BY <1>1, <1>3, <1>4, Reaches
<1>6. i <= j
    OBVIOUS
<1> QED BY <1>5, <1>6 DEF G

\* A path from what another one reaches after b statements to what that one leads to.
Rejoins(y, x, b, s) == y[0] = x[b] /\ y[4] = x[4] /\ Path(y, Statements(s), 4)

\* So the whole template may be executed again after any of its statements, and leads
\* to the same database.
LEMMA TemplateResumes ==
    ASSUME NEW s \in Legible, NEW x, Path(x, Statements(s), 4), x[0] = Baseline,
           NEW b \in 0..4
    PROVE  \E y : Rejoins(y, x, b, s)
<1> DEFINE y == [i \in 0..4 |-> IF i <= b THEN x[b] ELSE x[i]]
<1>1. \A i \in 0..4 : x[i] \in Database
    <2>1. ASSUME NEW i \in 0..4 PROVE x[i] \in Database
        <3>1. CASE i = 0
            BY <3>1 DEF Path
        <3>2. CASE i # 0
            BY <3>2 DEF Path
        <3> QED BY <3>1, <3>2
    <2> QED BY <2>1
<1>2. \A i \in 0..4 : y[i] = IF i <= b THEN x[b] ELSE x[i]
    OBVIOUS
<1> HIDE DEF y
<1>3. ASSUME NEW i \in 1..4
      PROVE  /\ y[i - 1] \in Database /\ y[i] \in Database
             /\ Apply(Statements(s)[i], y[i - 1]) = y[i]
    <2>1. i - 1 \in 0..4 /\ i \in 0..4 /\ b \in 0..4 /\ 4 \in 0..4
        OBVIOUS
    <2>2. y[i - 1] \in Database /\ y[i] \in Database
        BY <1>1, <1>2, <2>1
    <2>3. CASE i <= b
        <3>1. i - 1 <= b /\ i \in 1..b
            BY <2>3
        <3>2. y[i - 1] = x[b] /\ y[i] = x[b]
            BY <1>2, <2>1, <2>3, <3>1
        <3>3. Apply(Statements(s)[i], x[b]) = x[b]
            BY <2>1, <3>1, TemplateRepeats DEF Moot
        <3> QED BY <2>2, <3>2, <3>3
    <2>4. CASE ~(i <= b)
        <3>1. y[i - 1] = x[i - 1]
            <4>1. CASE i - 1 = b
                BY <1>2, <2>1, <4>1
            <4>2. CASE i - 1 # b
                <5>1. ~(i - 1 <= b)
                    BY <2>4, <4>2
                <5> QED BY <1>2, <2>1, <5>1
            <4> QED BY <4>1, <4>2
        <3>2. y[i] = x[i]
            BY <1>2, <2>1, <2>4
        <3>3. Apply(Statements(s)[i], x[i - 1]) = x[i]
            BY DEF Path
        <3> QED BY <2>2, <3>1, <3>2, <3>3
    <2> QED BY <2>3, <2>4
<1>4. Path(y, Statements(s), 4)
    BY <1>3 DEF Path
<1>5. y[0] = x[b]
    <2>1. 0 \in 0..4 /\ 0 <= b
        OBVIOUS
    <2> QED BY <1>2, <2>1
<1>6. y[4] = x[4]
    <2>1. 4 \in 0..4 /\ (4 <= b => b = 4)
        OBVIOUS
    <2> QED BY <1>2, <2>1
<1> QED BY <1>4, <1>5, <1>6 DEF Rejoins

\* On two databases of one schema, it leads to one schema.
LEMMA TemplateSchema ==
    ASSUME NEW s \in Legible, NEW x, Path(x, Statements(s), 4), x[0] = Baseline,
           NEW u, Path(u, Statements(s), 4), u[0] = Unseeded
    PROVE  Compatible(u[4]) = Compatible(x[4])
<1> DEFINE G == {i \in 0..4 : Compatible(u[i]) = Compatible(x[i])}
<1>1. 0 \in G
    BY TemplateAssumption
<1>2. ASSUME NEW i \in 1..4, i - 1 \in G PROVE i \in G
    <2>1. Compatible(u[i - 1]) = Compatible(x[i - 1]) /\ i \in 0..4 /\ 4 \in 0..4
        BY <1>2
    <2>2. u[i] # Failed /\ Apply(Statements(s)[i], u[i - 1]) = u[i]
        BY SandboxAssumption DEF Path
    <2>3. u[i - 1] \in Reached(s)
        <3>1. i - 1 \in 0..4
            OBVIOUS
        <3> QED BY <2>1, <3>1, TemplateReaches
    <2>4. Compatible(u[i]) = Compatible(x[i])
        BY <2>1, <2>2, <2>3, TemplateStep
    <2> QED BY <2>1, <2>4
<1>3. 4 \in Nat /\ 4 \in 0..4
    OBVIOUS
<1> HIDE DEF G
<1>4. 4 \in G
    BY <1>1, <1>2, <1>3, Reaches
<1> QED BY <1>4 DEF G

\* And it keeps the data, if the column is new.
LEMMA TemplateKeeps ==
    ASSUME NEW s \in Legible, NEW x, Path(x, Statements(s), 4), x[0] = Baseline,
           ~Moot(Expand(s), Baseline)
    PROVE  Kept(x[4]) = Kept(x[0])
<1> DEFINE G == {i \in 0..4 : Kept(x[i]) = Kept(x[0])}
<1>1. 0 \in G
    OBVIOUS
<1>2. ASSUME NEW i \in 1..4, i - 1 \in G PROVE i \in G
    <2>1. Kept(x[i - 1]) = Kept(x[0]) /\ i \in 0..4 /\ 4 \in 0..4
        BY <1>2
    <2>2. Kept(x[i]) = Kept(x[i - 1])
        BY <2>1, TemplateStep
    <2> QED BY <2>1, <2>2
<1>3. 4 \in Nat /\ 4 \in 0..4
    OBVIOUS
<1> HIDE DEF G
<1>4. 4 \in G
    BY <1>1, <1>2, <1>3, Reaches
<1> QED BY <1>4 DEF G

\* A path can be continued by a statement that is not refused.
LEMMA PathExtends ==
    ASSUME NEW statements, NEW n \in Nat, NEW x, x[0] \in Database, Path(x, statements, n),
           statements[n + 1] \in Statement, Apply(statements[n + 1], x[n]) # Failed
    PROVE  \E y : y[0] = x[0] /\ Path(y, statements, n + 1)
<1> DEFINE after == Apply(statements[n + 1], x[n])
           y == [i \in 0 .. n + 1 |-> IF i = n + 1 THEN after ELSE x[i]]
<1>1. x[n] \in Database
    <2>1. CASE n = 0
        BY <2>1
    <2>2. CASE n # 0
        <3>1. n \in 1..n
            BY <2>2
        <3> QED BY <3>1 DEF Path
    <2> QED BY <2>1, <2>2
<1>2. after \in Database
    BY <1>1, SandboxAssumption
<1>3. \A i \in 0 .. n + 1 : y[i] = IF i = n + 1 THEN after ELSE x[i]
    OBVIOUS
<1>4. Apply(statements[n + 1], x[n]) = after
    OBVIOUS
<1> HIDE DEF y, after
<1>5. ASSUME NEW i \in 1 .. n + 1
      PROVE  /\ y[i - 1] \in Database /\ y[i] \in Database
             /\ Apply(statements[i], y[i - 1]) = y[i]
    <2>1. i - 1 \in 0 .. n + 1 /\ i \in 0 .. n + 1 /\ i - 1 # n + 1
        OBVIOUS
    <2>2. y[i - 1] = x[i - 1]
        BY <1>3, <2>1
    <2>3. CASE i = n + 1
        <3>1. i - 1 = n
            BY <2>3
        <3>2. y[i] = after
            BY <1>3, <2>1, <2>3
        <3> QED BY <1>1, <1>2, <1>4, <2>2, <2>3, <3>1, <3>2
    <2>4. CASE i # n + 1
        <3>1. i \in 1..n
            BY <2>4
        <3>2. y[i] = x[i]
            BY <1>3, <2>1, <2>4
        <3> QED BY <2>2, <3>1, <3>2 DEF Path
    <2> QED BY <2>3, <2>4
<1>6. y[0] = x[0]
    <2>1. 0 \in 0 .. n + 1 /\ 0 # n + 1
        OBVIOUS
    <2> QED BY <1>3, <2>1
<1>7. Path(y, statements, n + 1)
    BY <1>5 DEF Path
<1> QED BY <1>6, <1>7

\* A new column that is added and filled can be given its default and be required.
LEMMA TemplateContinues ==
    ASSUME NEW s \in Legible, ~Moot(Expand(s), Baseline),
           Run(<<Expand(s), Backfill(s)>>, Baseline).ok
    PROVE  \E x : /\ x[0] = Baseline /\ Path(x, Statements(s), 4)
                  /\ Holds(NoNulls(s), x[4])
<1> DEFINE two == <<Expand(s), Backfill(s)>>
           P(i) == Statements(s)[i]
<1>1. /\ Expand(s) = P(1) /\ Backfill(s) = P(2) /\ SetDefault(s) = P(3) /\ Enforce(s) = P(4)
      /\ two[1] = P(1) /\ two[2] = P(2) /\ Len(two) = 2
    BY DEF Statements
<1>2. \A i \in 1..4 : P(i) \in Statement
    BY TemplateStatements
<1>3. Run(two, Baseline) = Execute(two, 2, Baseline)
    BY <1>1 DEF Run
<1>4. Execute(two, 2, Baseline).ok
    BY <1>3
<1> HIDE DEF two, P
<1>5. \A i \in 1..2 : two[i] = P(i) /\ two[i] \in Statement
    <2>1. \A i \in 1..2 : (i = 1 \/ i = 2) /\ i \in 1..4
        OBVIOUS
    <2> QED BY <1>1, <1>2, <2>1
<1>6. Baseline \in Database
    BY VerificationAssumption
<1>7. PICK z : z[0] = Baseline /\ Path(z, two, 2)
    <2>1. 2 \in Nat /\ Legal(two, 2)
        BY <1>5 DEF Legal
    <2> QED BY <1>4, <1>6, <2>1, RunIsPath
<1>8. Path(z, Statements(s), 2)
    BY <1>5, <1>7 DEF Path, P
<1>9. ASSUME NEW n \in 2..4, NEW x, x[0] = Baseline, Path(x, Statements(s), n)
      PROVE  /\ x[n] \in Reached(s)
             /\ Moot(Expand(s), x[n]) /\ Moot(Backfill(s), x[n])
    <2>1. n \in 0..4 /\ n \in 0..n /\ 1 \in 1..n /\ 2 \in 1..n
        OBVIOUS
    <2>2. x[n] \in Reached(s)
        BY <1>9, <2>1, TemplateReaches
    <2>3. Moot(P(1), x[n]) /\ Moot(P(2), x[n])
        BY <1>9, <2>1, TemplateRepeats DEF P
    <2> QED BY <1>1, <2>2, <2>3
<1>10. PICK w : w[0] = Baseline /\ Path(w, Statements(s), 3)
    <2>1. 2 \in 2..4 /\ 2 \in Nat /\ 2 + 1 = 3 /\ 3 \in 1..4
        OBVIOUS
    <2>2. Apply(SetDefault(s), z[2]) # Failed
        BY <1>7, <1>8, <1>9, <2>1, TemplateAssumption
    <2>3. Statements(s)[2 + 1] = SetDefault(s) /\ Statements(s)[2 + 1] \in Statement
        BY <1>1, <1>2, <2>1 DEF P
    <2>4. \E y : y[0] = z[0] /\ Path(y, Statements(s), 2 + 1)
        BY <1>6, <1>7, <1>8, <2>1, <2>2, <2>3, PathExtends
    <2> QED BY <1>7, <2>1, <2>4
<1>11. PICK x : x[0] = Baseline /\ Path(x, Statements(s), 4)
    <2>1. 3 \in 2..4 /\ 3 \in Nat /\ 3 + 1 = 4 /\ 4 \in 1..4
        OBVIOUS
    <2>2. Apply(Enforce(s), w[3]) # Failed
        BY <1>9, <1>10, <2>1, TemplateAssumption
    <2>3. Statements(s)[3 + 1] = Enforce(s) /\ Statements(s)[3 + 1] \in Statement
        BY <1>1, <1>2, <2>1 DEF P
    <2>4. \E y : y[0] = w[0] /\ Path(y, Statements(s), 3 + 1)
        BY <1>6, <1>10, <2>1, <2>2, <2>3, PathExtends
    <2> QED BY <1>10, <2>1, <2>4
<1>12. Holds(NoNulls(s), x[4])
    <2>1. 4 \in 2..4
        OBVIOUS
    <2> QED BY <1>9, <1>11, <2>1, TemplateAssumption
<1> QED BY <1>11, <1>12

\* Without an answer of the provider's, the plan for a statement it can read is the template.
LEMMA TemplateGenerated ==
    ASSUME NEW s \in Legible, Generate(NoPlan, <<s>>) # NoPlan
    PROVE  Generate(NoPlan, <<s>>) = Template(s)
<1>1. Readable(<<s>>) = {s}
    <2>1. DOMAIN <<s>> = {1} /\ <<s>>[1] = s /\ 1 - 1 = 0 /\ 1 .. 0 = {}
        OBVIOUS
    <2> QED BY <2>1 DEF Readable
<1>2. Fallback(<<s>>) = Template(s)
    BY <1>1 DEF Fallback
<1> QED BY <1>2 DEF Generate

LEMMA TemplateEarns ==
    ASSUME NEW s \in Legible, bundle.script = <<s>>, plan = Template(s),
           ~Moot(Expand(s), Baseline), Run(<<Expand(s), Backfill(s)>>, Baseline).ok,
           Run(Seqs!FlattenSeq(Template(s).sql), Unseeded).ok,
           Compatible(Run(Seqs!FlattenSeq(Template(s).sql), Unseeded).db)
             = Compatible(Intended.db)
    PROVE  Fulfils /\ \A b \in 0..Size : Resumes(b)
<1>1. PICK x : /\ x[0] = Baseline /\ Path(x, Statements(s), 4) /\ Holds(NoNulls(s), x[4])
    BY TemplateContinues
<1>2. PICK u : /\ u[0] = Unseeded /\ Path(u, Statements(s), 4)
               /\ Run(Seqs!FlattenSeq(Template(s).sql), Unseeded).db = u[4]
    <2>1. Unseeded \in Database
        BY VerificationAssumption
    <2> QED BY <2>1, TemplatePath
<1>3. Size = 4 /\ Baseline \in Database /\ 4 \in 0..4
    BY TemplateIsWhole, VerificationAssumption DEF Size
<1>4. Planned = [db |-> x[4], ok |-> TRUE]
    BY <1>1, <1>3, TemplateRun DEF Planned, Through
<1>5. Compatible(u[4]) = Compatible(x[4])
    BY <1>1, <1>2, TemplateSchema
<1>6. Kept(x[4]) = Kept(Baseline)
    BY <1>1, TemplateKeeps
<1>7. Asserted(x[4])
    <2>1. \A c \in Seqs!ToSet(plan.checks) : c = NoNulls(s)
        BY DEF Template, Seqs!ToSet
    <2> QED BY <1>1, <2>1 DEF Asserted
<1>8. Fulfils
    <2>1. Planned.ok /\ Planned.db = x[4]
        BY <1>4
    <2> QED BY <1>2, <1>5, <1>6, <1>7, <2>1 DEF Fulfils
<1>9. ASSUME NEW b \in 0..Size PROVE Resumes(b)
    <2>1. b \in 0..4
        BY <1>3
    <2>2. Path(x, Statements(s), b)
        BY <1>1, <2>1 DEF Path
    <2>3. Run(Through(b), Baseline) = [db |-> x[b], ok |-> TRUE]
        BY <1>1, <1>3, <2>1, <2>2, TemplateRun DEF Through
    <2>4. PICK y : Rejoins(y, x, b, s)
        <3>1. Path(x, Statements(s), 4) /\ x[0] = Baseline
            BY <1>1
        <3> QED BY <2>1, <3>1, TemplateResumes
    <2>5. y[0] \in Database /\ y[0] = x[b] /\ y[4] = x[4] /\ Path(y, Statements(s), 4)
        BY <2>4 DEF Rejoins, Path
    <2>6. Run(Through(Size), x[b]) = [db |-> x[4], ok |-> TRUE]
        BY <1>3, <2>5, TemplateRun DEF Through
    <2>7. Run(Through(b), Baseline).db = x[b]
        BY <2>3
    <2>8. Run(Through(Size), Run(Through(b), Baseline).db) = Planned
        BY <1>4, <2>6, <2>7
    <2> QED BY <1>4, <2>8 DEF Resumes
<1> QED BY <1>8, <1>9

\* The template is verified unless something is cut short or raises: what its statements do
\* once they do when they are repeated, so no interruption is told from none.
THEOREM TemplateIsOfUse == Spec => []TemplateVerifies
<1>1. PlanComplete /\ plan # NoPlan => TemplateVerifies
    <2> SUFFICES ASSUME PlanComplete, plan # NoPlan,
                        NEW s \in Legible,
                        bundle = [script |-> <<s>>, replays |-> TRUE, seeds |-> TRUE],
                        plan = Generate(NoPlan, <<s>>),
                        ~Moot(Expand(s), Baseline),
                        Run(<<Expand(s), Backfill(s)>>, Baseline).ok,
                        Planned.ok => LegacyPasses(Planned.db),
                        Intended.ok,
                        Run(Seqs!FlattenSeq(Template(s).sql), Unseeded).ok,
                        Compatible(Run(Seqs!FlattenSeq(Template(s).sql), Unseeded).db)
                          = Compatible(Intended.db),
                        cut = {}
                 PROVE  verdict # "UNSAFE"
        BY DEF TemplateVerifies
    <2>1. bundle.script = <<s>> /\ bundle.replays /\ bundle.seeds
        OBVIOUS
    <2>2. plan = Template(s)
        BY TemplateGenerated
    <2>3. Fulfils /\ \A b \in 0..Size : Resumes(b)
        BY <2>1, <2>2, TemplateEarns
    <2>4. LegacyPasses(Planned.db)
        BY <2>3 DEF Fulfils
    <2> QED BY <2>1, <2>3, <2>4 DEF PlanComplete
<1>2. Init => plan # NoPlan
    BY PlanGiven
<1>3. plan # NoPlan /\ [Next]_vars => (plan # NoPlan)'
    BY DEF Next, vars, TargetNotRestored, BuildTarget, RestoreBaseline, ApplyPlan, Examine,
           InjectFailure, InjectNotRestored, AllInjected, Judge, SandboxError
<1>4. Spec => []PlanComplete
    BY PlanIsComplete
<1> QED BY <1>1, <1>2, <1>3, <1>4, PTL DEF Spec
=============================================================================
