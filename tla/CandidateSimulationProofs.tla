---------------------- MODULE CandidateSimulationProofs ----------------------
(***************************************************************************)
(* The candidate simulation gives no favourable verdict that is not        *)
(* earned and raises no false alarm, and classifies a reversal by what it  *)
(* restores, for every database, every set of statements and migrations,   *)
(* and whatever executions are cut short.                                  *)
(***************************************************************************)
EXTENDS CandidateSimulation, SequenceTheorems, TLAPS

WF == INSTANCE WellFoundedInduction

USE DEF Dimension

(* What an execution that was not cut short, or that succeeded, tells. *)

LEMMA NotCut ==
    ASSUME NEW statements, NEW k, NEW db, NEW mayCut,
           NEW r \in Results(statements, k, db, mayCut), ~r.cut
    PROVE  /\ r.db = Execute(statements, k, db).db
           /\ r.ok = Execute(statements, k, db).ok
BY DEF Results

LEMMA Succeeded ==
    ASSUME NEW statements, NEW k, NEW db, NEW mayCut,
           NEW r \in Results(statements, k, db, mayCut), r.ok
    PROVE  /\ r.db = Execute(statements, k, db).db
           /\ Execute(statements, k, db).ok
BY DEF Results

LEMMA StatusIs ==
    ASSUME NEW holds
    PROVE  /\ Status(holds) \in EvidenceStatus /\ Status(holds) \in {"PASS", "FAIL"}
           /\ Status(holds) = "PASS" <=> holds
BY DEF Status, EvidenceStatus

(* Natural numbers *)

LEMMA LeastNatural ==
    ASSUME NEW S \in SUBSET Nat, S # {}
    PROVE  \E n \in S : \A m \in S : n <= m
<1> DEFINE R == WF!OpToRel(<, Nat)
<1>1. WF!IsWellFoundedOn(R, Nat)
    BY WF!NatLessThanWellFounded
<1>2. \A m, n \in Nat : m < n => <<m, n>> \in R
    BY DEF WF!OpToRel
<1> HIDE DEF R
<1>3. PICK n \in S : \A m \in S : ~(<<m, n>> \in R)
    BY <1>1, WF!WFMin
<1>4. \A m \in S : ~(m < n)
    BY <1>2, <1>3
<1> QED BY <1>4

\* The greatest element of what a scan from the end of a script looks for.
LEMMA GreatestUpTo ==
    ASSUME NEW n \in Nat, NEW S \in SUBSET (1..n), S # {}
    PROVE  \E i \in S : \A j \in S : j <= i
<1> DEFINE T == {k \in 0..n : n - k \in S}
<1>1. ASSUME NEW i \in S PROVE n - i \in T
    <2>1. i \in 1..n /\ n - (n - i) = i /\ n - i \in 0..n
        OBVIOUS
    <2> QED BY <2>1
<1>2. T \in SUBSET Nat /\ T # {}
    <2>1. T # {}
        <3>1. PICK i \in S : TRUE
            OBVIOUS
        <3> HIDE DEF T
        <3> QED BY <1>1, <3>1
    <2> QED BY <2>1
<1>3. PICK k \in T : \A m \in T : k <= m
    <2> HIDE DEF T
    <2> QED BY <1>2, LeastNatural
<1>4. ASSUME NEW j \in S PROVE j <= n - k
    <2>1. k <= n - j
        BY <1>1, <1>3
    <2> QED BY <2>1, <1>3
<1> QED BY <1>3, <1>4

(* Recursion on natural numbers, over the values of a set *)

\* What the first of a list of values has, and each hands on to the next, all have.
LEMMA Stays ==
    ASSUME NEW n \in Nat, NEW S, NEW g, g[0] \in S,
           \A i \in 1..n : g[i - 1] \in S => g[i] \in S
    PROVE  \A i \in 0..n : g[i] \in S
<1> DEFINE T == {i \in 0..n : g[i] \notin S}
<1> SUFFICES ASSUME T # {} PROVE FALSE
    OBVIOUS
<1>1. PICK i \in T : \A j \in T : i <= j
    <2>1. T \in SUBSET Nat
        OBVIOUS
    <2> HIDE DEF T
    <2> QED BY <2>1, LeastNatural
<1>2. i \in 1..n /\ i - 1 \in 0..n /\ ~(i <= i - 1)
    BY <1>1
<1>3. g[i - 1] \in S
    BY <1>1, <1>2
<1> QED BY <1>1, <1>2, <1>3

\* A list of n values after a base, in which each is made from the one before.
Chain(f, S, base, n, F) ==
    f \in [0..n -> S] /\ f[0] = base /\ \A i \in 1..n : f[i] = F[i][f[i - 1]]

LEMMA Recursion ==
    ASSUME NEW S, NEW base \in S, NEW n \in Nat, NEW F \in [1..n -> [S -> S]]
    PROVE  \E f : Chain(f, S, base, n, F)
<1> DEFINE T == {m \in 0..n : ~ \E f : Chain(f, S, base, m, F)}
<1> SUFFICES ASSUME T # {} PROVE FALSE
    <2>1. n \in 0..n
        OBVIOUS
    <2>2. n \notin T => \E f : Chain(f, S, base, n, F)
        BY <2>1
    <2> QED BY <2>2
<1>1. PICK m \in T : \A j \in T : m <= j
    <2>1. T \in SUBSET Nat
        OBVIOUS
    <2> HIDE DEF T
    <2> QED BY <2>1, LeastNatural
<1>2. m # 0
    <2> DEFINE one == [i \in 0..0 |-> base]
    <2>1. one \in [0..0 -> S] /\ one[0] = base
        OBVIOUS
    <2> HIDE DEF one
    <2>2. Chain(one, S, base, 0, F)
        BY <2>1 DEF Chain
    <2>3. 0 \notin T
        BY <2>2
    <2> HIDE DEF T
    <2> QED BY <1>1, <2>3
<1>3. m - 1 \in 0..n /\ m \in 1..n /\ ~(m <= m - 1)
    BY <1>1, <1>2
<1>4. PICK f : Chain(f, S, base, m - 1, F)
    BY <1>1, <1>3
<1> DEFINE g == [i \in 0..m |-> IF i = m THEN F[m][f[m - 1]] ELSE f[i]]
<1>5. \A i \in 0..m : i # m => i \in 0 .. m - 1
    BY <1>3
<1>6. g \in [0..m -> S]
    <2>1. m - 1 \in 0 .. m - 1
        BY <1>3
    <2>2. F[m][f[m - 1]] \in S
        BY <1>3, <1>4, <2>1 DEF Chain
    <2> QED BY <1>4, <1>5, <2>2 DEF Chain
<1>7. g[0] = base
    BY <1>3, <1>4 DEF Chain
<1>8. ASSUME NEW i \in 1..m PROVE g[i] = F[i][g[i - 1]]
    <2>1. i - 1 \in 0..m /\ i - 1 # m /\ i \in 0..m
        BY <1>3
    <2>2. g[i - 1] = f[i - 1]
        BY <2>1
    <2>3. CASE i = m
        BY <2>1, <2>2, <2>3
    <2>4. CASE i # m
        <3>1. i \in 1 .. m - 1
            BY <1>3, <2>4
        <3> QED BY <1>4, <2>1, <2>2, <2>4, <3>1 DEF Chain
    <2> QED BY <2>3, <2>4
<1> HIDE DEF g
<1>9. Chain(g, S, base, m, F)
    BY <1>6, <1>7, <1>8 DEF Chain
<1> QED BY <1>1, <1>9

----------------------------------------------------------------------------
(* An execution leaves a database, wherever it stops. *)

LEMMA AdvanceType ==
    ASSUME NEW r \in [db : Database, ok : BOOLEAN], NEW s \in Statement
    PROVE  Advance(r, s) \in [db : Database, ok : BOOLEAN]
<1>1. Apply(s, r.db) \in Database \union {Failed}
    BY SandboxAssumption
<1> QED BY <1>1 DEF Advance

\* The first k of a sequence, or of what counts as one, are statements.
Legal(statements, k) == \A i \in 1..k : statements[i] \in Statement

LEMMA ExecuteType ==
    ASSUME NEW statements, NEW k \in Nat, Legal(statements, k),
           NEW db \in Database
    PROVE  Execute(statements, k, db) \in [db : Database, ok : BOOLEAN]
<1> DEFINE Outcome == [db : Database, ok : BOOLEAN]
           base == [db |-> db, ok |-> TRUE]
           Is(f) == f = [i \in 0..k |->
                            IF i = 0 THEN base ELSE Advance(f[i - 1], statements[i])]
           after == CHOOSE f : Is(f)
           F == [i \in 1..k |-> [r \in Outcome |-> Advance(r, statements[i])]]
<1>1. k \in Nat /\ base \in Outcome
    OBVIOUS
<1>2. Execute(statements, k, db) = after[k]
    BY DEF Execute
<1>3. \A i \in 1..k, r \in Outcome : Advance(r, statements[i]) \in Outcome
    BY AdvanceType DEF Legal
<1> HIDE DEF Outcome, base, Is, after
<1>4. F \in [1..k -> [Outcome -> Outcome]]
    BY <1>3
<1>5. \A i \in 1..k, r \in Outcome : F[i][r] = Advance(r, statements[i])
    OBVIOUS
<1> HIDE DEF F
<1>6. PICK f : Chain(f, Outcome, base, k, F)
    BY <1>1, <1>4, Recursion
<1>7. Is(f)
    <2> USE DEF Is
    <2>1. ASSUME NEW i \in 0..k
          PROVE  f[i] = IF i = 0 THEN base ELSE Advance(f[i - 1], statements[i])
        <3>1. CASE i = 0
            BY <1>6, <3>1 DEF Chain
        <3>2. CASE i # 0
            <4>1. i \in 1..k /\ i - 1 \in 0..k
                BY <3>2
            <4>2. f[i] = F[i][f[i - 1]] /\ f[i - 1] \in Outcome
                BY <1>6, <4>1 DEF Chain
            <4> QED BY <1>5, <3>2, <4>1, <4>2
        <3> QED BY <3>1, <3>2
    <2> QED BY <1>6, <2>1 DEF Chain
<1>8. Is(after)
    BY <1>7 DEF after
<1>9. after[0] = base /\ \A i \in 1..k : after[i] = Advance(after[i - 1], statements[i])
    BY <1>1, <1>8 DEF Is
<1>10. \A i \in 0..k : after[i] \in Outcome
    BY <1>1, <1>3, <1>9, Stays
<1> QED BY <1>1, <1>2, <1>10 DEF Outcome

\* So does one that may be cut short; and it is, only if a time limit may do it.
LEMMA AttemptType ==
    ASSUME NEW kind, NEW statements \in Seq(Statement), NEW k \in 0..Len(statements),
           NEW db \in Database, NEW r \in Attempt(kind, statements, k, db)
    PROVE  r.db \in Database /\ r.ok \in BOOLEAN /\ (r.cut => kind \in Timeout)
<1>1. \A j \in 0..k : j \in Nat /\ Legal(statements, j)
    BY DEF Legal
<1>2. /\ Execute(statements, k, db) \in [db : Database, ok : BOOLEAN]
      /\ \A j \in 0..k : Execute(statements, j, db) \in [db : Database, ok : BOOLEAN]
    <2>1. k \in 0..k
        OBVIOUS
    <2> QED BY <1>1, <2>1, ExecuteType
<1>3. \/ /\ r.db = Execute(statements, k, db).db
         /\ r.ok = Execute(statements, k, db).ok
         /\ r.cut = FALSE
      \/ /\ kind \in Timeout /\ r.ok = FALSE
         /\ \E j \in 0..k : r.db = Execute(statements, j, db).db
    BY DEF Attempt, Results
<1> QED BY <1>2, <1>3

----------------------------------------------------------------------------
(* The inductive invariant *)

(***************************************************************************)
(* Every dimension that passed tells something that is true of the         *)
(* migration, except where the execution behind it was cut short; and the  *)
(* target stays what the candidate really makes of the baseline.           *)
(***************************************************************************)

Experiment == {"replay", "seed", "apply", "legacy", "rollback", "inject", "reapply",
               "judge", "done"}

Types ==
    /\ dimensions \in [Dimension -> EvidenceStatus]
    /\ runs \in Seq(Interruption)
    /\ Size \in Nat
    /\ pc \in Experiment

Pass(d) == dimensions[d] = "PASS"

Prepared ==
    /\ Pass("prior_migrations") => bundle.replays
    /\ Pass("fixture_load") => bundle.seeds
    /\ pc \in {"replay", "seed", "apply"} => dimensions["schema_application"] = "NOT_TESTED"
    /\ pc = "apply" => target = Baseline
    /\ pc = "reapply" => dimensions["schema_application"] = "FAIL"
    /\ pc \in Experiment \ {"judge", "done"} => dimensions["failure_recovery"] = "NOT_TESTED"

Targeted ==
    /\ pc \in {"legacy", "rollback", "inject"} =>
         Applied.ok /\ target = Applied.db
    /\ Pass("schema_application") => Applied.ok
    /\ Pass("data_preservation") => Kept(Applied.db) = Kept(Baseline)

Replayed == Pass("legacy_queries") /\ "legacy" \notin cut => LegacyPasses(Applied.db)

Undone == Pass("rollback_recovery") => Reverses

RunsTrue ==
    "prefix" \notin cut =>
        \A i \in 1..Len(runs) : runs[i].status = "PASS" => RetriesAfter(i - 1)

Recovered ==
    Pass("failure_recovery") /\ Pass("schema_application") /\ "prefix" \notin cut =>
        \A b \in 0..Size : RetriesAfter(b)

Judged ==
    /\ pc # "done" => verdict = "none"
    /\ verdict \in Favourable => bundle.risk # "critical" /\ \A d \in Dimension : Pass(d)

EvidenceTrue ==
    /\ Types /\ Prepared /\ Targeted /\ Replayed /\ Undone /\ RunsTrue /\ Recovered
    /\ Judged

LEMMA EvidenceInit == Init => EvidenceTrue
<1> SUFFICES ASSUME Init PROVE EvidenceTrue
    OBVIOUS
<1>1. Size \in Nat
    BY SimulationAssumption DEF Init, Bundle, Size, script
<1>2. Types
    BY <1>1 DEF Init, Types, Untested, EvidenceStatus, Experiment
<1> QED
    BY <1>2 DEF Init, Untested, EvidenceTrue, Prepared, Targeted, Replayed, Undone, RunsTrue,
                Recovered, Judged, Pass, Favourable

----------------------------------------------------------------------------
(* What is true of a migration does not change while it is simulated. *)

LEMMA SameTruth ==
    ASSUME bundle' = bundle
    PROVE  /\ Size' = Size /\ Applied' = Applied /\ Reverses' = Reverses
           /\ \A b : RetriesAfter(b)' = RetriesAfter(b)
BY DEF Size, script, Applied, Reverses, Reversed, Blocking, RetriesAfter

\* A step that keeps the interruptions, and forgets no execution that was cut short.
LEMMA SameRuns ==
    ASSUME RunsTrue, bundle' = bundle, runs' = runs, cut \subseteq cut'
    PROVE  RunsTrue'
BY SameTruth DEF RunsTrue

LEMMA SetType ==
    ASSUME NEW changes, \A d \in DOMAIN changes : changes[d] \in EvidenceStatus,
           dimensions \in [Dimension -> EvidenceStatus], Set(changes)
    PROVE  /\ dimensions' \in [Dimension -> EvidenceStatus]
           /\ \A d \in Dimension :
                dimensions'[d] = IF d \in DOMAIN changes THEN changes[d] ELSE dimensions[d]
BY DEF Set, Recorded

----------------------------------------------------------------------------
(* The steps before the interruptions *)

\* What every experiment before the verdict has in common.
LEMMA Carried ==
    ASSUME EvidenceTrue, pc # "done", pc' \in Experiment,
           UNCHANGED <<bundle, runs, verdict>>, cut \subseteq cut',
           dimensions' \in [Dimension -> EvidenceStatus]
    PROVE  /\ Types' /\ RunsTrue' /\ Judged'
           /\ Size' = Size /\ Applied' = Applied /\ Reverses' = Reverses
           /\ \A b : RetriesAfter(b)' = RetriesAfter(b)
<1>1. /\ Size' = Size /\ Applied' = Applied /\ Reverses' = Reverses
      /\ \A b : RetriesAfter(b)' = RetriesAfter(b)
    BY SameTruth
<1>2. RunsTrue'
    BY SameRuns DEF EvidenceTrue
<1>3. Types' /\ Judged'
    BY <1>1 DEF EvidenceTrue, Types, Judged, Favourable
<1> QED BY <1>1, <1>2, <1>3

LEMMA ReplayStep == ASSUME EvidenceTrue, Replay PROVE EvidenceTrue'
<1>1. PICK isCut \in MayCut("restore") :
        LET holds == bundle.replays /\ ~isCut
        IN  /\ Set([prior_migrations |-> Status(holds)])
            /\ pc' = IF holds THEN "seed" ELSE "judge"
            /\ cut' = cut \union Noting("restore", isCut)
    BY DEF Replay
<1> DEFINE holds == bundle.replays /\ ~isCut
           changes == [prior_migrations |-> Status(holds)]
<1>2. Status(holds) \in EvidenceStatus /\ (Status(holds) = "PASS" <=> holds)
    BY StatusIs
<1>3. /\ dimensions' \in [Dimension -> EvidenceStatus]
      /\ \A d \in Dimension :
           dimensions'[d] = IF d = "prior_migrations" THEN Status(holds) ELSE dimensions[d]
    BY <1>1, <1>2, SetType DEF EvidenceTrue, Types
<1>4. pc' = IF holds THEN "seed" ELSE "judge"
    BY <1>1
<1>5. cut \subseteq cut'
    BY <1>1
<1> HIDE DEF holds
<1>6. /\ Types' /\ RunsTrue' /\ Judged' /\ Applied' = Applied /\ Reverses' = Reverses
      /\ Size' = Size /\ \A b : RetriesAfter(b)' = RetriesAfter(b)
    BY <1>3, <1>4, <1>5, Carried DEF Replay, Experiment
<1>7. Prepared' /\ Targeted'
    BY <1>2, <1>3, <1>4, <1>6
    DEF EvidenceTrue, Prepared, Targeted, Pass, Replay, holds, EvidenceStatus, Experiment
<1>8. Replayed' /\ Undone' /\ Recovered'
    BY <1>3, <1>5, <1>6 DEF EvidenceTrue, Replayed, Undone, Recovered, Pass, Replay
<1> QED BY <1>6, <1>7, <1>8 DEF EvidenceTrue

LEMMA SeedStep == ASSUME EvidenceTrue, Seed PROVE EvidenceTrue'
<1>1. PICK isCut \in MayCut("seed") :
        LET holds == bundle.seeds /\ ~isCut
        IN  /\ Set([fixture_load |-> Status(holds)])
            /\ pc' = IF holds THEN "apply" ELSE "judge"
            /\ target' = IF holds THEN Baseline ELSE target
            /\ cut' = cut \union Noting("seed", isCut)
    BY DEF Seed
<1> DEFINE holds == bundle.seeds /\ ~isCut
           changes == [fixture_load |-> Status(holds)]
<1>2. Status(holds) \in EvidenceStatus /\ (Status(holds) = "PASS" <=> holds)
    BY StatusIs
<1>3. /\ dimensions' \in [Dimension -> EvidenceStatus]
      /\ \A d \in Dimension :
           dimensions'[d] = IF d = "fixture_load" THEN Status(holds) ELSE dimensions[d]
    BY <1>1, <1>2, SetType DEF EvidenceTrue, Types
<1>4. /\ pc' = IF holds THEN "apply" ELSE "judge"
      /\ target' = IF holds THEN Baseline ELSE target
    BY <1>1
<1>5. cut \subseteq cut'
    BY <1>1
<1> HIDE DEF holds
<1>6. /\ Types' /\ RunsTrue' /\ Judged' /\ Applied' = Applied /\ Reverses' = Reverses
      /\ Size' = Size /\ \A b : RetriesAfter(b)' = RetriesAfter(b)
    BY <1>3, <1>4, <1>5, Carried DEF Seed, Experiment
<1>7. Prepared' /\ Targeted'
    BY <1>2, <1>3, <1>4, <1>6
    DEF EvidenceTrue, Prepared, Targeted, Pass, Seed, holds, EvidenceStatus, Experiment
<1>8. Replayed' /\ Undone' /\ Recovered'
    BY <1>3, <1>5, <1>6 DEF EvidenceTrue, Replayed, Undone, Recovered, Pass, Seed
<1> QED BY <1>6, <1>7, <1>8 DEF EvidenceTrue

LEMMA ApplyStep == ASSUME EvidenceTrue, ApplyCandidate PROVE EvidenceTrue'
<1>1. PICK r \in Attempt("candidate", script, Size, target) :
         /\ target' = r.db
         /\ Set([schema_application |-> Status(r.ok),
                 data_preservation |-> Status(r.ok /\ Kept(r.db) = Kept(Baseline))])
         /\ pc' = IF r.ok THEN "legacy" ELSE "reapply"
         /\ cut' = cut \union Noting("candidate", r.cut)
    BY DEF ApplyCandidate
<1>2. target = Baseline
    BY DEF EvidenceTrue, Prepared, ApplyCandidate
<1>3. r.ok => Applied.ok /\ r.db = Applied.db
    BY <1>2, Succeeded DEF Attempt, Applied
<1> DEFINE preserved == r.ok /\ Kept(r.db) = Kept(Baseline)
           changes == [schema_application |-> Status(r.ok),
                       data_preservation |-> Status(preserved)]
<1>4. /\ Status(r.ok) \in EvidenceStatus /\ (Status(r.ok) = "PASS" <=> r.ok)
      /\ Status(r.ok) \in {"PASS", "FAIL"}
      /\ Status(preserved) \in EvidenceStatus /\ (Status(preserved) = "PASS" <=> preserved)
    BY StatusIs
<1>5. /\ dimensions' \in [Dimension -> EvidenceStatus]
      /\ \A d \in Dimension :
           dimensions'[d] = IF d \in DOMAIN changes THEN changes[d] ELSE dimensions[d]
    <2>1. \A d \in DOMAIN changes : changes[d] \in EvidenceStatus
        BY <1>4
    <2> QED BY <1>1, <2>1, SetType DEF EvidenceTrue, Types
<1>6. \A d \in Dimension :
         dimensions'[d] = CASE d = "schema_application" -> Status(r.ok)
                            [] d = "data_preservation" -> Status(preserved)
                            [] OTHER -> dimensions[d]
    BY <1>5
<1>7. cut \subseteq cut' /\ pc' = (IF r.ok THEN "legacy" ELSE "reapply") /\ target' = r.db
    BY <1>1
<1> HIDE DEF changes
<1>8. /\ Types' /\ RunsTrue' /\ Judged' /\ Applied' = Applied /\ Reverses' = Reverses
      /\ Size' = Size /\ \A b : RetriesAfter(b)' = RetriesAfter(b)
    BY <1>5, <1>7, Carried DEF ApplyCandidate, Experiment
<1>9. Prepared' /\ Targeted'
    BY <1>3, <1>4, <1>6, <1>7, <1>8
    DEF EvidenceTrue, Prepared, Targeted, Pass, ApplyCandidate, Experiment
<1>10. Replayed' /\ Undone'
    BY <1>6, <1>7, <1>8 DEF EvidenceTrue, Replayed, Undone, Pass, ApplyCandidate
<1>11. Recovered'
    BY <1>6, <1>7, <1>8
    DEF EvidenceTrue, Prepared, Recovered, Pass, ApplyCandidate, Experiment
<1> QED BY <1>8, <1>9, <1>10, <1>11 DEF EvidenceTrue

LEMMA LegacyStep == ASSUME EvidenceTrue, ReplayLegacy PROVE EvidenceTrue'
<1>1. PICK isCut \in MayCut("legacy") :
         \E holds \in IF isCut THEN BOOLEAN ELSE {LegacyPasses(target)} :
            /\ Set([legacy_queries |-> Status(holds)])
            /\ cut' = cut \union Noting("legacy", isCut)
    BY DEF ReplayLegacy
<1>2. PICK holds \in IF isCut THEN BOOLEAN ELSE {LegacyPasses(target)} :
            /\ Set([legacy_queries |-> Status(holds)])
            /\ cut' = cut \union Noting("legacy", isCut)
    BY <1>1
<1> DEFINE changes == [legacy_queries |-> Status(holds)]
<1>3. Status(holds) \in EvidenceStatus /\ (Status(holds) = "PASS" <=> holds)
    BY StatusIs
<1>4. /\ dimensions' \in [Dimension -> EvidenceStatus]
      /\ \A d \in Dimension :
           dimensions'[d] = IF d = "legacy_queries" THEN Status(holds) ELSE dimensions[d]
    BY <1>2, <1>3, SetType DEF EvidenceTrue, Types
<1>5. cut \subseteq cut' /\ (isCut => "legacy" \in cut')
    BY <1>2 DEF Noting
<1>6. /\ Types' /\ RunsTrue' /\ Judged' /\ Applied' = Applied /\ Reverses' = Reverses
      /\ Size' = Size /\ \A b : RetriesAfter(b)' = RetriesAfter(b)
    BY <1>4, <1>5, Carried DEF ReplayLegacy, Experiment
<1>7. Prepared' /\ Targeted'
    BY <1>4, <1>6 DEF EvidenceTrue, Prepared, Targeted, Pass, ReplayLegacy, Experiment
<1>8. Replayed'
    <2>1. target = Applied.db
        BY DEF EvidenceTrue, Targeted, ReplayLegacy
    <2>2. ~isCut => holds = LegacyPasses(target)
        BY <1>2
    <2> QED BY <1>3, <1>4, <1>5, <1>6, <2>1, <2>2 DEF Replayed, Pass
<1>9. Undone' /\ Recovered'
    BY <1>4, <1>5, <1>6 DEF EvidenceTrue, Undone, Recovered, Pass, ReplayLegacy
<1> QED BY <1>6, <1>7, <1>8, <1>9 DEF EvidenceTrue

----------------------------------------------------------------------------
(* The reversal: it passes only if it was really carried out. *)

LEMMA RollbackStep ==
    ASSUME EvidenceTrue, pc = "rollback", pc' = "inject", cut \subseteq cut',
           NEW status \in EvidenceStatus, Set([rollback_recovery |-> status]),
           UNCHANGED <<bundle, target, runs, verdict>>,
           status = "PASS" => Reverses
    PROVE  EvidenceTrue'
<1> DEFINE changes == [rollback_recovery |-> status]
<1>1. /\ dimensions' \in [Dimension -> EvidenceStatus]
      /\ \A d \in Dimension :
           dimensions'[d] = IF d = "rollback_recovery" THEN status ELSE dimensions[d]
    BY SetType DEF EvidenceTrue, Types
<1>2. /\ Types' /\ RunsTrue' /\ Judged' /\ Applied' = Applied /\ Reverses' = Reverses
      /\ Size' = Size /\ \A b : RetriesAfter(b)' = RetriesAfter(b)
    BY <1>1, Carried DEF Experiment
<1>3. Prepared' /\ Targeted' /\ Undone'
    BY <1>1, <1>2 DEF EvidenceTrue, Prepared, Targeted, Undone, Pass, Experiment
<1>4. Replayed' /\ Recovered'
    BY <1>1, <1>2 DEF EvidenceTrue, Replayed, Recovered, Pass
<1> QED BY <1>2, <1>3, <1>4 DEF EvidenceTrue

LEMMA RollbackUnsupportedStep ==
    ASSUME EvidenceTrue, RollbackUnsupported PROVE EvidenceTrue'
<1>1. PICK status \in {"FAIL", "NOT_TESTED"} :
         Set([rollback_recovery |-> status]) /\ cut \subseteq cut'
    BY DEF RollbackUnsupported
<1> QED BY <1>1, RollbackStep DEF RollbackUnsupported, EvidenceStatus

LEMMA RollbackNotRestoredStep ==
    ASSUME EvidenceTrue, RollbackNotRestored PROVE EvidenceTrue'
BY RollbackStep DEF RollbackNotRestored, EvidenceStatus

LEMMA RollbackTriedStep == ASSUME EvidenceTrue, RollbackTried PROVE EvidenceTrue'
<1>1. PICK c \in Attempt("candidate", script, Size, Baseline) :
        \E u \in Attempt("inverse", Undo(script), Len(Undo(script)), c.db) :
            /\ Set([rollback_recovery |-> Status(c.ok /\ Restored(u))])
            /\ cut \subseteq cut'
    BY DEF RollbackTried
<1>2. PICK u \in Attempt("inverse", Undo(script), Len(Undo(script)), c.db) :
            /\ Set([rollback_recovery |-> Status(c.ok /\ Restored(u))])
            /\ cut \subseteq cut'
    BY <1>1
<1>3. ASSUME c.ok, Restored(u) PROVE Reverses
    <2>1. c.db = Applied.db
        BY <1>3, Succeeded DEF Attempt, Applied
    <2>2. u.db = Reversed.db /\ Reversed.ok
        BY <1>3, <2>1, Succeeded DEF Attempt, Reversed, Restored
    <2> QED BY <1>3, <2>2 DEF Reverses, Restored, RollbackTried
<1>4. /\ Status(c.ok /\ Restored(u)) \in EvidenceStatus
      /\ Status(c.ok /\ Restored(u)) = "PASS" => Reverses
    BY <1>3, StatusIs
<1> QED BY <1>2, <1>4, RollbackStep DEF RollbackTried

----------------------------------------------------------------------------
(* The interruptions *)

\* A run that passed, and whose interruption came where it should, is a retry that works.
LEMMA InterruptionAdded ==
    ASSUME EvidenceTrue, pc = "inject", cut \subseteq cut',
           NEW status \in {"PASS", "FAIL"}, NEW exact \in BOOLEAN,
           runs' = Append(runs, [status |-> status, exact |-> exact]),
           UNCHANGED <<bundle, pc, target, dimensions, verdict>>,
           status = "PASS" /\ "prefix" \notin cut' => RetriesAfter(Len(runs))
    PROVE  EvidenceTrue'
<1> DEFINE run == [status |-> status, exact |-> exact]
<1>1. runs \in Seq(Interruption) /\ run \in Interruption
    BY DEF EvidenceTrue, Types, Interruption
<1> HIDE DEF run
<1>2. /\ runs' \in Seq(Interruption) /\ Len(runs') = Len(runs) + 1 /\ Len(runs) \in Nat
      /\ \A i \in 1..Len(runs) : runs'[i] = runs[i]
      /\ runs'[Len(runs) + 1] = run
    BY <1>1, AppendProperties, LenProperties DEF run
<1>3. /\ Size' = Size /\ Applied' = Applied /\ Reverses' = Reverses
      /\ \A b : RetriesAfter(b)' = RetriesAfter(b)
    BY SameTruth
<1>4. RunsTrue'
    <2> SUFFICES ASSUME "prefix" \notin cut', NEW i \in 1..Len(runs'), runs'[i].status = "PASS"
                 PROVE  RetriesAfter(i - 1)
        BY <1>3 DEF RunsTrue
    <2>1. CASE i \in 1..Len(runs)
        BY <1>2, <2>1 DEF EvidenceTrue, RunsTrue
    <2>2. CASE i = Len(runs) + 1
        <3>1. status = "PASS" /\ i - 1 = Len(runs)
            BY <1>2, <2>2 DEF run
        <3> QED BY <3>1
    <2> QED BY <1>2, <2>1, <2>2
<1>5. Types' /\ Prepared' /\ Targeted'
    BY <1>2, <1>3 DEF EvidenceTrue, Types, Prepared, Targeted, Pass
<1>6. Replayed' /\ Undone' /\ Recovered' /\ Judged'
    BY <1>3 DEF EvidenceTrue, Replayed, Undone, Recovered, Judged, Pass
<1> QED BY <1>4, <1>5, <1>6 DEF EvidenceTrue

LEMMA InjectFailureStep == ASSUME EvidenceTrue, InjectFailure PROVE EvidenceTrue'
<1>1. PICK p \in Attempt("prefix", script, Len(runs), Baseline) :
        \E r \in Attempt("retry", script, Size, p.db) :
            /\ runs' = Append(runs, [status |-> Status(Matches(r)), exact |-> r.db = target])
            /\ cut' = cut \union Noting("prefix", p.cut) \union Noting("retry", r.cut)
    BY DEF InjectFailure
<1>2. PICK r \in Attempt("retry", script, Size, p.db) :
            /\ runs' = Append(runs, [status |-> Status(Matches(r)), exact |-> r.db = target])
            /\ cut' = cut \union Noting("prefix", p.cut) \union Noting("retry", r.cut)
    BY <1>1
<1>3. cut \subseteq cut' /\ ("prefix" \notin cut' => ~p.cut)
    BY <1>2 DEF Noting
<1>4. ASSUME Matches(r), "prefix" \notin cut' PROVE RetriesAfter(Len(runs))
    <2>1. p.db = Execute(script, Len(runs), Baseline).db
        BY <1>3, <1>4, NotCut DEF Attempt
    <2>2. r.ok /\ r.db = Execute(script, Size, p.db).db /\ Execute(script, Size, p.db).ok
        BY <1>4, Succeeded DEF Attempt, Matches
    <2>3. target = Applied.db
        BY DEF EvidenceTrue, Targeted, InjectFailure
    <2> QED BY <1>4, <2>1, <2>2, <2>3 DEF RetriesAfter, Matches
<1>5. /\ Status(Matches(r)) \in {"PASS", "FAIL"}
      /\ Status(Matches(r)) = "PASS" <=> Matches(r)
    BY StatusIs
<1>6. (r.db = target) \in BOOLEAN
    OBVIOUS
<1>7. UNCHANGED <<bundle, pc, target, dimensions, verdict>> /\ pc = "inject"
    BY DEF InjectFailure
<1> QED BY <1>2, <1>3, <1>4, <1>5, <1>6, <1>7, InterruptionAdded

LEMMA InjectNotRestoredStep == ASSUME EvidenceTrue, InjectNotRestored PROVE EvidenceTrue'
BY InterruptionAdded DEF InjectNotRestored

\* What the last two dimensions have in common.
LEMMA RecoverySet ==
    ASSUME EvidenceTrue, NEW status \in EvidenceStatus,
           Set([failure_recovery |-> status, idempotent_retry |-> status])
    PROVE  /\ dimensions' \in [Dimension -> EvidenceStatus]
           /\ \A d \in Dimension :
                dimensions'[d] = IF d \in {"failure_recovery", "idempotent_retry"}
                                 THEN status ELSE dimensions[d]
<1> DEFINE changes == [failure_recovery |-> status, idempotent_retry |-> status]
<1> QED BY SetType DEF EvidenceTrue, Types

LEMMA RecoveryStep ==
    ASSUME EvidenceTrue, pc \in {"inject", "reapply"}, pc' = "judge", cut \subseteq cut',
           NEW status \in EvidenceStatus,
           Set([failure_recovery |-> status, idempotent_retry |-> status]),
           UNCHANGED <<bundle, target, runs, verdict>>,
           pc = "inject" /\ status = "PASS" /\ "prefix" \notin cut =>
               \A b \in 0..Size : RetriesAfter(b)
    PROVE  EvidenceTrue'
<1>1. /\ dimensions' \in [Dimension -> EvidenceStatus]
      /\ \A d \in Dimension :
           dimensions'[d] = IF d \in {"failure_recovery", "idempotent_retry"}
                            THEN status ELSE dimensions[d]
    BY RecoverySet
<1>2. /\ Types' /\ RunsTrue' /\ Judged' /\ Applied' = Applied /\ Reverses' = Reverses
      /\ Size' = Size /\ \A b : RetriesAfter(b)' = RetriesAfter(b)
    BY <1>1, Carried DEF Experiment
<1>3. Prepared' /\ Targeted'
    BY <1>1, <1>2 DEF EvidenceTrue, Prepared, Targeted, Pass, Experiment
<1>4. Replayed' /\ Undone'
    BY <1>1, <1>2 DEF EvidenceTrue, Replayed, Undone, Pass
<1>5. Recovered'
    BY <1>1, <1>2 DEF EvidenceTrue, Prepared, Recovered, Pass
<1> QED BY <1>2, <1>3, <1>4, <1>5 DEF EvidenceTrue

LEMMA AllInjectedStep == ASSUME EvidenceTrue, AllInjected PROVE EvidenceTrue'
<1> DEFINE all == \A i \in 1..Len(runs) : runs[i].status = "PASS"
<1>1. Status(all) \in EvidenceStatus /\ (Status(all) = "PASS" <=> all)
    BY StatusIs
<1>2. ASSUME all, "prefix" \notin cut, NEW b \in 0..Size PROVE RetriesAfter(b)
    <2>1. b + 1 \in 1..Len(runs) /\ (b + 1) - 1 = b
        BY DEF AllInjected, EvidenceTrue, Types
    <2>2. \A i \in 1..Len(runs) : RetriesAfter(i - 1)
        BY <1>2 DEF EvidenceTrue, RunsTrue
    <2>3. RetriesAfter((b + 1) - 1)
        BY <2>1, <2>2
    <2> QED BY <2>1, <2>3
<1>3. /\ Set([failure_recovery |-> Status(all), idempotent_retry |-> Status(all)])
      /\ pc = "inject" /\ pc' = "judge" /\ UNCHANGED <<bundle, target, runs, verdict, cut>>
    BY DEF AllInjected
<1> HIDE DEF all
<1> QED BY <1>1, <1>2, <1>3, RecoveryStep

LEMMA ReapplyStep == ASSUME EvidenceTrue, Reapply PROVE EvidenceTrue'
<1>1. PICK status \in EvidenceStatus :
         /\ Set([failure_recovery |-> status, idempotent_retry |-> status])
         /\ cut \subseteq cut'
    BY StatusIs DEF Reapply, EvidenceStatus
<1> QED BY <1>1, RecoveryStep DEF Reapply

----------------------------------------------------------------------------
(* The verdict *)

LEMMA EndStep ==
    ASSUME EvidenceTrue, pc' \in {"judge", "done"},
           UNCHANGED <<bundle, target, dimensions, runs, cut>>,
           verdict' \in Favourable => bundle.risk # "critical" /\ \A d \in Dimension : Pass(d),
           pc' = "judge" => verdict' = "none"
    PROVE  EvidenceTrue'
<1>1. /\ Size' = Size /\ Applied' = Applied /\ Reverses' = Reverses
      /\ \A b : RetriesAfter(b)' = RetriesAfter(b)
    BY SameTruth
<1>2. Types' /\ Prepared' /\ Targeted' /\ Judged'
    BY <1>1 DEF EvidenceTrue, Types, Prepared, Targeted, Judged, Pass, Experiment
<1>3. Replayed' /\ Undone' /\ RunsTrue' /\ Recovered'
    BY <1>1, SameRuns DEF EvidenceTrue, Replayed, Undone, Recovered, Pass
<1> QED BY <1>2, <1>3 DEF EvidenceTrue

LEMMA JudgeStep == ASSUME EvidenceTrue, Judge PROVE EvidenceTrue'
<1>1. ASSUME CandidateVerdict \in Favourable
      PROVE  bundle.risk # "critical" /\ \A d \in Dimension : Pass(d)
    BY <1>1 DEF CandidateVerdict, Favourable, Some, Pass, EvidenceTrue, Types, EvidenceStatus
<1> QED BY <1>1, EndStep DEF Judge

LEMMA EvidenceStep == EvidenceTrue /\ [Next]_vars => EvidenceTrue'
<1> SUFFICES ASSUME EvidenceTrue, [Next]_vars PROVE EvidenceTrue'
    OBVIOUS
<1>1. CASE Skip
    <2>1. verdict = "none"
        BY <1>1 DEF EvidenceTrue, Judged, Skip
    <2> QED BY <1>1, <2>1, EndStep DEF Skip, Favourable
<1>2. CASE Replay
    BY <1>2, ReplayStep
<1>3. CASE Seed
    BY <1>3, SeedStep
<1>4. CASE ApplyCandidate
    BY <1>4, ApplyStep
<1>5. CASE ReplayLegacy
    BY <1>5, LegacyStep
<1>6. CASE RollbackUnsupported
    BY <1>6, RollbackUnsupportedStep
<1>7. CASE RollbackNotRestored
    BY <1>7, RollbackNotRestoredStep
<1>8. CASE RollbackTried
    BY <1>8, RollbackTriedStep
<1>9. CASE InjectFailure
    BY <1>9, InjectFailureStep
<1>10. CASE InjectNotRestored
    BY <1>10, InjectNotRestoredStep
<1>11. CASE AllInjected
    BY <1>11, AllInjectedStep
<1>12. CASE Reapply
    BY <1>12, ReapplyStep
<1>13. CASE Judge
    BY <1>13, JudgeStep
<1>14. CASE SandboxUnavailable
    BY <1>14, EndStep DEF SandboxUnavailable, Favourable
<1>15. CASE SandboxError
    BY <1>15, EndStep DEF SandboxError, Favourable
<1>16. CASE UNCHANGED vars
    <2>1. UNCHANGED <<bundle, pc, target, dimensions, runs, verdict, cut>>
        BY <1>16 DEF vars
    <2>2. /\ Size' = Size /\ Applied' = Applied /\ Reverses' = Reverses
          /\ \A b : RetriesAfter(b)' = RetriesAfter(b)
        BY <2>1, SameTruth
    <2>3. Types' /\ Prepared' /\ Targeted' /\ Judged'
        BY <2>1, <2>2 DEF EvidenceTrue, Types, Prepared, Targeted, Judged, Pass
    <2>4. Replayed' /\ Undone' /\ RunsTrue' /\ Recovered'
        BY <2>1, <2>2, SameRuns DEF EvidenceTrue, Replayed, Undone, Recovered, Pass
    <2> QED BY <2>3, <2>4 DEF EvidenceTrue
<1> QED BY <1>1, <1>2, <1>3, <1>4, <1>5, <1>6, <1>7, <1>8, <1>9, <1>10, <1>11, <1>12,
           <1>13, <1>14, <1>15, <1>16 DEF Next

\* A favourable verdict means that every dimension passed, and what passed is true.
LEMMA EvidenceSuffices == EvidenceTrue => VerdictSound
<1> SUFFICES ASSUME EvidenceTrue, verdict \in Favourable PROVE VerdictSound
    BY DEF VerdictSound
<1>1. bundle.risk # "critical" /\ \A d \in Dimension : Pass(d)
    BY DEF EvidenceTrue, Judged
<1>2. bundle.replays /\ bundle.seeds
    BY <1>1 DEF EvidenceTrue, Prepared
<1>3. AppliesSafely
    BY <1>1 DEF EvidenceTrue, Targeted, AppliesSafely
<1>4. Reverses
    BY <1>1 DEF EvidenceTrue, Undone
<1>5. "prefix" \notin cut => \A b \in 0..Size : RetriesAfter(b)
    BY <1>1 DEF EvidenceTrue, Recovered
<1>6. "legacy" \notin cut => LegacyPasses(Applied.db)
    BY <1>1 DEF EvidenceTrue, Replayed
<1> QED BY <1>1, <1>2, <1>3, <1>4, <1>5, <1>6 DEF VerdictSound

LEMMA EvidenceHolds == Spec => []EvidenceTrue
BY EvidenceInit, EvidenceStep, PTL DEF Spec

\* The engine and the service give no favourable verdict (CONDITIONALLY_VERIFIED,
\* VERIFIED_FOR_REVIEW) that the migration does not deserve, for every database and
\* migration and whatever the time limits cut short.
THEOREM VerdictIsSound == Spec => []VerdictSound
BY EvidenceHolds, EvidenceSuffices, PTL

----------------------------------------------------------------------------
(* The last statement without an inverse *)

LEMMA BlockingStatement ==
    ASSUME Size \in Nat, NEW known, Blocking(known) # 0
    PROVE  /\ Blocking(known) \in 1..Size
           /\ Reversal(script[Blocking(known)]) \notin known
           /\ \A j \in 1..Size : j > Blocking(known) => Reversal(script[j]) \in known
<1> DEFINE blocked == {i \in 1..Size : Reversal(script[i]) \notin known}
<1>1. blocked # {} /\ Blocking(known) = CHOOSE i \in blocked : \A j \in blocked : j <= i
    BY DEF Blocking
<1>2. \E i \in blocked : \A j \in blocked : j <= i
    BY <1>1, GreatestUpTo
<1>3. Blocking(known) \in blocked /\ \A j \in blocked : j <= Blocking(known)
    BY <1>1, <1>2
<1> QED BY <1>3

LEMMA BlockingFound ==
    ASSUME Size \in Nat, NEW known, NEW i \in 1..Size, Reversal(script[i]) \notin known,
           \A j \in 1..Size : j > i => Reversal(script[j]) \in known
    PROVE  Blocking(known) = i
<1> DEFINE blocked == {j \in 1..Size : Reversal(script[j]) \notin known}
<1>1. i \in blocked /\ \A j \in blocked : j <= i
    OBVIOUS
<1>2. \A k \in blocked : (\A j \in blocked : j <= k) => k = i
    BY <1>1
<1>3. Blocking(known) = CHOOSE k \in blocked : \A j \in blocked : j <= k
    BY <1>1 DEF Blocking
<1> QED BY <1>1, <1>2, <1>3

\* A query of the metadata that is cut short does not change what blocks the reversal,
\* unless it is a statement whose inverse it would have found.
LEMMA SameBlocking ==
    ASSUME Size \in Nat, Blocking({"SCRIPT"}) # 0,
           Reversal(script[Blocking({"SCRIPT"})]) # "METADATA"
    PROVE  Blocking({"SCRIPT", "METADATA"}) = Blocking({"SCRIPT"})
<1> DEFINE i == Blocking({"SCRIPT"})
<1>1. /\ i \in 1..Size
      /\ Reversal(script[i]) \notin {"SCRIPT"}
      /\ \A j \in 1..Size : j > i => Reversal(script[j]) \in {"SCRIPT"}
    BY BlockingStatement
<1> HIDE DEF i
<1>2. /\ Reversal(script[i]) \notin {"SCRIPT", "METADATA"}
      /\ \A j \in 1..Size : j > i => Reversal(script[j]) \in {"SCRIPT", "METADATA"}
    BY <1>1 DEF i
<1>3. Blocking({"SCRIPT", "METADATA"}) = i
    BY <1>1, <1>2, BlockingFound
<1> QED BY <1>3 DEF i

----------------------------------------------------------------------------
(* False alarms *)

Reason ==
    \/ ~bundle.replays \/ ~bundle.seeds \/ bundle.risk = "critical"
    \/ ~AppliesSafely
    \/ Irreversible
    \/ ~LegacyPasses(Applied.db)
    \/ \E b \in 0..Size : ~RetriesAfter(b)

\* What failed, as long as nothing was cut short, failed for a reason.
Reasons ==
    cut = {} =>
        /\ \A d \in Dimension : dimensions[d] = "FAIL" => Reason
        /\ \A i \in 1..Len(runs) : runs[i].status = "FAIL" => Reason
        /\ verdict = "UNSAFE" => Reason

LEMMA SameReason == ASSUME bundle' = bundle PROVE Reason' = Reason
BY SameTruth DEF Reason, AppliesSafely, Irreversible, Blocking, Reverses, Size, script

\* An experiment that sets dimensions, to FAIL for a reason only.
LEMMA ReasonsKept ==
    ASSUME EvidenceTrue, Reasons, UNCHANGED <<bundle, runs, verdict>>, cut \subseteq cut',
           NEW changes, \A d \in DOMAIN changes : changes[d] \in EvidenceStatus, Set(changes),
           cut' = {} => \A d \in DOMAIN changes : changes[d] = "FAIL" => Reason
    PROVE  Reasons'
<1>1. \A d \in Dimension :
         dimensions'[d] = IF d \in DOMAIN changes THEN changes[d] ELSE dimensions[d]
    BY SetType DEF EvidenceTrue, Types
<1>2. cut' = {} => cut = {}
    OBVIOUS
<1> QED BY <1>1, <1>2, SameReason DEF Reasons

LEMMA ReplayReasons == ASSUME EvidenceTrue, Reasons, Replay PROVE Reasons'
<1>1. PICK isCut \in MayCut("restore") :
            /\ Set([prior_migrations |-> Status(bundle.replays /\ ~isCut)])
            /\ cut' = cut \union Noting("restore", isCut)
    BY DEF Replay
<1> DEFINE status == Status(bundle.replays /\ ~isCut)
<1>2. status \in EvidenceStatus /\ (status = "PASS" <=> bundle.replays /\ ~isCut)
    BY StatusIs
<1>3. cut' = {} => ~isCut
    BY <1>1 DEF Noting
<1>4. status = "FAIL" /\ cut' = {} => Reason
    BY <1>2, <1>3 DEF Reason
<1>5. Set([prior_migrations |-> status]) /\ cut \subseteq cut'
    BY <1>1
<1>6. UNCHANGED <<bundle, runs, verdict>>
    BY DEF Replay
<1> HIDE DEF status
<1> QED BY <1>2, <1>4, <1>5, <1>6, ReasonsKept

LEMMA SeedReasons == ASSUME EvidenceTrue, Reasons, Seed PROVE Reasons'
<1>1. PICK isCut \in MayCut("seed") :
            /\ Set([fixture_load |-> Status(bundle.seeds /\ ~isCut)])
            /\ cut' = cut \union Noting("seed", isCut)
    BY DEF Seed
<1> DEFINE status == Status(bundle.seeds /\ ~isCut)
<1>2. status \in EvidenceStatus /\ (status = "PASS" <=> bundle.seeds /\ ~isCut)
    BY StatusIs
<1>3. cut' = {} => ~isCut
    BY <1>1 DEF Noting
<1>4. status = "FAIL" /\ cut' = {} => Reason
    BY <1>2, <1>3 DEF Reason
<1>5. Set([fixture_load |-> status]) /\ cut \subseteq cut'
    BY <1>1
<1>6. UNCHANGED <<bundle, runs, verdict>>
    BY DEF Seed
<1> HIDE DEF status
<1> QED BY <1>2, <1>4, <1>5, <1>6, ReasonsKept

LEMMA ApplyReasons == ASSUME EvidenceTrue, Reasons, ApplyCandidate PROVE Reasons'
<1>1. PICK r \in Attempt("candidate", script, Size, target) :
         /\ Set([schema_application |-> Status(r.ok),
                 data_preservation |-> Status(r.ok /\ Kept(r.db) = Kept(Baseline))])
         /\ cut' = cut \union Noting("candidate", r.cut)
    BY DEF ApplyCandidate
<1> DEFINE preserved == r.ok /\ Kept(r.db) = Kept(Baseline)
           changes == [schema_application |-> Status(r.ok),
                       data_preservation |-> Status(preserved)]
<1>2. target = Baseline
    BY DEF EvidenceTrue, Prepared, ApplyCandidate
<1>3. cut' = {} => r.db = Applied.db /\ r.ok = Applied.ok
    <2>1. cut' = {} => ~r.cut
        BY <1>1 DEF Noting
    <2> QED BY <1>2, <2>1, NotCut DEF Attempt, Applied
<1>4. /\ Status(r.ok) \in EvidenceStatus /\ (Status(r.ok) = "PASS" <=> r.ok)
      /\ Status(preserved) \in EvidenceStatus /\ (Status(preserved) = "PASS" <=> preserved)
    BY StatusIs
<1>5. cut' = {} /\ (Status(r.ok) = "FAIL" \/ Status(preserved) = "FAIL") => Reason
    BY <1>3, <1>4 DEF Reason, AppliesSafely
<1>6. \A d \in DOMAIN changes : changes[d] \in {Status(r.ok), Status(preserved)}
    OBVIOUS
<1>7. Set(changes) /\ cut \subseteq cut'
    BY <1>1
<1>8. UNCHANGED <<bundle, runs, verdict>>
    BY DEF ApplyCandidate
<1> HIDE DEF changes, preserved
<1> QED BY <1>4, <1>5, <1>6, <1>7, <1>8, ReasonsKept

LEMMA LegacyReasons == ASSUME EvidenceTrue, Reasons, ReplayLegacy PROVE Reasons'
<1>1. PICK isCut \in MayCut("legacy") :
         \E holds \in IF isCut THEN BOOLEAN ELSE {LegacyPasses(target)} :
            /\ Set([legacy_queries |-> Status(holds)])
            /\ cut' = cut \union Noting("legacy", isCut)
    BY DEF ReplayLegacy
<1>2. PICK holds \in IF isCut THEN BOOLEAN ELSE {LegacyPasses(target)} :
            /\ Set([legacy_queries |-> Status(holds)])
            /\ cut' = cut \union Noting("legacy", isCut)
    BY <1>1
<1>3. cut' = {} => ~isCut
    BY <1>2 DEF Noting
<1>4. target = Applied.db
    BY DEF EvidenceTrue, Targeted, ReplayLegacy
<1>5. cut' = {} => holds = LegacyPasses(Applied.db)
    BY <1>2, <1>3, <1>4
<1>6. Status(holds) \in EvidenceStatus /\ (Status(holds) = "PASS" <=> holds)
    BY StatusIs
<1>7. Status(holds) = "FAIL" /\ cut' = {} => Reason
    BY <1>5, <1>6 DEF Reason
<1>8. UNCHANGED <<bundle, runs, verdict>> /\ cut \subseteq cut'
    BY <1>2 DEF ReplayLegacy
<1> QED BY <1>2, <1>6, <1>7, <1>8, ReasonsKept

LEMMA RollbackUnsupportedReasons ==
    ASSUME EvidenceTrue, Reasons, RollbackUnsupported PROVE Reasons'
<1>1. PICK isCut \in MayCut("metadata") :
         LET known == IF isCut THEN {"SCRIPT"} ELSE {"SCRIPT", "METADATA"}
             found == Reversal(script[Blocking(known)])
         IN  /\ Blocking(known) # 0
             /\ Set([rollback_recovery |->
                       IF found = "NOT_APPLICABLE" THEN "NOT_TESTED" ELSE "FAIL"])
             /\ cut' = cut \union Noting("metadata", found = "METADATA")
    BY DEF RollbackUnsupported
<1> DEFINE known == IF isCut THEN {"SCRIPT"} ELSE {"SCRIPT", "METADATA"}
           found == Reversal(script[Blocking(known)])
           status == IF found = "NOT_APPLICABLE" THEN "NOT_TESTED" ELSE "FAIL"
<1>2. /\ Blocking(known) # 0
      /\ Set([rollback_recovery |-> status])
      /\ cut' = cut \union Noting("metadata", found = "METADATA")
    BY <1>1
<1>3. cut \subseteq cut' /\ (cut' = {} => found # "METADATA")
    BY <1>2 DEF Noting
<1>4. ASSUME cut' = {}, status = "FAIL" PROVE Reason
    <2>1. Size \in Nat /\ found # "METADATA" /\ found # "NOT_APPLICABLE"
        BY <1>3, <1>4 DEF EvidenceTrue, Types
    <2>2. Blocking({"SCRIPT", "METADATA"}) = Blocking(known)
        <3>1. CASE isCut
            <4>1. known = {"SCRIPT"}
                BY <3>1
            <4> QED BY <1>2, <2>1, <4>1, SameBlocking
        <3>2. CASE ~isCut
            BY <3>2
        <3> QED BY <3>1, <3>2
    <2>3. ~Reverses
        BY <1>2, <2>2 DEF Reverses
    <2> HIDE DEF known
    <2> QED BY <2>1, <2>2, <2>3 DEF Irreversible, Reason
<1>5. status \in EvidenceStatus
    BY DEF EvidenceStatus
<1>6. UNCHANGED <<bundle, runs, verdict>>
    BY DEF RollbackUnsupported
<1> HIDE DEF status
<1> QED BY <1>2, <1>3, <1>4, <1>5, <1>6, ReasonsKept

LEMMA RollbackTriedReasons ==
    ASSUME EvidenceTrue, Reasons, RollbackTried PROVE Reasons'
<1>1. PICK c \in Attempt("candidate", script, Size, Baseline) :
        \E u \in Attempt("inverse", Undo(script), Len(Undo(script)), c.db) :
            /\ Set([rollback_recovery |-> Status(c.ok /\ Restored(u))])
            /\ cut' = cut \union Noting("candidate", c.cut)
                          \union Noting("inverse", c.ok /\ u.cut)
    BY DEF RollbackTried
<1>2. PICK u \in Attempt("inverse", Undo(script), Len(Undo(script)), c.db) :
            /\ Set([rollback_recovery |-> Status(c.ok /\ Restored(u))])
            /\ cut' = cut \union Noting("candidate", c.cut)
                          \union Noting("inverse", c.ok /\ u.cut)
    BY <1>1
<1> DEFINE restored == c.ok /\ Restored(u)
<1>3. Status(restored) \in EvidenceStatus /\ (Status(restored) = "PASS" <=> restored)
    BY StatusIs
<1>4. ASSUME cut' = {}, ~restored PROVE Reason
    <2>1. ~c.cut /\ (c.ok => ~u.cut)
        BY <1>2, <1>4 DEF Noting
    <2>2. c.db = Applied.db /\ c.ok = Applied.ok
        BY <2>1, NotCut DEF Attempt, Applied
    <2>3. CASE ~c.ok
        BY <2>2, <2>3 DEF Reason, AppliesSafely
    <2>4. CASE c.ok
        <3>1. u.db = Reversed.db /\ u.ok = Reversed.ok
            BY <2>1, <2>2, <2>4, NotCut DEF Attempt, Reversed
        <3>2. ~Reverses
            BY <1>4, <2>4, <3>1 DEF Reverses, Restored
        <3> QED BY <3>2 DEF RollbackTried, Irreversible, Reason
    <2> QED BY <2>3, <2>4
<1>5. Set([rollback_recovery |-> Status(restored)]) /\ cut \subseteq cut'
    BY <1>2
<1>6. UNCHANGED <<bundle, runs, verdict>>
    BY DEF RollbackTried
<1> HIDE DEF restored
<1> QED BY <1>3, <1>4, <1>5, <1>6, ReasonsKept

\* An interruption that failed although nothing was cut short is a retry that fails.
LEMMA InterruptionReasons ==
    ASSUME EvidenceTrue, Reasons, UNCHANGED <<bundle, dimensions, verdict>>, cut \subseteq cut',
           NEW status \in {"PASS", "FAIL"}, NEW exact \in BOOLEAN,
           runs' = Append(runs, [status |-> status, exact |-> exact]),
           status = "FAIL" /\ cut' = {} => Reason
    PROVE  Reasons'
<1> DEFINE run == [status |-> status, exact |-> exact]
<1>1. runs \in Seq(Interruption) /\ run \in Interruption
    BY DEF EvidenceTrue, Types, Interruption
<1> HIDE DEF run
<1>2. /\ Len(runs') = Len(runs) + 1 /\ Len(runs) \in Nat
      /\ \A i \in 1..Len(runs) : runs'[i] = runs[i]
      /\ runs'[Len(runs) + 1] = run
    BY <1>1, AppendProperties, LenProperties DEF run
<1>3. ASSUME cut' = {}, NEW i \in 1..Len(runs'), runs'[i].status = "FAIL" PROVE Reason
    <2>1. CASE i \in 1..Len(runs)
        BY <1>2, <1>3, <2>1 DEF Reasons
    <2>2. CASE i = Len(runs) + 1
        BY <1>2, <1>3, <2>2 DEF run
    <2> QED BY <1>2, <2>1, <2>2
<1> QED BY <1>3, SameReason DEF Reasons

LEMMA InjectFailureReasons ==
    ASSUME EvidenceTrue, Reasons, InjectFailure PROVE Reasons'
<1>1. PICK p \in Attempt("prefix", script, Len(runs), Baseline) :
        \E r \in Attempt("retry", script, Size, p.db) :
            /\ runs' = Append(runs, [status |-> Status(Matches(r)), exact |-> r.db = target])
            /\ cut' = cut \union Noting("prefix", p.cut) \union Noting("retry", r.cut)
    BY DEF InjectFailure
<1>2. PICK r \in Attempt("retry", script, Size, p.db) :
            /\ runs' = Append(runs, [status |-> Status(Matches(r)), exact |-> r.db = target])
            /\ cut' = cut \union Noting("prefix", p.cut) \union Noting("retry", r.cut)
    BY <1>1
<1>3. ASSUME cut' = {}, ~Matches(r) PROVE Reason
    <2>1. ~p.cut /\ ~r.cut
        BY <1>2, <1>3 DEF Noting
    <2>2. p.db = Execute(script, Len(runs), Baseline).db
        BY <2>1, NotCut DEF Attempt
    <2>3. r.db = Execute(script, Size, p.db).db /\ r.ok = Execute(script, Size, p.db).ok
        BY <2>1, NotCut DEF Attempt
    <2>4. target = Applied.db
        BY DEF EvidenceTrue, Targeted, InjectFailure
    <2>5. ~RetriesAfter(Len(runs))
        BY <1>3, <2>2, <2>3, <2>4 DEF RetriesAfter, Matches
    <2>6. Len(runs) \in 0..Size
        BY LenProperties DEF EvidenceTrue, Types, InjectFailure
    <2> QED BY <2>5, <2>6 DEF Reason
<1>4. /\ Status(Matches(r)) \in {"PASS", "FAIL"}
      /\ Status(Matches(r)) = "PASS" <=> Matches(r)
    BY StatusIs
<1>5. UNCHANGED <<bundle, dimensions, verdict>> /\ cut \subseteq cut'
    BY <1>2 DEF InjectFailure
<1>6. (r.db = target) \in BOOLEAN
    OBVIOUS
<1> QED BY <1>2, <1>3, <1>4, <1>5, <1>6, InterruptionReasons

LEMMA AllInjectedReasons ==
    ASSUME EvidenceTrue, Reasons, AllInjected PROVE Reasons'
<1> DEFINE all == \A i \in 1..Len(runs) : runs[i].status = "PASS"
           changes == [failure_recovery |-> Status(all), idempotent_retry |-> Status(all)]
<1>1. Status(all) \in EvidenceStatus /\ (Status(all) = "PASS" <=> all)
    BY StatusIs
<1>2. ASSUME cut = {}, ~all PROVE Reason
    <2>1. PICK i \in 1..Len(runs) : runs[i].status # "PASS"
        BY <1>2
    <2>2. runs[i] \in Interruption
        BY <2>1, ElementOfSeq DEF EvidenceTrue, Types
    <2>3. runs[i].status = "FAIL"
        BY <2>1, <2>2 DEF Interruption
    <2> QED BY <1>2, <2>3 DEF Reasons
<1>3. Set(changes) /\ UNCHANGED <<bundle, runs, verdict, cut>>
    BY DEF AllInjected
<1> HIDE DEF all
<1>4. \A d \in DOMAIN changes : changes[d] = Status(all)
    OBVIOUS
<1> HIDE DEF changes
<1> QED BY <1>1, <1>2, <1>3, <1>4, ReasonsKept

\* The candidate has failed before, for a reason.
LEMMA ReapplyReasons == ASSUME EvidenceTrue, Reasons, Reapply PROVE Reasons'
<1>1. PICK status \in EvidenceStatus :
         /\ Set([failure_recovery |-> status, idempotent_retry |-> status])
         /\ cut \subseteq cut'
    BY StatusIs DEF Reapply, EvidenceStatus
<1> DEFINE changes == [failure_recovery |-> status, idempotent_retry |-> status]
<1>2. cut' = {} => Reason
    BY <1>1 DEF Reasons, Reapply, EvidenceTrue, Prepared
<1>3. \A d \in DOMAIN changes : changes[d] = status
    OBVIOUS
<1>4. UNCHANGED <<bundle, runs, verdict>>
    BY DEF Reapply
<1>5. Set(changes)
    BY <1>1
<1> HIDE DEF changes
<1> QED BY <1>1, <1>2, <1>3, <1>4, <1>5, ReasonsKept

LEMMA ReasonsStep == ASSUME EvidenceTrue, Reasons, [Next]_vars PROVE Reasons'
<1>1. CASE Replay \/ Seed \/ ApplyCandidate \/ ReplayLegacy \/ Reapply
    BY <1>1, ReplayReasons, SeedReasons, ApplyReasons, LegacyReasons, ReapplyReasons
<1>2. CASE RollbackUnsupported \/ RollbackTried \/ InjectFailure \/ AllInjected
    BY <1>2, RollbackUnsupportedReasons, RollbackTriedReasons, InjectFailureReasons,
       AllInjectedReasons
<1>3. CASE RollbackNotRestored \/ InjectNotRestored
    BY <1>3 DEF RollbackNotRestored, InjectNotRestored, Reasons
<1>4. CASE Judge
    <2>1. verdict' = "UNSAFE" => Some("FAIL") \/ bundle.risk = "critical"
        BY <1>4 DEF Judge, CandidateVerdict
    <2> QED BY <1>4, <2>1, SameReason DEF Judge, Reasons, Some, Reason
<1>5. CASE Skip \/ SandboxUnavailable \/ SandboxError \/ UNCHANGED vars
    <2>1. UNCHANGED <<bundle, dimensions, runs, cut>> /\ (verdict' = "UNSAFE" => verdict = "UNSAFE")
        BY <1>5 DEF Skip, SandboxUnavailable, SandboxError, vars
    <2> QED BY <2>1, SameReason DEF Reasons
<1> QED BY <1>1, <1>2, <1>3, <1>4, <1>5 DEF Next

\* _candidate_verdict calls no migration UNSAFE without a reason, for every database and
\* migration, unless a time limit interfered.
THEOREM VerdictIsComplete == Spec => []VerdictComplete
<1>1. Init => Reasons
    BY DEF Init, Reasons, Untested
<1>2. Spec => []Reasons
    BY <1>1, ReasonsStep, EvidenceHolds, PTL DEF Spec
<1>3. Reasons => VerdictComplete
    BY DEF Reasons, VerdictComplete, Reason
<1> QED BY <1>2, <1>3, PTL

----------------------------------------------------------------------------
(* The classification of the reversal *)

LEMMA SameReversal ==
    ASSUME ReversalHonest, UNCHANGED <<bundle, rollback>>
    PROVE  ReversalHonest'
<1>1. Reverses' = Reverses /\ Reversed' = Reversed
    BY SameTruth DEF Reversed, Applied, Size, script
<1> QED BY <1>1 DEF ReversalHonest

LEMMA RollbackTriedHonest ==
    ASSUME EvidenceTrue, RollbackTried PROVE ReversalHonest'
<1>1. PICK c \in Attempt("candidate", script, Size, Baseline) :
        \E u \in Attempt("inverse", Undo(script), Len(Undo(script)), c.db) :
            rollback' = IF ~(c.ok /\ Restored(u)) THEN "FORWARD_FIX_REQUIRED"
                        ELSE IF Kept(u.db) = Kept(Baseline) THEN "FULLY_REVERSIBLE"
                        ELSE "SCHEMA_REVERSIBLE"
    BY DEF RollbackTried
<1>2. PICK u \in Attempt("inverse", Undo(script), Len(Undo(script)), c.db) :
            rollback' = IF ~(c.ok /\ Restored(u)) THEN "FORWARD_FIX_REQUIRED"
                        ELSE IF Kept(u.db) = Kept(Baseline) THEN "FULLY_REVERSIBLE"
                        ELSE "SCHEMA_REVERSIBLE"
    BY <1>1
<1>3. bundle' = bundle
    BY DEF RollbackTried
<1>4. Reverses' = Reverses /\ Reversed' = Reversed
    BY <1>3, SameTruth DEF Reversed, Applied, Size, script
<1>5. ASSUME c.ok, Restored(u) PROVE Reverses /\ u.db = Reversed.db
    <2>1. c.db = Applied.db
        BY <1>5, Succeeded DEF Attempt, Applied
    <2>2. u.db = Reversed.db /\ Reversed.ok
        BY <1>5, <2>1, Succeeded DEF Attempt, Reversed, Restored
    <2> QED BY <1>5, <2>2 DEF Reverses, Restored, RollbackTried
<1> QED BY <1>2, <1>4, <1>5 DEF ReversalHonest

LEMMA RollbackUnsupportedHonest ==
    ASSUME EvidenceTrue, bundle \in Bundle, RollbackUnsupported PROVE ReversalHonest'
<1>1. PICK known : /\ Blocking(known) # 0
                   /\ rollback' = IF Reversal(script[Blocking(known)]) = "METADATA"
                                  THEN "EXTERNALLY_RECOVERABLE_ONLY"
                                  ELSE Reversal(script[Blocking(known)])
    BY DEF RollbackUnsupported
<1> DEFINE i == Blocking(known)
<1>2. i \in 1..Size
    BY <1>1, BlockingStatement DEF EvidenceTrue, Types
<1>3. script \in Seq(Statement)
    BY SimulationAssumption DEF Bundle, script
<1>4. script[i] \in Statement
    <2> HIDE DEF i
    <2> QED BY <1>2, <1>3 DEF Size
<1>5. Reversal(script[i]) \in {"SCRIPT", "METADATA", "EXTERNALLY_RECOVERABLE_ONLY",
                               "NOT_APPLICABLE"}
    BY <1>4, SimulationAssumption
<1> QED BY <1>1, <1>5 DEF ReversalHonest

LEMMA HonestStep ==
    ASSUME EvidenceTrue, bundle \in Bundle, ReversalHonest, [Next]_vars PROVE ReversalHonest'
<1>1. CASE RollbackTried
    BY <1>1, RollbackTriedHonest
<1>2. CASE RollbackUnsupported
    BY <1>2, RollbackUnsupportedHonest
<1>3. CASE UNCHANGED <<bundle, rollback>>
    BY <1>3, SameReversal
<1>4. QED
    BY <1>1, <1>2, <1>3
    DEF Next, vars, Skip, Replay, Seed, ApplyCandidate, ReplayLegacy, RollbackNotRestored,
        InjectFailure, InjectNotRestored, AllInjected, Reapply, Judge, SandboxUnavailable,
        SandboxError

\* A reversal is called FULLY_REVERSIBLE exactly if it restores schema and contents, and
\* SCHEMA_REVERSIBLE exactly if it restores the schema only, whatever was cut short.
THEOREM ReversalIsHonest == Spec => []ReversalHonest
<1>1. Init => bundle \in Bundle /\ ReversalHonest
    BY DEF Init, ReversalHonest
<1>2. bundle \in Bundle /\ [Next]_vars => (bundle \in Bundle)'
    BY DEF Next, vars, Skip, Replay, Seed, ApplyCandidate, ReplayLegacy, RollbackUnsupported,
           RollbackNotRestored, RollbackTried, InjectFailure, InjectNotRestored, AllInjected,
           Reapply, Judge, SandboxUnavailable, SandboxError
<1> QED BY <1>1, <1>2, HonestStep, EvidenceHolds, PTL DEF Spec

----------------------------------------------------------------------------
(* Types *)

\* The scan stops at a statement that is not one of the known kinds.
LEMMA BlockingType ==
    ASSUME bundle \in Bundle, NEW known, Blocking(known) # 0
    PROVE  /\ Blocking(known) \in 1..Size
           /\ Reversal(script[Blocking(known)]) \notin known
           /\ Reversal(script[Blocking(known)])
                \in {"SCRIPT", "METADATA", "EXTERNALLY_RECOVERABLE_ONLY", "NOT_APPLICABLE"}
<1> DEFINE blocked == {i \in 1..Size : Reversal(script[i]) \notin known}
           Last(i) == \A j \in blocked : j <= i
<1>1. script \in Seq(Statement) /\ Size \in Nat
    BY SimulationAssumption DEF Bundle, script, Size
<1>2. \A i \in 1..Size : script[i] \in Statement
    BY <1>1 DEF Size
<1>3. blocked # {} /\ Blocking(known) = CHOOSE i \in blocked : Last(i)
    BY DEF Blocking
<1>4. \E i \in blocked : Last(i)
    <2>1. blocked \in SUBSET (1..Size)
        OBVIOUS
    <2> HIDE DEF blocked
    <2> QED BY <1>1, <1>3, <2>1, GreatestUpTo
<1>5. Blocking(known) \in blocked
    BY <1>3, <1>4
<1> QED BY <1>2, <1>5, SimulationAssumption

LEMMA TypesInit == Init => TypeOK
BY SimulationAssumption
DEF Init, TypeOK, Untested, EvidenceStatus, RecoveryClassification

\* A number of statements of the migration is executed on a database.
LEMMA ScriptAttempt ==
    ASSUME bundle \in Bundle, NEW kind, NEW db \in Database,
           NEW r \in Attempt(kind, script, Size, db)
    PROVE  r.db \in Database /\ (r.cut => kind \in Timeout)
<1>1. script \in Seq(Statement) /\ Size \in Nat /\ Size = Len(script)
    BY SimulationAssumption DEF Bundle, script, Size
<1>2. Size \in 0..Len(script)
    BY <1>1
<1> QED BY <1>1, <1>2, AttemptType

LEMMA CutNoted ==
    ASSUME cut \subseteq Timeout, NEW kind, NEW isCut, isCut => kind \in Timeout
    PROVE  cut \union Noting(kind, isCut) \subseteq Timeout
BY DEF Noting

LEMMA TypesStep == TypeOK /\ EvidenceTrue /\ EvidenceTrue' /\ [Next]_vars => TypeOK'
<1> SUFFICES ASSUME TypeOK, EvidenceTrue, EvidenceTrue', [Next]_vars PROVE TypeOK'
    OBVIOUS
<1>1. /\ dimensions' \in [Dimension -> EvidenceStatus] /\ runs' \in Seq(Interruption)
      /\ pc' \in Experiment
    BY DEF EvidenceTrue, Types
<1>2. SUFFICES /\ bundle' = bundle
               /\ target' \in Database
               /\ rollback' \in RecoveryClassification
               /\ verdict' \in {"none", "UNSAFE", "CONDITIONALLY_VERIFIED",
                                "VERIFIED_FOR_REVIEW", "INSUFFICIENT_EVIDENCE", "ERROR"}
               /\ cut' \subseteq Timeout
    BY <1>1 DEF TypeOK, Experiment
<1>3. bundle \in Bundle /\ target \in Database /\ cut \subseteq Timeout
    BY DEF TypeOK
<1>4. Baseline \in Database
    BY SimulationAssumption
<1>5. \A kind : \A isCut \in MayCut(kind) : isCut => kind \in Timeout
    BY DEF MayCut
<1>6. CASE Replay \/ Seed \/ ReplayLegacy
    <2>1. bundle' = bundle /\ rollback' = rollback /\ verdict' = verdict
        BY <1>6 DEF Replay, Seed, ReplayLegacy
    <2>2. target' \in Database
        BY <1>3, <1>4, <1>6 DEF Replay, Seed, ReplayLegacy
    <2>3. cut' \subseteq Timeout
        <3>1. \E kind : \E isCut \in MayCut(kind) : cut' = cut \union Noting(kind, isCut)
            BY <1>6 DEF Replay, Seed, ReplayLegacy
        <3> QED BY <1>3, <1>5, <3>1, CutNoted
    <2> QED BY <2>1, <2>2, <2>3 DEF TypeOK
<1>7. CASE ApplyCandidate
    <2>1. PICK r \in Attempt("candidate", script, Size, target) :
             target' = r.db /\ cut' = cut \union Noting("candidate", r.cut)
        BY <1>7 DEF ApplyCandidate
    <2>2. r.db \in Database /\ (r.cut => "candidate" \in Timeout)
        BY <1>3, ScriptAttempt
    <2>3. cut' \subseteq Timeout
        BY <1>3, <2>1, <2>2, CutNoted
    <2> QED BY <1>7, <2>1, <2>2, <2>3 DEF ApplyCandidate, TypeOK
<1>8. CASE RollbackUnsupported
    <2>1. PICK isCut \in MayCut("metadata") :
             LET known == IF isCut THEN {"SCRIPT"} ELSE {"SCRIPT", "METADATA"}
                 found == Reversal(script[Blocking(known)])
             IN  /\ Blocking(known) # 0
                 /\ rollback' = IF found = "METADATA" THEN "EXTERNALLY_RECOVERABLE_ONLY"
                                ELSE found
                 /\ cut' = cut \union Noting("metadata", found = "METADATA")
        BY <1>8 DEF RollbackUnsupported
    <2> DEFINE known == IF isCut THEN {"SCRIPT"} ELSE {"SCRIPT", "METADATA"}
               found == Reversal(script[Blocking(known)])
    <2>2. /\ rollback' = IF found = "METADATA" THEN "EXTERNALLY_RECOVERABLE_ONLY" ELSE found
          /\ cut' = cut \union Noting("metadata", found = "METADATA")
          /\ Blocking(known) # 0
        BY <2>1
    <2> HIDE DEF known
    <2>3. /\ found \notin known
          /\ found \in {"SCRIPT", "METADATA", "EXTERNALLY_RECOVERABLE_ONLY", "NOT_APPLICABLE"}
        BY <1>3, <2>2, BlockingType
    <2> HIDE DEF found
    <2>4. found # "SCRIPT" /\ (found = "METADATA" => isCut)
        BY <2>3 DEF known
    <2>5. rollback' \in RecoveryClassification
        BY <2>2, <2>3, <2>4 DEF RecoveryClassification
    <2>6. cut' \subseteq Timeout
        <3>1. found = "METADATA" => "metadata" \in Timeout
            BY <1>5, <2>4
        <3> QED BY <1>3, <2>2, <3>1 DEF Noting
    <2> QED BY <1>8, <2>5, <2>6 DEF RollbackUnsupported, TypeOK
<1>9. CASE RollbackTried
    <2>1. PICK c \in Attempt("candidate", script, Size, Baseline) :
            \E u \in Attempt("inverse", Undo(script), Len(Undo(script)), c.db) :
              /\ rollback' \in {"FORWARD_FIX_REQUIRED", "FULLY_REVERSIBLE", "SCHEMA_REVERSIBLE"}
              /\ cut' = (cut \union Noting("candidate", c.cut))
                          \union Noting("inverse", c.ok /\ u.cut)
        BY <1>9 DEF RollbackTried
    <2>2. PICK u \in Attempt("inverse", Undo(script), Len(Undo(script)), c.db) :
              /\ rollback' \in {"FORWARD_FIX_REQUIRED", "FULLY_REVERSIBLE", "SCHEMA_REVERSIBLE"}
              /\ cut' = (cut \union Noting("candidate", c.cut))
                          \union Noting("inverse", c.ok /\ u.cut)
        BY <2>1
    <2>3. /\ c.cut => "candidate" \in Timeout
          /\ u.cut => "inverse" \in Timeout
        BY <1>3, <1>4, ScriptAttempt DEF Attempt, Results
    <2>4. cut' \subseteq Timeout
        BY <1>3, <2>2, <2>3 DEF Noting
    <2> QED BY <1>9, <2>2, <2>4 DEF RollbackTried, TypeOK, RecoveryClassification
<1>10. CASE InjectFailure
    <2>1. PICK p \in Attempt("prefix", script, Len(runs), Baseline) :
            \E r \in Attempt("retry", script, Size, p.db) :
               cut' = (cut \union Noting("prefix", p.cut)) \union Noting("retry", r.cut)
        BY <1>10 DEF InjectFailure
    <2>2. /\ p.cut => "prefix" \in Timeout
          /\ \A r \in Attempt("retry", script, Size, p.db) : r.cut => "retry" \in Timeout
        BY DEF Attempt, Results
    <2>3. cut' \subseteq Timeout
        BY <1>3, <2>1, <2>2 DEF Noting
    <2> QED BY <1>10, <2>3 DEF InjectFailure, TypeOK
<1>11. CASE Reapply
    <2>1. \A r \in Attempt("retry", script, Size, Baseline) : r.cut => "retry" \in Timeout
        BY DEF Attempt, Results
    <2>2. cut' \subseteq Timeout
        BY <1>3, <1>11, <2>1 DEF Reapply, Noting
    <2> QED BY <1>11, <2>2 DEF Reapply, TypeOK
<1>12. CASE RollbackNotRestored \/ InjectNotRestored
    BY <1>12 DEF RollbackNotRestored, InjectNotRestored, TypeOK
<1>13. CASE Skip \/ AllInjected \/ Judge \/ SandboxUnavailable \/ SandboxError
    BY <1>13 DEF Skip, AllInjected, Judge, SandboxUnavailable, SandboxError, CandidateVerdict,
                 TypeOK
<1>14. CASE UNCHANGED vars
    BY <1>14 DEF vars, TypeOK
<1> QED BY <1>6, <1>7, <1>8, <1>9, <1>10, <1>11, <1>12, <1>13, <1>14 DEF Next

\* What an experiment leaves is a database, whatever the statements do and wherever the
\* execution stops; a reversal is never classified as a kind of statement; and only what
\* has a time limit is cut short.
THEOREM SimulationTypes == Spec => []TypeOK
<1>1. TypeOK /\ EvidenceTrue /\ [Next]_vars => (TypeOK /\ EvidenceTrue)'
    BY TypesStep, EvidenceStep
<1> QED BY EvidenceInit, TypesInit, <1>1, PTL DEF Spec
=============================================================================
