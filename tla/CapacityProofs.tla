--------------------------- MODULE CapacityProofs ---------------------------
(***************************************************************************)
(* For any processes, threads and analyses and every limit: no more        *)
(* analyses than the limit wait to be run for the first time.              *)
(***************************************************************************)
EXTENDS Capacity, FiniteSetTheorems, TLAPS

----------------------------------------------------------------------------
(* The inductive invariant *)

Status == {"none", "gone", "STAGED", "RETURNED", "BUSY", "PLANNING", "DONE"}

\* What a thread holds.
Work == [on : Analysis \union {Nobody}, status : Status, cached : BOOLEAN,
         pc : {"idle", "findings", "cache", "claim", "annotate", "save", "delete"}]

Types ==
    /\ row \in [Analysis -> Status]
    /\ creation \in [Process -> [on : Analysis \union {Nobody},
                                 pc : {"idle", "count", "lock", "rows", "insert"}]]
    /\ work \in [Thread -> Work]

Waiting == {a \in Analysis : row[a] = "STAGED"}

\* An insight has findings: it is not saved as an analysis that was never run.
Sound(w) ==
    /\ w.pc # "idle" => w.on \in Analysis
    /\ w.pc = "annotate" => w.status # "STAGED"

\* Who has the lock is between its count and its commit, and nobody else is; once it has
\* counted there is room for its analysis.  Nothing else makes an analysis wait.
Inv ==
    /\ Types
    /\ \A p \in Process : creation[p].pc \in {"rows", "insert"} => lock = p
    /\ \A p \in Process : creation[p].pc # "idle" => creation[p].on \in Analysis
    /\ \A p \in Process : creation[p].pc = "insert" => Cardinality(Waiting) < Limit
    /\ \A t \in Thread : Sound(work[t])
    /\ StagedWithinLimit

LEMMA InitInv == Init => Inv
<1> SUFFICES ASSUME Init PROVE Inv
    OBVIOUS
<1>1. Waiting = {}
    BY DEF Init, Waiting
<1>2. Cardinality(Waiting) = 0
    BY <1>1, FS_EmptySet
<1> QED BY <1>2, CapacityAssumption
    DEF Init, Inv, Types, Status, Work, Sound, NoCreation, Idle, StagedWithinLimit, Waiting

----------------------------------------------------------------------------
(* How many wait *)

LEMMA WaitingFinite == IsFiniteSet(Waiting) /\ Cardinality(Waiting) \in Nat
<1>1. Waiting \subseteq Analysis
    BY DEF Waiting
<1> QED BY <1>1, CapacityAssumption, FS_Subset, FS_CardinalityType

\* The count of the rows is no less.
LEMMA WaitingCounted == Cardinality(Waiting) <= Cardinality(UnfinishedRows)
<1>1. Waiting \subseteq UnfinishedRows /\ UnfinishedRows \subseteq Analysis
    BY DEF Waiting, UnfinishedRows, Unfinished
<1> QED BY <1>1, CapacityAssumption, FS_Subset

\* Fewer analyses wait if none begins to.
LEMMA WaitingShrinks ==
    ASSUME \A a \in Analysis : row'[a] = "STAGED" => row[a] = "STAGED"
    PROVE  /\ Cardinality(Waiting') \in Nat
           /\ Cardinality(Waiting') <= Cardinality(Waiting)
<1>1. Waiting' \subseteq Waiting
    BY DEF Waiting
<1> QED BY <1>1, WaitingFinite, FS_Subset, FS_CardinalityType

\* A step that makes nothing wait keeps the limit, and the room of who has counted.
LEMMA LimitKept ==
    ASSUME Inv, \A a \in Analysis : row'[a] = "STAGED" => row[a] = "STAGED"
    PROVE  /\ StagedWithinLimit'
           /\ \A p \in Process : creation[p].pc = "insert" => Cardinality(Waiting') < Limit
<1>1. Cardinality(Waiting') \in Nat /\ Cardinality(Waiting') <= Cardinality(Waiting)
    BY WaitingShrinks
<1>2. Cardinality(Waiting) \in Nat /\ Limit \in Nat
    BY WaitingFinite, CapacityAssumption
<1>3. Cardinality(Waiting) <= Limit
    BY DEF Inv, StagedWithinLimit, Waiting
<1>4. StagedWithinLimit' <=> Cardinality(Waiting') <= Limit
    BY DEF StagedWithinLimit, Waiting
<1>5. Cardinality(Waiting') <= Limit
    BY <1>1, <1>2, <1>3
<1>6. ASSUME NEW p \in Process, creation[p].pc = "insert"
      PROVE  Cardinality(Waiting') < Limit
    <2>1. Cardinality(Waiting) < Limit
        BY <1>6 DEF Inv
    <2> QED BY <2>1, <1>1, <1>2
<1> QED BY <1>4, <1>5, <1>6

----------------------------------------------------------------------------
(* The steps *)

\* The commit of a creation is the one step that adds an analysis; it has room for it.
LEMMA InsertInv == ASSUME NEW p \in Process, Inv, Insert(p) PROVE Inv'
<1> USE DEF Creates, Over, NoCreation, Unlock
<1> DEFINE a == creation[p].on
<1>1. creation[p].pc = "insert" /\ a \in Analysis /\ lock = p
    BY DEF Insert, Inv
<1>2. Waiting' = Waiting \union {a}
    BY <1>1 DEF Insert, Waiting, Inv, Types
<1>3. Cardinality(Waiting \union {a}) =
          IF a \in Waiting THEN Cardinality(Waiting) ELSE Cardinality(Waiting) + 1
    <2> HIDE DEF a
    <2> QED BY WaitingFinite, FS_AddElement
<1>4. Cardinality(Waiting) < Limit /\ Limit \in Nat /\ Cardinality(Waiting) \in Nat
    BY <1>1, WaitingFinite, CapacityAssumption DEF Inv
<1>5. Cardinality(Waiting') = Cardinality(Waiting \union {a})
    BY <1>2
<1>6. Cardinality(Waiting') <= Limit
    BY <1>3, <1>4, <1>5
<1>7. StagedWithinLimit'
    BY <1>6 DEF StagedWithinLimit, Waiting
<1>8. \A q \in Process : creation'[q].pc \notin {"rows", "insert"}
    BY <1>1, CapacityAssumption DEF Insert, Inv, Types
<1> QED BY <1>1, <1>7, <1>8 DEF Insert, Inv, Types, Status

\* All other steps of a creation.
LEMMA CreateInv ==
    ASSUME NEW p \in Process, Inv,
           RefuseCached(p) \/ AcceptCached(p) \/ Lock(p) \/ CountRows(p) \/ RefuseRows(p)
    PROVE  Inv'
<1> USE DEF Creates, Goes, Over, NoCreation, Unlock
<1>1. row' = row /\ work' = work
    BY DEF RefuseCached, AcceptCached, Lock, CountRows, RefuseRows
<1>2. Waiting' = Waiting /\ StagedWithinLimit'
    BY <1>1 DEF Waiting, Inv, StagedWithinLimit
<1>3. CASE RefuseCached(p) \/ AcceptCached(p)
    BY <1>1, <1>2, <1>3 DEF RefuseCached, AcceptCached, Inv, Types
<1>4. CASE Lock(p)
    BY <1>1, <1>2, <1>4, CapacityAssumption DEF Lock, Inv, Types
<1>5. CASE CountRows(p)
    <2>1. Cardinality(UnfinishedRows) \in Nat
        BY CapacityAssumption, FS_Subset, FS_CardinalityType DEF UnfinishedRows
    <2>2. Cardinality(Waiting) < Limit
        BY <1>5, <2>1, WaitingCounted, WaitingFinite, CapacityAssumption DEF CountRows
    <2> QED BY <1>1, <1>2, <1>5, <2>2 DEF CountRows, Inv, Types
<1>6. CASE RefuseRows(p)
    BY <1>1, <1>2, <1>6, CapacityAssumption DEF RefuseRows, Inv, Types
<1> QED BY <1>3, <1>4, <1>5, <1>6

\* Purges, by the expiry task or before a creation.
LEMMA PurgeInv == ASSUME NEW p \in Process, Inv, Upload(p) \/ Sweep(p) PROVE Inv'
<1> USE DEF Creates, Purge
<1>1. /\ row' \in [Analysis -> Status] /\ work' = work /\ lock' = lock
      /\ \A a \in Analysis : row'[a] = "STAGED" => row[a] = "STAGED"
    BY DEF Upload, Sweep, Inv, Types, Status
<1>2. /\ StagedWithinLimit'
      /\ \A q \in Process : creation[q].pc = "insert" => Cardinality(Waiting') < Limit
    BY <1>1, LimitKept
<1>3. CASE Upload(p)
    BY <1>1, <1>2, <1>3 DEF Upload, Inv, Types
<1>4. CASE Sweep(p)
    BY <1>1, <1>2, <1>4 DEF Sweep, Inv, Types
<1> QED BY <1>3, <1>4

\* The other handlers end an analysis, delete it or plan for it.
LEMMA HandlerInv ==
    ASSUME NEW t \in Thread, Inv,
           Load(t) \/ NotFound(t) \/ DeleteBegin(t) \/ Handle(t)
    PROVE  Inv'
<1> USE DEF At, Ends, Idle
<1>1. creation' = creation /\ lock' = lock
    BY DEF Load, NotFound, DeleteBegin, Handle, ReadFindings, CacheRecord, FindExpired, Claim, ClaimDenied,
           Save, SaveFails, Annotate, SaveRefused, Delete
<1>2. /\ row' \in [Analysis -> Status]
      /\ \A a \in Analysis : row'[a] = "STAGED" => row[a] = "STAGED"
    <2>1. CASE Save(t)
        BY <2>1 DEF Save, Outcome, Inv, Types, Status
    <2>2. CASE Annotate(t)
        BY <2>2 DEF Annotate, Inv, Types, Work, Sound
    <2>3. CASE FindExpired(t) \/ Delete(t)
        BY <2>3 DEF FindExpired, Delete, Inv, Types, Status
    <2>4. CASE Load(t) \/ NotFound(t) \/ DeleteBegin(t) \/ ReadFindings(t)
               \/ CacheRecord(t) \/ Claim(t)
               \/ ClaimDenied(t) \/ SaveFails(t) \/ SaveRefused(t)
        BY <2>4 DEF Load, NotFound, DeleteBegin, ReadFindings, CacheRecord, Claim, ClaimDenied, SaveFails,
                    SaveRefused, Inv, Types
    <2> QED BY <2>1, <2>2, <2>3, <2>4 DEF Handle
<1>3. work' \in [Thread -> Work] /\ \A u \in Thread : Sound(work'[u])
    <2> USE DEF Inv, Types
    <2>1. ASSUME NEW w \in Work, Sound(w), work' = [work EXCEPT ![t] = w]
          PROVE  work' \in [Thread -> Work] /\ \A u \in Thread : Sound(work'[u])
        BY <2>1
    <2>2. work[t] \in Work /\ Sound(work[t])
        OBVIOUS
    <2>3. Idle \in Work /\ Sound(Idle)
        BY DEF Work, Status, Sound
    <2>4. CASE Load(t)
        <3>1. PICK a \in Analysis :
                work' = [work EXCEPT ![t] =
                  [on |-> a, status |-> row[a], cached |-> FALSE,
                   pc |-> IF row[a] \in {"STAGED", "RETURNED"} THEN "findings" ELSE "cache"]]
            BY <2>4 DEF Load
        <3> DEFINE w == [on |-> a, status |-> row[a], cached |-> FALSE,
                         pc |-> IF row[a] \in {"STAGED", "RETURNED"}
                                THEN "findings" ELSE "cache"]
        <3>2. w \in Work /\ Sound(w)
            BY DEF Work, Sound
        <3> QED BY <2>1, <3>1, <3>2
    <2>5. CASE DeleteBegin(t)
        <3>1. PICK a \in Analysis :
                work' = [work EXCEPT ![t] = [Idle EXCEPT !.on = a, !.pc = "delete"]]
            BY <2>5 DEF DeleteBegin
        <3> DEFINE w == [Idle EXCEPT !.on = a, !.pc = "delete"]
        <3>2. w \in Work /\ Sound(w)
            BY DEF Work, Sound, Status
        <3> QED BY <2>1, <3>1, <3>2
    <2>6. CASE Claim(t)
        <3>1. PICK status \in {"BUSY", "PLANNING"} :
                work' = [work EXCEPT ![t].pc = "save", ![t].status = status]
            BY <2>6 DEF Claim
        <3> DEFINE w == [work[t] EXCEPT !.pc = "save", !.status = status]
        <3>2. work' = [work EXCEPT ![t] = w]
            BY <3>1
        <3>3. w \in Work /\ Sound(w)
            <4>1. work[t].pc = "claim"
                BY <2>6 DEF Claim
            <4> QED BY <2>2, <4>1 DEF Work, Sound, Status
        <3> QED BY <2>1, <3>2, <3>3
    <2>7. CASE CacheRecord(t)
        <3>1. PICK next \in {"idle", "claim", "annotate"} :
                /\ next = "annotate" => work[t].status # "STAGED"
                /\ work' = [u \in Thread |->
                      IF u = t
                      THEN IF next = "idle" THEN Idle
                           ELSE [work[t] EXCEPT !.pc = next, !.cached = TRUE]
                      ELSE IF Host[u] = Host[t] /\ work[u].on = work[t].on
                      THEN [work[u] EXCEPT !.cached = FALSE] ELSE work[u]]
            BY <2>7 DEF CacheRecord
        <3>2. [work[t] EXCEPT !.pc = next, !.cached = TRUE] \in Work
            BY <2>2 DEF Work
        <3>3. next # "idle" => Sound([work[t] EXCEPT !.pc = next, !.cached = TRUE])
            <4>1. work[t].pc = "cache"
                BY <2>7 DEF CacheRecord
            <4> QED BY <2>2, <3>1, <4>1 DEF Work, Sound
        <3>4. ASSUME NEW u \in Thread
              PROVE  /\ [work[u] EXCEPT !.cached = FALSE] \in Work
                     /\ Sound([work[u] EXCEPT !.cached = FALSE])
            <4>1. work[u] \in Work /\ Sound(work[u])
                OBVIOUS
            <4> QED BY <4>1 DEF Work, Sound
        <3>5. \A u \in Thread : work[u] \in Work /\ Sound(work[u])
            OBVIOUS
        <3> HIDE DEF Inv, Types, Idle, At, Ends
        <3> QED BY <2>3, <3>1, <3>2, <3>3, <3>4, <3>5
    <2>8. CASE FindExpired(t) \/ ClaimDenied(t) \/ Save(t) \/ SaveFails(t) \/ Annotate(t)
               \/ SaveRefused(t) \/ Delete(t)
        <3>1. work' = [work EXCEPT ![t] = Idle]
            BY <2>8 DEF FindExpired, ClaimDenied, Save, SaveFails, Annotate, SaveRefused, Delete
        <3> QED BY <2>1, <2>3, <3>1
    <2>9. CASE NotFound(t)
        BY <2>9 DEF NotFound
    <2>10. CASE ReadFindings(t)
        <3>1. PICK status \in {"STAGED", "RETURNED"} :
                work' = [work EXCEPT ![t].pc = "cache", ![t].status = status]
            BY <2>10 DEF ReadFindings
        <3> DEFINE w == [work[t] EXCEPT !.pc = "cache", !.status = status]
        <3>2. work' = [work EXCEPT ![t] = w]
            BY <3>1
        <3>3. w \in Work /\ Sound(w)
            <4>1. work[t].pc = "findings"
                BY <2>10 DEF ReadFindings
            <4> QED BY <2>2, <4>1 DEF Work, Sound, Status
        <3> QED BY <2>1, <3>2, <3>3
    <2> QED BY <2>4, <2>5, <2>6, <2>7, <2>8, <2>9, <2>10 DEF Handle
<1>4. /\ StagedWithinLimit'
      /\ \A p \in Process : creation[p].pc = "insert" => Cardinality(Waiting') < Limit
    BY <1>2, LimitKept
<1> QED BY <1>1, <1>2, <1>3, <1>4 DEF Inv, Types

LEMMA NextInv == Inv /\ [Next]_vars => Inv'
<1> SUFFICES ASSUME Inv, [Next]_vars PROVE Inv'
    OBVIOUS
<1>1. ASSUME NEW p \in Process, Upload(p) \/ Create(p) \/ Sweep(p) PROVE Inv'
    BY <1>1, InsertInv, CreateInv, PurgeInv DEF Create
<1>2. ASSUME NEW t \in Thread, Load(t) \/ NotFound(t) \/ DeleteBegin(t) \/ Handle(t)
      PROVE  Inv'
    BY <1>2, HandlerInv
<1>3. CASE (\E a \in Analysis : Expire(a)) \/ UNCHANGED vars
    BY <1>3 DEF Expire, vars, Inv, Types, Waiting, StagedWithinLimit
<1> QED BY <1>1, <1>2, <1>3 DEF Next

\* The limit on the analyses that wait to be run for the first time holds in the rows whatever processes
\* create and handlers save at the same time (service.py:159-188, persistence.py:234-274).
THEOREM LimitHolds == Spec => []StagedWithinLimit
<1>1. Inv => StagedWithinLimit
    BY DEF Inv
<1> QED BY InitInv, NextInv, <1>1, PTL DEF Spec
=============================================================================
