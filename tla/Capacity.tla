------------------------------ MODULE Capacity ------------------------------
(***************************************************************************)
(* The limit on an account's unfinished analyses (service.py:120-188,      *)
(* persistence.py:238-274).  A creation counts twice: what the process has *)
(* cached, and then the rows, under an advisory lock of the account.  The  *)
(* cache holds the records that handlers of this process loaded, or still  *)
(* work on; nobody tells it of what other processes do.                    *)
(*                                                                         *)
(* Creations of one process run in its event loop, one after the other;    *)
(* the other handlers run in worker threads.                               *)
(***************************************************************************)
EXTENDS Naturals, FiniteSets

CONSTANTS
    Process,    \* backend processes
    Thread,     \* worker threads of all processes
    Host,       \* the process each thread belongs to
    Analysis,   \* identifiers of the account's analyses
    Limit,      \* max(1, configured)
    Nobody      \* no process, no analysis

ASSUME CapacityAssumption ==
    /\ Host \in [Thread -> Process]
    /\ IsFiniteSet(Analysis)
    /\ Limit \in Nat \ {0}
    /\ Nobody \notin Process \union Analysis

VARIABLES
    row,        \* per analysis: the status in its row; "none" before, "gone" after
    lock,       \* the process whose creation holds the account's advisory lock
    cache,      \* per process and analysis: is there a record in _analyses, and what sort
                \* of status has it
    creation,   \* per process: the creation it is at, and its next call
    work,       \* per thread: its handler, next call and record, and whether that
                \* record is the cached one
    expired     \* the analyses past their retention

vars == <<row, lock, cache, creation, work, expired>>

\* "BUSY" stands for ANALYZING, SIMULATING and VERIFYING_PLAN, which no row ever has,
\* and "DONE" for the statuses an analysis can end with, with findings or without.
\* "RETURNED" is the status STAGED together with findings: the analysis has been run.
Unfinished == {"STAGED", "RETURNED", "BUSY", "PLANNING"}

Present(a) == row[a] \notin {"none", "gone"}

UnfinishedRows == {a \in Analysis : row[a] \in Unfinished}

\* What a creation tells apart in the cache.
Sort(status) == IF status \in Unfinished THEN "unfinished" ELSE "ended"

UnfinishedCached(p) == {a \in Analysis : cache[p][a] = "unfinished"}

NoCreation == [on |-> Nobody, pc |-> "idle"]

Idle == [on |-> Nobody, pc |-> "idle", status |-> "none", cached |-> FALSE]

Init ==
    /\ row = [a \in Analysis |-> "none"]
    /\ lock = Nobody
    /\ cache = [p \in Process |-> [a \in Analysis |-> "none"]]
    /\ creation = [p \in Process |-> NoCreation]
    /\ work = [t \in Thread |-> Idle]
    /\ expired = {}

----------------------------------------------------------------------------
(* purge_expired, every minute and at the start of a creation.  An error of the database
   is logged and the next minute makes it up. *)

Forget(p, analyses) ==
    cache' = [cache EXCEPT ![p] = [a \in Analysis |->
                                      IF a \in analyses THEN "none" ELSE @[a]]]

\* Mutant: only the rows are deleted.
PurgeRowsOnly(p) ==
    /\ row' = [a \in Analysis |-> IF a \in expired THEN "gone" ELSE row[a]]
    /\ UNCHANGED cache

Purge(p) ==
    /\ Forget(p, expired)
    /\ row' = [a \in Analysis |-> IF a \in expired THEN "gone" ELSE row[a]]

Sweep(p) ==
    /\ Purge(p)
    /\ UNCHANGED <<lock, creation, work, expired>>

----------------------------------------------------------------------------
(* create *)

Creates(p, pc) == creation[p].pc = pc

Goes(p, pc) == creation' = [creation EXCEPT ![p].pc = pc]

Over(p) == creation' = [creation EXCEPT ![p] = NoCreation]

Upload(p) ==
    /\ Creates(p, "idle")
    /\ \E a \in Analysis :
         /\ row[a] = "none" /\ \A q \in Process : creation[q].on # a
         /\ creation' = [creation EXCEPT ![p] = [on |-> a, pc |-> "count"]]
    /\ Purge(p)
    /\ UNCHANGED <<lock, work, expired>>

RefuseCached(p) ==
    /\ Creates(p, "count")
    /\ Cardinality(UnfinishedCached(p)) >= Limit
    /\ Over(p)
    /\ UNCHANGED <<row, lock, cache, work, expired>>

\* The new record is cached before its row exists.
AcceptCached(p) ==
    /\ Creates(p, "count")
    /\ Cardinality(UnfinishedCached(p)) < Limit
    /\ cache' = [cache EXCEPT ![p][creation[p].on] = Sort("STAGED")]
    /\ Goes(p, "lock")
    /\ UNCHANGED <<row, lock, work, expired>>

\* Mutant: the transaction counts without the lock.
LockNothing(p) ==
    /\ Creates(p, "lock")
    /\ Goes(p, "rows")
    /\ UNCHANGED <<row, lock, cache, work, expired>>

Lock(p) ==
    /\ Creates(p, "lock")
    /\ lock = Nobody
    /\ lock' = p
    /\ Goes(p, "rows")
    /\ UNCHANGED <<row, cache, work, expired>>

CountRows(p) ==
    /\ Creates(p, "rows")
    /\ Cardinality(UnfinishedRows) < Limit
    /\ Goes(p, "insert")
    /\ UNCHANGED <<row, lock, cache, work, expired>>

Unlock(p) == lock' = IF lock = p THEN Nobody ELSE lock

\* The commit inserts the row and gives up the lock.
Insert(p) ==
    /\ Creates(p, "insert")
    /\ row' = [row EXCEPT ![creation[p].on] = "STAGED"]
    /\ Unlock(p)
    /\ Over(p)
    /\ UNCHANGED <<cache, work, expired>>

\* Too many rows, or an error of the database: the record leaves the cache again.
RefuseRows(p) ==
    /\ creation[p].pc \in {"lock", "rows", "insert"}
    /\ Forget(p, {creation[p].on})
    /\ Unlock(p)
    /\ Over(p)
    /\ UNCHANGED <<row, work, expired>>

----------------------------------------------------------------------------
(* The other handlers *)

At(t, pc) == work[t].pc = pc

Ends(t) == work' = [work EXCEPT ![t] = Idle]

\* What the cache shows once t's record has a status, if the record is still there.
Shown(t, status) ==
    LET p == Host[t]  a == work[t].on
    IN  IF work[t].cached /\ cache[p][a] # "none"
        THEN [cache EXCEPT ![p][a] = Sort(status)] ELSE cache

\* _get_record copies the row into a record; its findings are read by a later statement,
\* which sees what has been committed meanwhile.  (They matter here together with the
\* status STAGED only.)
Load(t) ==
    /\ At(t, "idle")
    /\ \E a \in Analysis :
         /\ Present(a)
         /\ work' = [work EXCEPT ![t] =
              [on |-> a, status |-> row[a], cached |-> FALSE,
               pc |-> IF row[a] \in {"STAGED", "RETURNED"} THEN "findings" ELSE "cache"]]
    /\ UNCHANGED <<row, lock, cache, creation, expired>>

ReadFindings(t) ==
    /\ At(t, "findings")
    /\ \E status \in {"STAGED", "RETURNED"} :
         /\ status = "STAGED" => row[work[t].on] \notin {"RETURNED", "PLANNING"}
         /\ status = "RETURNED" => row[work[t].on] \in {"RETURNED", "PLANNING", "DONE"}
         /\ work' = [work EXCEPT ![t].pc = "cache", ![t].status = status]
    /\ UNCHANGED <<row, lock, cache, creation, expired>>

NotFound(t) ==
    /\ At(t, "idle")
    /\ \E a \in Analysis : row[a] = "gone" /\ Forget(Host[t], {a})
    /\ UNCHANGED <<row, lock, creation, work, expired>>

\* The record takes the place of the one another handler may be working on.  An insight
\* needs findings.
CacheRecord(t) ==
    /\ At(t, "cache")
    /\ work[t].on \notin expired
    /\ cache' = [cache EXCEPT ![Host[t]][work[t].on] = Sort(work[t].status)]
    /\ \E next \in {"idle", "claim", "annotate"} :
         /\ next = "annotate" => work[t].status # "STAGED"
         /\ work' = [u \in Thread |->
               IF u = t
               THEN IF next = "idle" THEN Idle ELSE [work[t] EXCEPT !.pc = next, !.cached = TRUE]
               ELSE IF Host[u] = Host[t] /\ work[u].on = work[t].on
               THEN [work[u] EXCEPT !.cached = FALSE] ELSE work[u]]
    /\ UNCHANGED <<row, lock, creation, expired>>

FindExpired(t) ==
    /\ At(t, "cache")
    /\ work[t].on \in expired
    /\ Forget(Host[t], {work[t].on})
    /\ row' = [row EXCEPT ![work[t].on] = "gone"]
    /\ Ends(t)
    /\ UNCHANGED <<lock, creation, expired>>

\* run and verify_plan are "BUSY"; create_plan needs what a run has found.  A claim may
\* lapse, but a save that lost it is refused like that of a deleted row.
Claim(t) ==
    /\ At(t, "claim")
    /\ Present(work[t].on)
    /\ \A u \in Thread : At(u, "save") => work[u].on # work[t].on
    /\ \E status \in {"BUSY"} \union (IF work[t].status = "STAGED" THEN {} ELSE {"PLANNING"}) :
         /\ work' = [work EXCEPT ![t].pc = "save", ![t].status = status]
         /\ cache' = Shown(t, status)
    /\ UNCHANGED <<row, lock, creation, expired>>

ClaimDenied(t) ==
    /\ At(t, "claim")
    /\ ~Present(work[t].on) \/ \E u \in Thread : At(u, "save") /\ work[u].on = work[t].on
    /\ Ends(t)
    /\ UNCHANGED <<row, lock, cache, creation, expired>>

\* A generated plan leaves the analysis PLANNING; all else ends it.
Outcome(t) == IF work[t].status = "PLANNING" THEN {"PLANNING", "DONE"} ELSE {"DONE"}

Save(t) ==
    /\ At(t, "save")
    /\ Present(work[t].on)
    /\ \E status \in Outcome(t) :
         /\ row' = [row EXCEPT ![work[t].on] = status]
         /\ cache' = Shown(t, status)
    /\ Ends(t)
    /\ UNCHANGED <<lock, creation, expired>>

\* The record keeps in the cache what the row has not got; the token it leaves in the row
\* counts here as lapsed.
SaveFails(t) ==
    /\ At(t, "save")
    /\ \E status \in Outcome(t) : cache' = Shown(t, status)
    /\ Ends(t)
    /\ UNCHANGED <<row, lock, creation, expired>>

\* create_insight saves, without a claim, the status it has loaded.
Annotate(t) ==
    /\ At(t, "annotate")
    /\ Present(work[t].on)
    /\ row' = [row EXCEPT ![work[t].on] = work[t].status]
    /\ Ends(t)
    /\ UNCHANGED <<lock, cache, creation, expired>>

SaveRefused(t) ==
    /\ work[t].pc \in {"save", "annotate"}
    /\ ~Present(work[t].on)
    /\ Forget(Host[t], {work[t].on})
    /\ Ends(t)
    /\ UNCHANGED <<row, lock, creation, expired>>

DeleteBegin(t) ==
    /\ At(t, "idle")
    /\ \E a \in Analysis :
         /\ Present(a) \/ cache[Host[t]][a] # "none"
         /\ \A p \in Process : creation[p].on # a
         /\ Forget(Host[t], {a})
         /\ work' = [work EXCEPT ![t] = [Idle EXCEPT !.on = a, !.pc = "delete"]]
    /\ UNCHANGED <<row, lock, creation, expired>>

Delete(t) ==
    /\ At(t, "delete")
    /\ row' = [row EXCEPT ![work[t].on] = "gone"]
    /\ Ends(t)
    /\ UNCHANGED <<lock, cache, creation, expired>>

----------------------------------------------------------------------------
Expire(a) ==
    /\ row[a] # "none" /\ a \notin expired
    /\ expired' = expired \union {a}
    /\ UNCHANGED <<row, lock, cache, creation, work>>

Create(p) ==
    \/ RefuseCached(p) \/ AcceptCached(p) \/ Lock(p) \/ CountRows(p) \/ Insert(p)
    \/ RefuseRows(p)

Handle(t) ==
    \/ ReadFindings(t) \/ CacheRecord(t) \/ FindExpired(t)
    \/ Claim(t) \/ ClaimDenied(t) \/ Save(t) \/ SaveFails(t) \/ Annotate(t)
    \/ SaveRefused(t) \/ Delete(t)

Next ==
    \/ \E p \in Process : Upload(p) \/ Create(p) \/ Sweep(p)
    \/ \E t \in Thread : Load(t) \/ NotFound(t) \/ DeleteBegin(t) \/ Handle(t)
    \/ \E a \in Analysis : Expire(a)

\* Creations go on, the expiry task runs every minute, and the day of retention ends; of
\* the other handlers nothing is asked.
Spec ==
    /\ Init /\ [][Next]_vars
    /\ \A p \in Process : WF_vars(Create(p)) /\ WF_vars(Sweep(p))
    /\ \A a \in Analysis : WF_vars(Expire(a))

----------------------------------------------------------------------------
(* Properties *)

\* However creations in several processes interleave with each other and with all that
\* changes the rows meanwhile, no more than the limit of analyses wait to be run for the
\* first time.  (Of unfinished ones there may be more: planning for an analysis that has
\* ended makes it unfinished again, and so does an insight that has read the row before a
\* run was saved and its findings after; nothing counts then.)
StagedWithinLimit == Cardinality({a \in Analysis : row[a] = "STAGED"}) <= Limit

\* Records that other processes have finished or deleted long ago count in a process's
\* cache, so that it refuses creations for nothing; but not for good.
LockoutEnds ==
    \A p \in Process :
        <>[](UnfinishedRows = {}) => []<>(Cardinality(UnfinishedCached(p)) < Limit)
=============================================================================
