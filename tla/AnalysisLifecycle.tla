------------------------ MODULE AnalysisLifecycle ------------------------
(***************************************************************************)
(* One RollbackReady analysis under AnalysisService with the SQL evidence  *)
(* repository (the deployed mode): the requests that operate on it from    *)
(* several backend processes, its row in Cloud SQL, its raw archive in the *)
(* artifact store, each process's record cache and its expiry sweep.       *)
(*                                                                         *)
(* A request works on a private record hydrated from the row and from its  *)
(* child tables, each read by a SELECT of its own under READ COMMITTED, so *)
(* a record may mix the reports of several moments.  Every call to the     *)
(* database or to the artifact store is a step of its own, and what is     *)
(* computed between two calls belongs to the step that starts it.  Time    *)
(* appears only through what the code compares: the report's and the       *)
(* archive's retention, and the ten minutes after which a claim may be     *)
(* taken over.                                                             *)
(***************************************************************************)
EXTENDS Naturals, Sequences

CONSTANTS
    Thread,             \* request handlers (worker threads of all processes)
    Process,            \* backend processes sharing the row and the store
    Host,               \* the process each thread belongs to
    MaxPlans,           \* max(3, configured): plans an owner may ask for
    CandidateVerdict,   \* verdicts a completed candidate simulation may give
    InsightKind,        \* kinds of AI insight
    Rejection,          \* the kind that explains a failed plan verification
    Clock,              \* which periods may run out: "report", "archive", "claim"
    Fault,              \* which faults may happen: "crash", "database", "store"
    NoToken,            \* active_operation_token IS NULL
    LostToken           \* a token whose request is gone: nobody can present it

Verdict == {"UNSAFE", "CONDITIONALLY_VERIFIED", "VERIFIED_FOR_REVIEW",
            "INSUFFICIENT_EVIDENCE", "ERROR"}

ASSUME LifecycleAssumption ==
    /\ Host \in [Thread -> Process]
    /\ MaxPlans \in Nat \ {0}
    /\ CandidateVerdict \subseteq Verdict \ {"ERROR"}
    /\ Clock \subseteq {"report", "archive", "claim"}
    /\ Fault \subseteq {"crash", "database", "store"}
    /\ NoToken \notin Thread
    /\ LostToken \notin Thread
    /\ NoToken # LostToken

VARIABLES
    row,        \* the AnalysisRecord row: "absent", "present" or "deleted"
    report,     \* the sanitized aggregate the row holds
    token,      \* active_operation_token
    lapsed,     \* operation_started_at is more than ten minutes ago
    mixed,      \* history: a record that mixes two reports has been saved
    available,  \* artifact_state = "AVAILABLE", with the reference filled in
    object,     \* the archive in the artifact store: "none", "stored", "erased"
    expired,    \* the report's expires_at has passed
    rawExpired, \* the archive's expires_at has passed
    cached,     \* per process: its _analyses entry, "none", "bare" or "ref"
    request,    \* per thread: the request it serves
    sweeper,    \* per process: where its expiry sweep stands
    input       \* what the uploaded bundle is like; fixed at upload

dbVars    == <<row, report, token, lapsed, available, mixed>>
clockVars == <<expired, rawExpired>>
vars == <<row, report, token, lapsed, available, mixed, object, expired, rawExpired,
          cached, request, sweeper, input>>

----------------------------------------------------------------------------
(* The data *)

Status == {"STAGED", "STATIC_ONLY", "UNSAFE", "CONDITIONAL", "VERIFIED",
           "PLANNING", "PLAN_REJECTED", "VERIFIED_PLAN", "ERROR"}

Plan == [state : {"UNVERIFIED_CANDIDATE", "VERIFIED_FOR_REVIEW", "REJECTED"},
         verification : {"NONE", "PASS", "FAIL"}]

Report == [status : Status, verdict : Verdict, findings : BOOLEAN,
           plans : Seq(Plan), insights : SUBSET InsightKind]

StagedReport == [status |-> "STAGED", verdict |-> "INSUFFICIENT_EVIDENCE",
                 findings |-> FALSE, plans |-> <<>>, insights |-> {}]

NewPlan == [state |-> "UNVERIFIED_CANDIDATE", verification |-> "NONE"]

\* The status a verdict stands for once its evidence is complete.
StatusForVerdict(v) ==
    CASE v = "UNSAFE"                 -> "UNSAFE"
      [] v = "CONDITIONALLY_VERIFIED" -> "CONDITIONAL"
      [] v = "VERIFIED_FOR_REVIEW"    -> "VERIFIED"
      [] OTHER                        -> "ERROR"

Operation == {"none", "create", "run", "plan", "verify", "delete"}
Step == {"idle", "insert", "findings", "plans", "verifications", "load", "ensure",
         "fetch", "claim", "work", "commit", "annotate", "expire", "reference",
         "remove", "erase", "mark"}

\* What a request holds: its operation, its next call, its private record, whether
\* that record mixes reports of several moments, what it has of the raw archive
\* (nothing, its reference, or the bundle too), the plan it verifies (0: none) and
\* whether the archive is deleted after the commit.
Request == [op : Operation, pc : Step, rec : Report, torn : BOOLEAN,
            archive : {"none", "reference", "bundle"}, plan : Nat,
            cleanup : BOOLEAN]

Idle == [op |-> "none", pc |-> "idle", rec |-> StagedReport, torn |-> FALSE,
         archive |-> "none", plan |-> 0, cleanup |-> FALSE]

Input == [ready : BOOLEAN, risky : BOOLEAN]
Token == Thread \union {NoToken, LostToken}

TypeOK ==
    /\ row \in {"absent", "present", "deleted"}
    /\ report \in Report
    /\ token \in Token
    /\ lapsed \in BOOLEAN
    /\ available \in BOOLEAN
    /\ mixed \in BOOLEAN
    /\ object \in {"none", "stored", "erased"}
    /\ expired \in BOOLEAN
    /\ rawExpired \in BOOLEAN
    /\ cached \in [Process -> {"none", "bare", "ref"}]
    /\ request \in [Thread -> Request]
    /\ sweeper \in [Process -> {"idle", "erase", "row", "all", "dead"}]
    /\ input \in Input

----------------------------------------------------------------------------
(* Steps of a request *)

At(t, op, pc) == request[t].op = op /\ request[t].pc = pc

Goto(t, pc) == request' = [request EXCEPT ![t].pc = pc]

\* The handler returns or raises; its record is no longer anyone's.
Finish(t) == request' = [request EXCEPT ![t] = Idle]

\* A handler that ends before its commit leaves its claim in the row.
Abandon(threads) == token' = IF token \in threads THEN LostToken ELSE token

Cache(t, entry) == cached' = [cached EXCEPT ![Host[t]] = entry]

\* repository.delete, and delete_expired: a row goes with all it holds.
RemoveRow ==
    /\ row' = IF row = "present" THEN "deleted" ELSE row
    /\ report' = StagedReport
    /\ token' = NoToken
    /\ lapsed' = FALSE
    /\ available' = FALSE
    /\ mixed' = mixed

EraseObject == object' = IF object = "stored" THEN "erased" ELSE object

Init ==
    /\ row = "absent"
    /\ report = StagedReport
    /\ token = NoToken
    /\ lapsed = FALSE
    /\ available = FALSE
    /\ mixed = FALSE
    /\ object = "none"
    /\ expired = FALSE
    /\ rawExpired = FALSE
    /\ cached = [p \in Process |-> "none"]
    /\ request = [t \in Thread |-> Idle]
    /\ sweeper = [p \in Process |-> "idle"]
    /\ input \in Input

----------------------------------------------------------------------------
(* create: the archive is stored before the row exists *)

CreatePut(t) ==
    /\ request[t].pc = "idle"
    /\ object = "none"
    /\ object' = "stored"
    /\ Cache(t, "ref")
    /\ request' = [request EXCEPT ![t] = [Idle EXCEPT !.op = "create", !.pc = "insert"]]
    /\ UNCHANGED <<dbVars, clockVars, sweeper, input>>

CreateInsert(t) ==
    /\ At(t, "create", "insert")
    /\ row' = "present"
    /\ report' = StagedReport
    /\ available' = TRUE
    /\ Finish(t)
    /\ UNCHANGED <<token, lapsed, mixed, object, clockVars, cached, sweeper, input>>

\* Mutant: the failure path forgets the archive.
CreateRejectedKeepsArchive(t) ==
    /\ At(t, "create", "insert")
    /\ Cache(t, "none")
    /\ Finish(t)
    /\ UNCHANGED <<dbVars, object, clockVars, sweeper, input>>

\* The insert is refused (capacity) or fails: the archive is deleted again.
CreateRejected(t) ==
    /\ At(t, "create", "insert")
    /\ Cache(t, "none")
    /\ request' = [request EXCEPT ![t].pc = "erase", ![t].archive = "reference"]
    /\ UNCHANGED <<dbVars, object, clockVars, sweeper, input>>

----------------------------------------------------------------------------
(* _get_record: the row and its child tables are copied into a new record,  *)
(* without the insights; the bundle that an earlier record of this process  *)
(* loaded may be reused.  Which operation the request is for shows once its *)
(* record is loaded.                                                        *)

\* repository.get's first SELECT: the row.  What the record has of the child tables
\* stands for a read at the same moment until the SELECT that follows replaces it.
Begin(t) ==
    /\ request[t].pc = "idle"
    /\ row = "present"
    /\ \E archive \in {"none", "bundle"} :
        /\ archive = "bundle" => available /\ cached[Host[t]] # "none"
        /\ request' = [request EXCEPT ![t] =
              [Idle EXCEPT !.pc = "findings", !.archive = archive,
                           !.rec = [report EXCEPT !.insights = {}]]]
    /\ UNCHANGED <<dbVars, object, clockVars, cached, sweeper, input>>

\* A further SELECT has completed the record to rec; it is torn if that is not what
\* the moment of the first one would have given.
Read(t, rec, next) ==
    /\ request' = [request EXCEPT ![t].rec = rec, ![t].pc = next,
                                  ![t].torn = @ \/ rec # request[t].rec]
    /\ UNCHANGED <<dbVars, object, clockVars, cached, sweeper, input>>

ReadFindings(t) ==
    /\ request[t].pc = "findings"
    /\ Read(t, [request[t].rec EXCEPT !.findings = report.findings], "plans")

\* Without plans no verification is asked for.
ReadPlans(t) ==
    /\ request[t].pc = "plans"
    /\ Read(t, [request[t].rec EXCEPT !.plans = report.plans],
            IF report.plans = <<>> THEN "load" ELSE "verifications")

\* The verification found for a plan read before: none if that plan has been replaced.
VerificationOf(plan, i) ==
    {v \in {"NONE", "PASS", "FAIL"} :
        \/ i \in DOMAIN report.plans /\ v = report.plans[i].verification
        \/ v = "NONE" /\ ~(i \in DOMAIN report.plans /\ report.plans[i] = plan)}

ReadVerifications(t) ==
    LET plans == request[t].rec.plans
    IN  /\ request[t].pc = "verifications"
        /\ \E found \in [DOMAIN plans -> {"NONE", "PASS", "FAIL"}] :
              /\ \A i \in DOMAIN plans : found[i] \in VerificationOf(plans[i], i)
              /\ Read(t, [request[t].rec EXCEPT !.plans =
                         [i \in DOMAIN plans |-> [plans[i] EXCEPT !.verification = found[i]]]],
                      "load")

\* No row: 404, and the process forgets its record.
NotFound(t) ==
    /\ request[t].pc = "idle"
    /\ row = "deleted"
    /\ Cache(t, "none")
    /\ UNCHANGED <<dbVars, object, clockVars, request, sweeper, input>>

\* _load_artifact_reference, at the end of _get_record, for a report in time.
Loaded(t) ==
    /\ request[t].pc = "load"
    /\ ~expired
    /\ Cache(t, IF available THEN "ref" ELSE "bare")

\* The record has outlived its retention: 410.  Only the row is deleted.
FindExpired(t) ==
    /\ request[t].pc = "load"
    /\ expired
    /\ Cache(t, "none")
    /\ Goto(t, "expire")
    /\ UNCHANGED <<dbVars, object, clockVars, sweeper, input>>

Expire(t) ==
    /\ request[t].pc = "expire"
    /\ RemoveRow
    /\ Finish(t)
    /\ UNCHANGED <<object, clockVars, cached, sweeper, input>>

\* A read is done, and so is an operation that its record does not allow.
Return(t) ==
    /\ Loaded(t)
    /\ Finish(t)
    /\ UNCHANGED <<dbVars, object, clockVars, sweeper, input>>

----------------------------------------------------------------------------
(* What each operation checks on its private record before it goes on       *)

RunAllowed(rec)  == rec.status \in {"STAGED", "ERROR"}
\* Mutant: an off-by-one in the plan limit.
PlanAllowedOneMore(rec) == rec.findings /\ Len(rec.plans) <= MaxPlans

PlanAllowed(rec) == rec.findings /\ Len(rec.plans) < MaxPlans
InsightAllowed(rec, kind) ==
    /\ rec.findings
    /\ kind \notin rec.insights
    /\ kind = Rejection =>
         \E i \in DOMAIN rec.plans : rec.plans[i].verification = "FAIL"

\* run and verify_plan go on to _ensure_bundle, which makes no call when the
\* record already has the bundle.
NeedBundle(t, op, plan) ==
    LET held == request[t].archive = "bundle"
    IN  request' = [request EXCEPT
            ![t].op = op, ![t].plan = plan,
            ![t].archive = IF available /\ ~held THEN "reference" ELSE @,
            ![t].pc = IF held THEN "claim" ELSE "ensure"]

AdmitRun(t) ==
    /\ Loaded(t)
    /\ RunAllowed(request[t].rec)
    /\ NeedBundle(t, "run", 0)
    /\ UNCHANGED <<dbVars, object, clockVars, sweeper, input>>

AdmitVerify(t) ==
    /\ Loaded(t)
    /\ \E i \in DOMAIN request[t].rec.plans : NeedBundle(t, "verify", i)
    /\ UNCHANGED <<dbVars, object, clockVars, sweeper, input>>

\* create_plan never looks at the archive.
AdmitPlan(t) ==
    /\ Loaded(t)
    /\ PlanAllowed(request[t].rec)
    /\ request' = [request EXCEPT ![t].op = "plan", ![t].pc = "claim",
                                  ![t].archive = "none"]
    /\ UNCHANGED <<dbVars, object, clockVars, sweeper, input>>

\* create_insight claims nothing: the advisor answers, then the record is saved.
AdmitInsight(t) ==
    /\ Loaded(t)
    /\ \E kind \in InsightKind :
        /\ InsightAllowed(request[t].rec, kind)
        /\ request' = [request EXCEPT ![t].pc = "annotate", ![t].archive = "none",
                                      ![t].rec.insights = @ \union {kind}]
    /\ UNCHANGED <<dbVars, object, clockVars, sweeper, input>>

----------------------------------------------------------------------------
(* _ensure_bundle *)

\* The reference is read again: none ends the request, and an archive past its
\* retention is deleted on the spot.
EnsureBundle(t) ==
    /\ request[t].pc = "ensure"
    /\ \/ /\ request[t].archive = "none" /\ ~available
          /\ Finish(t)
       \/ /\ request[t].archive # "none" \/ available
          /\ request' = [request EXCEPT ![t].archive = "reference",
                             ![t].pc = IF rawExpired THEN "erase" ELSE "fetch"]
    /\ UNCHANGED <<dbVars, object, clockVars, cached, sweeper, input>>

FetchBundle(t) ==
    /\ request[t].pc = "fetch"
    /\ IF object = "stored"
       THEN request' = [request EXCEPT ![t].archive = "bundle", ![t].pc = "claim"]
       ELSE Finish(t)
    /\ UNCHANGED <<dbVars, object, clockVars, cached, sweeper, input>>

----------------------------------------------------------------------------
(* _claim_operation *)

\* Mutant: a claim is never taken over.
ClaimableOnlyIfFree == row = "present" /\ token = NoToken

\* claim_operation's WHERE clause: no claim, or one older than ten minutes.
Claimable == row = "present" /\ (token = NoToken \/ lapsed)

Claim(t) ==
    /\ request[t].pc = "claim"
    /\ Claimable
    /\ token' = t
    /\ lapsed' = FALSE
    /\ Goto(t, "work")
    /\ UNCHANGED <<row, report, available, mixed, object, clockVars, cached, sweeper,
                   input>>

ClaimDenied(t) ==
    /\ request[t].pc = "claim"
    /\ ~Claimable
    /\ Finish(t)
    /\ UNCHANGED <<dbVars, object, clockVars, cached, sweeper, input>>

----------------------------------------------------------------------------
(* The work done between the claim and the commit, in the private record *)

\* The record is ready to be saved; cleanup says whether the archive goes too.
Conclude(t, rec, cleanup) ==
    /\ request' = [request EXCEPT ![t].rec = rec, ![t].cleanup = cleanup,
                                  ![t].pc = "commit"]
    /\ UNCHANGED <<dbVars, object, clockVars, cached, sweeper, input>>

\* What run leaves in the record: the findings of the static analysis and the
\* status and verdict it ended with.
RunResult(t, status, verdict) ==
    [request[t].rec EXCEPT !.findings = input.risky, !.status = status,
                           !.verdict = verdict]

RunStatic(t) ==
    /\ At(t, "run", "work")
    /\ ~input.ready
    /\ Conclude(t, RunResult(t, "STATIC_ONLY", "INSUFFICIENT_EVIDENCE"), TRUE)

\* No sandbox could be had, or the simulation failed.
RunError(t) ==
    /\ At(t, "run", "work")
    /\ input.ready
    /\ \E verdict \in {"INSUFFICIENT_EVIDENCE", "ERROR"} :
          Conclude(t, RunResult(t, "ERROR", verdict), FALSE)

RunComplete(t) ==
    /\ At(t, "run", "work")
    /\ input.ready
    /\ \E verdict \in CandidateVerdict :
          Conclude(t, RunResult(t, StatusForVerdict(verdict), verdict), ~input.risky)

PlanGenerated(t) ==
    /\ At(t, "plan", "work")
    /\ Conclude(t, [request[t].rec EXCEPT !.status = "PLANNING",
                                          !.plans = Append(@, NewPlan)], FALSE)

\* Mutant: a rejected generation leaves the status of the attempt.
PlanRejectedKeepsStatus(t) ==
    /\ At(t, "plan", "work")
    /\ Conclude(t, [request[t].rec EXCEPT !.status = "PLANNING"], FALSE)

PlanRejected(t) ==
    /\ At(t, "plan", "work")
    /\ Conclude(t, [request[t].rec EXCEPT !.status = "PLAN_REJECTED"], FALSE)

\* Mutant: verify_plan returns without deleting the archive.
VerifyCompleteKeepsArchive(t) ==
    /\ At(t, "verify", "work")
    /\ Conclude(t, [request[t].rec EXCEPT
                !.status = "VERIFIED_PLAN",
                !.plans[request[t].plan] =
                    [state |-> "VERIFIED_FOR_REVIEW", verification |-> "PASS"]], FALSE)

VerifyComplete(t) ==
    /\ At(t, "verify", "work")
    /\ \E passed \in BOOLEAN :
          Conclude(t, [request[t].rec EXCEPT
                !.status = IF passed THEN "VERIFIED_PLAN" ELSE "PLAN_REJECTED",
                !.plans[request[t].plan] =
                    IF passed
                    THEN [state |-> "VERIFIED_FOR_REVIEW", verification |-> "PASS"]
                    ELSE [state |-> "REJECTED", verification |-> "FAIL"]], TRUE)

\* Mutant: the plan keeps the state of the attempt.
VerifyErrorKeepsVerifying(t) ==
    /\ At(t, "verify", "work")
    /\ Conclude(t, [request[t].rec EXCEPT
                !.status = StatusForVerdict(request[t].rec.verdict),
                !.plans[request[t].plan].state = "VERIFYING"], FALSE)

\* _restore_after_verification_error: the plan can be verified again.
VerifyError(t) ==
    /\ At(t, "verify", "work")
    /\ Conclude(t, [request[t].rec EXCEPT
                !.status = StatusForVerdict(request[t].rec.verdict),
                !.plans[request[t].plan].state = "UNVERIFIED_CANDIDATE"], FALSE)

----------------------------------------------------------------------------
(* _persist with a token: save replaces the whole aggregate, if the row is  *)
(* still there and still carries the request's token, and clears the claim  *)

\* Mutant: the token in the row is not compared.
SavedByAnyone(t) == row = "present"

Saved(t) == row = "present" /\ token = t

\* Mutant: an update inserts the row if it is missing.
CommitUpserts(t) ==
    /\ request[t].pc = "commit"
    /\ Saved(t) \/ row = "deleted"
    /\ row' = "present"
    /\ report' = request[t].rec
    /\ mixed' = (mixed \/ request[t].torn)
    /\ token' = NoToken
    /\ lapsed' = FALSE
    /\ Finish(t)
    /\ UNCHANGED <<available, object, clockVars, cached, sweeper, input>>

Commit(t) ==
    /\ request[t].pc = "commit"
    /\ Saved(t)
    /\ report' = request[t].rec
    /\ mixed' = (mixed \/ request[t].torn)
    /\ token' = NoToken
    /\ lapsed' = FALSE
    /\ request' = [request EXCEPT ![t] =
          IF request[t].cleanup
          THEN [Idle EXCEPT !.op = request[t].op, !.pc = "erase",
                            !.archive = request[t].archive]
          ELSE Idle]
    /\ UNCHANGED <<row, available, object, clockVars, cached, sweeper, input>>

\* Mutant: the archive is deleted whether or not the result was saved.
CommitRefusedErases(t) ==
    /\ request[t].pc = "commit"
    /\ ~Saved(t)
    /\ Cache(t, "none")
    /\ Goto(t, "erase")
    /\ UNCHANGED <<dbVars, object, clockVars, sweeper, input>>

CommitRefused(t) ==
    /\ request[t].pc = "commit"
    /\ ~Saved(t)
    /\ Cache(t, "none")
    /\ Finish(t)
    /\ UNCHANGED <<dbVars, object, clockVars, sweeper, input>>

\* _persist without a token: nothing but the row's presence is checked.
Annotate(t) ==
    /\ request[t].pc = "annotate"
    /\ IF row = "present"
       THEN /\ report' = request[t].rec
            /\ mixed' = (mixed \/ request[t].torn)
            /\ UNCHANGED cached
       ELSE UNCHANGED <<report, mixed>> /\ Cache(t, "none")
    /\ Finish(t)
    /\ UNCHANGED <<row, token, lapsed, available, object, clockVars, sweeper, input>>

----------------------------------------------------------------------------
(* _delete_artifact: the object first, then the row's mark; a deletion or a *)
(* failed creation has no row left to mark                                  *)

Erase(t) ==
    /\ request[t].pc = "erase"
    /\ IF request[t].archive # "none" THEN EraseObject ELSE UNCHANGED object
    /\ IF request[t].op \in {"create", "delete"} THEN Finish(t) ELSE Goto(t, "mark")
    /\ UNCHANGED <<dbVars, clockVars, cached, sweeper, input>>

MarkDeleted(t) ==
    /\ request[t].pc = "mark"
    /\ available' = FALSE
    /\ Finish(t)
    /\ UNCHANGED <<row, report, token, lapsed, mixed, object, clockVars, cached, sweeper,
                   input>>

----------------------------------------------------------------------------
(* delete *)

\* The cached record carries the reference; without one it is read next.
DeleteBegin(t) ==
    /\ request[t].pc = "idle"
    /\ \/ /\ row # "absent"
          /\ cached[Host[t]] # "none"
          /\ request' = [request EXCEPT ![t] =
                [Idle EXCEPT !.op = "delete", !.pc = "remove",
                    !.archive = IF cached[Host[t]] = "ref" THEN "reference" ELSE "none"]]
       \/ /\ row = "present"
          /\ cached[Host[t]] = "none"
          /\ request' = [request EXCEPT ![t] =
                [Idle EXCEPT !.op = "delete", !.pc = "reference"]]
    /\ Cache(t, "none")
    /\ UNCHANGED <<dbVars, object, clockVars, sweeper, input>>

DeleteReference(t) ==
    /\ At(t, "delete", "reference")
    /\ request' = [request EXCEPT ![t].pc = "remove",
                          ![t].archive = IF available THEN "reference" ELSE "none"]
    /\ UNCHANGED <<dbVars, object, clockVars, cached, sweeper, input>>

Remove(t) ==
    /\ request[t].pc = "remove"
    /\ RemoveRow
    /\ Goto(t, "erase")
    /\ UNCHANGED <<object, clockVars, cached, sweeper, input>>

----------------------------------------------------------------------------
(* purge_expired, run by each process every minute *)

Sweep(p, from, to) == sweeper[p] = from /\ sweeper' = [sweeper EXCEPT ![p] = to]

\* Mutant: delete_expired is left out, and only what the process has cached expires.
SweepBeginCachedOnly(p) ==
    /\ expired
    /\ cached[p] # "none"
    /\ Sweep(p, "idle", IF cached[p] = "ref" THEN "erase" ELSE "row")
    /\ cached' = [cached EXCEPT ![p] = "none"]
    /\ UNCHANGED <<dbVars, object, clockVars, request, input>>

\* Only an analysis this process has cached gets its archive deleted.
SweepBegin(p) ==
    /\ expired
    /\ Sweep(p, "idle", CASE cached[p] = "ref"  -> "erase"
                          [] cached[p] = "bare" -> "row"
                          [] OTHER              -> "all")
    /\ cached' = [cached EXCEPT ![p] = "none"]
    /\ UNCHANGED <<dbVars, object, clockVars, request, input>>

SweepErase(p) ==
    /\ Sweep(p, "erase", "row")
    /\ EraseObject
    /\ UNCHANGED <<dbVars, clockVars, cached, request, input>>

\* The store's error is not caught: it ends the process's expiry task.
SweepDies(p) ==
    /\ "store" \in Fault
    /\ Sweep(p, "erase", "dead")
    /\ UNCHANGED <<dbVars, object, clockVars, cached, request, input>>

SweepRow(p) ==
    /\ \/ Sweep(p, "row", "all")
       \/ Sweep(p, "all", "idle")
    /\ RemoveRow
    /\ UNCHANGED <<object, clockVars, cached, request, input>>

\* A database error is logged and left to the next sweep.
SweepRowFails(p) ==
    /\ "database" \in Fault
    /\ \/ Sweep(p, "row", "all")
       \/ Sweep(p, "all", "idle")
    /\ UNCHANGED <<dbVars, object, clockVars, cached, request, input>>

----------------------------------------------------------------------------
(* Time and faults *)

\* The periods run once the row is there: none is as short as a creation.
ReportExpires ==
    /\ "report" \in Clock
    /\ row # "absent"
    /\ ~expired
    /\ expired' = TRUE
    /\ UNCHANGED <<dbVars, object, rawExpired, cached, request, sweeper, input>>

ArchiveExpires ==
    /\ "archive" \in Clock
    /\ row = "present"
    /\ ~rawExpired
    /\ rawExpired' = TRUE
    /\ UNCHANGED <<dbVars, object, expired, cached, request, sweeper, input>>

ClaimLapses ==
    /\ "claim" \in Clock
    /\ token # NoToken
    /\ ~lapsed
    /\ lapsed' = TRUE
    /\ UNCHANGED <<row, report, token, available, mixed, object, clockVars, cached,
                   request, sweeper, input>>

\* A call to the database fails: the handler raises.
DatabaseFails(t) ==
    /\ "database" \in Fault
    /\ request[t].pc \in {"findings", "plans", "verifications", "load", "expire",
                          "ensure", "claim", "commit", "annotate", "reference",
                          "remove", "mark"}
    /\ Abandon({t})
    /\ Finish(t)
    /\ UNCHANGED <<row, report, lapsed, available, mixed, object, clockVars, cached,
                   sweeper, input>>

\* So does a call to the artifact store.
StoreFails(t) ==
    /\ "store" \in Fault
    /\ request[t].pc \in {"fetch", "erase"}
    /\ Finish(t)
    /\ UNCHANGED <<dbVars, object, clockVars, cached, sweeper, input>>

\* The process stops, and starts again with nothing in memory.
Crash(p) ==
    /\ "crash" \in Fault
    /\ Abandon({t \in Thread : Host[t] = p})
    /\ request' = [t \in Thread |-> IF Host[t] = p THEN Idle ELSE request[t]]
    /\ cached' = [cached EXCEPT ![p] = "none"]
    /\ sweeper' = [sweeper EXCEPT ![p] = "idle"]
    /\ UNCHANGED <<row, report, lapsed, available, mixed, object, clockVars, input>>

----------------------------------------------------------------------------
(* The specification *)

Arrive(t) ==
    \/ CreatePut(t)
    \/ Begin(t) \/ NotFound(t)
    \/ DeleteBegin(t)

Work(t) ==
    \/ RunStatic(t) \/ RunError(t) \/ RunComplete(t)
    \/ PlanGenerated(t) \/ PlanRejected(t)
    \/ VerifyComplete(t) \/ VerifyError(t)

Proceed(t) ==
    \/ CreateInsert(t) \/ CreateRejected(t)
    \/ ReadFindings(t) \/ ReadPlans(t) \/ ReadVerifications(t)
    \/ AdmitRun(t) \/ AdmitPlan(t) \/ AdmitVerify(t) \/ AdmitInsight(t)
    \/ Return(t) \/ FindExpired(t) \/ Expire(t)
    \/ EnsureBundle(t) \/ FetchBundle(t)
    \/ Claim(t) \/ ClaimDenied(t)
    \/ Work(t)
    \/ Commit(t) \/ CommitRefused(t) \/ Annotate(t)
    \/ Erase(t) \/ MarkDeleted(t)
    \/ DeleteReference(t) \/ Remove(t)

Purge(p) == SweepBegin(p) \/ SweepErase(p) \/ SweepRow(p)

Next ==
    \/ \E t \in Thread : Arrive(t) \/ Proceed(t) \/ DatabaseFails(t) \/ StoreFails(t)
    \/ \E p \in Process : Purge(p) \/ SweepDies(p) \/ SweepRowFails(p) \/ Crash(p)
    \/ ReportExpires \/ ArchiveExpires \/ ClaimLapses

Spec == Init /\ [][Next]_vars

\* Every call a handler makes returns or raises, the expiry task runs every
\* minute, and ten minutes pass.  Nothing obliges a client to send a request.
Fairness ==
    /\ \A t \in Thread : WF_vars(Proceed(t))
    /\ \A p \in Process : WF_vars(Purge(p))
    /\ WF_vars(ClaimLapses)

FairSpec == Spec /\ Fairness

----------------------------------------------------------------------------
(* Properties *)

\* What every record says, even one that mixes reports of several moments: the status
\* is the one its verdict stands for unless a plan has moved it on, and only a risky
\* migration has findings and plans.
Plausible(rec) ==
    /\ rec.status \in {"UNSAFE", "CONDITIONAL", "VERIFIED", "ERROR"} =>
         rec.status = StatusForVerdict(rec.verdict)
    /\ rec.status = "STATIC_ONLY" => ~input.ready
    /\ rec.findings => input.risky
    /\ rec.plans # <<>> => input.risky

\* What a report of one moment says: a plan is verified exactly when its verification
\* passed, and the analysis only when one of its plans is; a plan answers findings;
\* what nobody has run is as it was uploaded.
Coherent(rec) ==
    /\ Plausible(rec)
    /\ rec.status = "STAGED" => rec = StagedReport
    /\ rec.status = "VERIFIED_PLAN" =>
         \E i \in DOMAIN rec.plans : rec.plans[i].verification = "PASS"
    /\ rec.status = "PLANNING" => rec.plans # <<>>
    /\ \A i \in DOMAIN rec.plans :
         /\ rec.plans[i].state = "VERIFIED_FOR_REVIEW" => rec.plans[i].verification = "PASS"
         /\ rec.plans[i].state = "REJECTED" => rec.plans[i].verification = "FAIL"
    /\ rec.plans # <<>> => rec.findings

\* However the requests of several processes interleave, lapse and crash, the row holds
\* a report that a single run of the handlers might write, until a record is saved
\* that a save overtook while it was read.  Even then the verdict explains the status,
\* and an analysis without findings that is back at its first status has kept nothing.
StoredReportCoherent ==
    /\ Plausible(report)
    /\ report.status = "STAGED" /\ ~report.findings => report = StagedReport
    /\ ~mixed => Coherent(report)

\* The plan limit is checked on the private record before the claim, so a
\* request may act on a stale count; a save that replaces the whole aggregate
\* still never stores more plans than the limit.
PlanLimitHeld == Len(report.plans) <= MaxPlans

\* An analysis that nobody has run yet can still be run while it is retained: its
\* archive is there, whoever fails, gives up, or works with an outdated claim.  Findings
\* tell a run analysis apart that an insight has set back to its first status.
StagedKeepsBundle ==
    row = "present" /\ report.status = "STAGED" /\ ~report.findings
        /\ ~expired /\ ~rawExpired
        => object = "stored"

\* A deleted analysis is not resurrected by a request that was under way.
DeletedStaysDeleted == [][row = "deleted" => row' = "deleted"]_row

\* The claim columns keep the lease: one holder at a time publishes.
Lease == INSTANCE ReportLease WITH
    Client <- Thread, Value <- Report, Start <- StagedReport,
    NoHolder <- NoToken, Gone <- LostToken,
    stored <- row, content <- report, holder <- token, stale <- lapsed,
    working <- {t \in Thread : request[t].pc \in {"work", "commit"}}

LeaseKept == Lease!LeaseSpec

\* An archive without its row is erased, or gets its row.
ArchiveNotOrphaned == (row # "present") ~> (row = "present" \/ object # "stored")

\* Once a verification is complete the archive is erased.
VerifiedArchiveErased ==
    (\E i \in DOMAIN report.plans : report.plans[i].verification # "NONE")
        ~> (object # "stored")

\* A claim whose request was lost does not lock the analysis for good.
ClaimNeverStuck == (row = "present") ~> (Claimable \/ row # "present")

\* Unless calls to the database and processes fail again and again, the expiry tasks
\* remove a report that has outlived its retention, whether or not anyone asks for it:
\* only when each of them has died of an error of the artifact store does it stay.
ExpiredReportRemoved ==
    <>[][~\E p \in Process : SweepRowFails(p) \/ Crash(p)]_vars
        => ((expired /\ row = "present")
              ~> (row # "present" \/ \A p \in Process : sweeper[p] = "dead"))

\* Once a candidate has been judged on complete evidence its verdict stays, as long as
\* every record that is saved was read undisturbed.
CandidateVerdictKept ==
    [][ row = "present" /\ row' = "present" /\ ~mixed'
        /\ report.verdict \in {"UNSAFE", "CONDITIONALLY_VERIFIED", "VERIFIED_FOR_REVIEW"}
        => report'.verdict = report.verdict ]_vars
=============================================================================
