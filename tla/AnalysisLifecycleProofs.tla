---------------------- MODULE AnalysisLifecycleProofs ----------------------
(***************************************************************************)
(* Theorems about AnalysisLifecycle for every set of threads, processes,   *)
(* faults and clocks and every plan limit, checked by TLAPS.               *)
(***************************************************************************)
EXTENDS AnalysisLifecycle, SequenceTheorems, TLAPS

----------------------------------------------------------------------------
(* The shape of the data *)

LEMMA StagedReportType == StagedReport \in Report
BY DEF StagedReport, Report, Status, Verdict, Plan

LEMMA IdleType == Idle \in Request
BY StagedReportType DEF Idle, Request, Operation, Step

LEMMA StatusForVerdictType ==
    ASSUME NEW v \in Verdict
    PROVE  StatusForVerdict(v) \in {"UNSAFE", "CONDITIONAL", "VERIFIED", "ERROR"}
BY DEF Verdict, StatusForVerdict

LEMMA ReplacePlan ==
    ASSUME NEW plans \in Seq(Plan), NEW i, NEW p \in Plan
    PROVE  [plans EXCEPT ![i] = p] \in Seq(Plan)
<1>1. CASE i \in 1..Len(plans)
  BY <1>1, ExceptSeq
<1>2. CASE i \notin 1..Len(plans)
  <2>1. plans = [j \in DOMAIN plans |-> plans[j]] /\ DOMAIN plans = 1..Len(plans)
    BY ElementOfSeq, LenProperties
  <2>2. [plans EXCEPT ![i] = p] = plans
    BY <1>2, <2>1
  <2> QED BY <2>2
<1> QED BY <1>1, <1>2

\* What Conclude stores when it is given a report.
LEMMA ConcludeType ==
    ASSUME TypeOK, NEW t \in Thread, NEW rec \in Report, NEW cleanup \in BOOLEAN,
           Conclude(t, rec, cleanup)
    PROVE  TypeOK'
<1> DEFINE r == [request[t] EXCEPT !.rec = rec, !.cleanup = cleanup, !.pc = "commit"]
<1>1. request[t] \in Request
  BY DEF TypeOK
<1>2. r \in Request
  BY <1>1 DEF Request, Step
<1>3. request' = [request EXCEPT ![t] = r]
  BY DEF Conclude, TypeOK
<1>4. request' \in [Thread -> Request]
  BY <1>2, <1>3 DEF TypeOK
<1> HIDE DEF r
<1> QED BY <1>4 DEF TypeOK, Conclude, dbVars, clockVars

LEMMA WorkType ==
    ASSUME TypeOK, NEW t \in Thread, Work(t)
    PROVE  TypeOK'
<1> USE DEF At
<1>r. request[t] \in Request /\ request[t].rec \in Report
  BY DEF TypeOK, Request
<1>i. input.risky \in BOOLEAN /\ input.ready \in BOOLEAN
  BY DEF TypeOK, Input
<1>1. CASE RunStatic(t)
  <2>1. RunResult(t, "STATIC_ONLY", "INSUFFICIENT_EVIDENCE") \in Report
    BY <1>r, <1>i DEF RunResult, Report, Status, Verdict
  <2> QED BY <1>1, <2>1, ConcludeType DEF RunStatic
<1>2. CASE RunError(t)
  <2>1. PICK verdict \in {"INSUFFICIENT_EVIDENCE", "ERROR"} :
           Conclude(t, RunResult(t, "ERROR", verdict), FALSE)
    BY <1>2 DEF RunError
  <2>2. RunResult(t, "ERROR", verdict) \in Report
    BY <1>r, <1>i DEF RunResult, Report, Status, Verdict
  <2> QED BY <2>1, <2>2, ConcludeType
<1>3. CASE RunComplete(t)
  <2>1. PICK verdict \in CandidateVerdict :
           Conclude(t, RunResult(t, StatusForVerdict(verdict), verdict), ~input.risky)
    BY <1>3 DEF RunComplete
  <2>2. verdict \in Verdict
    BY LifecycleAssumption
  <2>3. RunResult(t, StatusForVerdict(verdict), verdict) \in Report
    BY <1>r, <1>i, <2>2, StatusForVerdictType DEF RunResult, Report, Status
  <2> QED BY <1>i, <2>1, <2>3, ConcludeType
<1>4. CASE PlanGenerated(t)
  <2>1. NewPlan \in Plan
    BY DEF NewPlan, Plan
  <2>2. Append(request[t].rec.plans, NewPlan) \in Seq(Plan)
    BY <1>r, <2>1 DEF Report
  <2>3. [request[t].rec EXCEPT !.status = "PLANNING", !.plans = Append(@, NewPlan)] \in Report
    BY <1>r, <2>2 DEF Report, Status
  <2> QED BY <1>4, <2>3, ConcludeType DEF PlanGenerated
<1>5. CASE PlanRejected(t)
  <2>1. [request[t].rec EXCEPT !.status = "PLAN_REJECTED"] \in Report
    BY <1>r DEF Report, Status
  <2> QED BY <1>5, <2>1, ConcludeType DEF PlanRejected
<1>6. CASE VerifyComplete(t)
  <2> DEFINE judged(passed) ==
         IF passed THEN [state |-> "VERIFIED_FOR_REVIEW", verification |-> "PASS"]
                   ELSE [state |-> "REJECTED", verification |-> "FAIL"]
  <2> DEFINE rec(passed) ==
         [request[t].rec EXCEPT
             !.status = IF passed THEN "VERIFIED_PLAN" ELSE "PLAN_REJECTED",
             !.plans[request[t].plan] = judged(passed)]
  <2>1. PICK passed \in BOOLEAN : Conclude(t, rec(passed), TRUE)
    BY <1>6 DEF VerifyComplete
  <2>2. judged(passed) \in Plan
    BY DEF Plan
  <2>3. [request[t].rec.plans EXCEPT ![request[t].plan] = judged(passed)] \in Seq(Plan)
    BY <1>r, <2>2, ReplacePlan DEF Report
  <2>4. rec(passed) \in Report
    BY <1>r, <2>3 DEF Report, Status
  <2> QED BY <2>1, <2>4, ConcludeType
<1>7. CASE VerifyError(t)
  <2> DEFINE plans == [request[t].rec.plans EXCEPT
                          ![request[t].plan].state = "UNVERIFIED_CANDIDATE"]
  <2>1. plans \in Seq(Plan)
    <3>1. request[t].rec.plans \in Seq(Plan)
      BY <1>r DEF Report
    <3>2. CASE request[t].plan \in DOMAIN request[t].rec.plans
      <4>1. request[t].rec.plans[request[t].plan] \in Plan
        BY <3>1, <3>2, ElementOfSeq, LenProperties
      <4>2. [request[t].rec.plans[request[t].plan] EXCEPT !.state = "UNVERIFIED_CANDIDATE"]
               \in Plan
        BY <4>1 DEF Plan
      <4> QED BY <3>1, <4>2, ReplacePlan
    <3>3. CASE request[t].plan \notin DOMAIN request[t].rec.plans
      <4>1. plans = request[t].rec.plans
        BY <3>1, <3>3, LenProperties
      <4> QED BY <3>1, <4>1
    <3> QED BY <3>2, <3>3
  <2>2. StatusForVerdict(request[t].rec.verdict) \in Status
    BY <1>r, StatusForVerdictType DEF Report, Status
  <2>3. [request[t].rec EXCEPT
            !.status = StatusForVerdict(request[t].rec.verdict),
            !.plans[request[t].plan].state = "UNVERIFIED_CANDIDATE"] \in Report
    BY <1>r, <2>1, <2>2 DEF Report
  <2> QED BY <1>7, <2>3, ConcludeType DEF VerifyError
<1> QED BY <1>1, <1>2, <1>3, <1>4, <1>5, <1>6, <1>7 DEF Work

\* The pieces the other actions are built from.
LEMMA PiecesType ==
    ASSUME TypeOK, NEW t \in Thread
    PROVE  /\ request[t] \in Request
           /\ Host[t] \in Process
           /\ Finish(t) => request' \in [Thread -> Request]
           /\ \A pc \in Step : Goto(t, pc) => request' \in [Thread -> Request]
           /\ \A r \in Request :
                request' = [request EXCEPT ![t] = r] => request' \in [Thread -> Request]
           /\ \A entry \in {"none", "bare", "ref"} :
                Cache(t, entry) => cached' \in [Process -> {"none", "bare", "ref"}]
           /\ (object' = object \/ EraseObject) => object' \in {"none", "stored", "erased"}
<1>1. request[t] \in Request /\ request \in [Thread -> Request]
  BY DEF TypeOK
<1>2. Host[t] \in Process
  BY LifecycleAssumption
<1>3. \A r \in Request :
         request' = [request EXCEPT ![t] = r] => request' \in [Thread -> Request]
  BY <1>1
<1>4. Finish(t) => request' \in [Thread -> Request]
  BY <1>3, IdleType DEF Finish
<1>5. ASSUME NEW pc \in Step, Goto(t, pc)
      PROVE  request' \in [Thread -> Request]
  <2>1. [request[t] EXCEPT !.pc = pc] \in Request
    BY <1>1 DEF Request
  <2>2. request' = [request EXCEPT ![t] = [request[t] EXCEPT !.pc = pc]]
    BY <1>1, <1>5 DEF Goto
  <2> QED BY <1>3, <2>1, <2>2
<1>6. ASSUME NEW entry \in {"none", "bare", "ref"}, Cache(t, entry)
      PROVE  cached' \in [Process -> {"none", "bare", "ref"}]
  BY <1>6 DEF Cache, TypeOK
<1>7. (object' = object \/ EraseObject) => object' \in {"none", "stored", "erased"}
  BY DEF EraseObject, TypeOK
<1> QED BY <1>1, <1>2, <1>3, <1>4, <1>5, <1>6, <1>7

LEMMA RemoveRowType ==
    ASSUME TypeOK, RemoveRow
    PROVE  /\ row' \in {"absent", "present", "deleted"}
           /\ report' \in Report
           /\ token' \in Token
           /\ lapsed' \in BOOLEAN
           /\ available' \in BOOLEAN
           /\ mixed' \in BOOLEAN
BY StagedReportType DEF TypeOK, RemoveRow, Token

LEMMA ArriveType ==
    ASSUME TypeOK, NEW t \in Thread, Arrive(t)
    PROVE  TypeOK'
<1> USE DEF dbVars, clockVars, TypeOK
<1>1. CASE CreatePut(t)
  <2>1. [Idle EXCEPT !.op = "create", !.pc = "insert"] \in Request
    BY IdleType DEF Request, Operation, Step
  <2>2. request' \in [Thread -> Request]
    BY <1>1, <2>1, PiecesType DEF CreatePut
  <2> QED BY <1>1, <2>2, PiecesType DEF CreatePut
<1>2. CASE Begin(t)
  <2>1. PICK archive \in {"none", "bundle"} :
           request' = [request EXCEPT ![t] =
              [Idle EXCEPT !.pc = "findings", !.archive = archive,
                           !.rec = [report EXCEPT !.insights = {}]]]
    BY <1>2 DEF Begin
  <2>2. [report EXCEPT !.insights = {}] \in Report
    BY DEF Report
  <2>3. [Idle EXCEPT !.pc = "findings", !.archive = archive,
                     !.rec = [report EXCEPT !.insights = {}]] \in Request
    BY <2>2, IdleType DEF Request, Step
  <2>4. request' \in [Thread -> Request]
    BY <2>1, <2>3, PiecesType
  <2> QED BY <1>2, <2>4 DEF Begin
<1>3. CASE NotFound(t)
  BY <1>3, PiecesType DEF NotFound
<1>4. CASE DeleteBegin(t)
  <2>1. \A archive \in {"none", "reference"} :
           [Idle EXCEPT !.op = "delete", !.pc = "remove", !.archive = archive] \in Request
    BY IdleType DEF Request, Operation, Step
  <2>2. [Idle EXCEPT !.op = "delete", !.pc = "reference"] \in Request
    BY IdleType DEF Request, Operation, Step
  <2>3. request' \in [Thread -> Request]
    BY <1>4, <2>1, <2>2, PiecesType DEF DeleteBegin
  <2> QED BY <1>4, <2>3, PiecesType DEF DeleteBegin
<1> QED BY <1>1, <1>2, <1>3, <1>4 DEF Arrive

\* What the SELECT of one child table does to a request: only the request and its
\* record change, and the record is torn when it changes.
ReadRec(t, rec) ==
    /\ request'[t].rec = rec
    /\ request'[t].op = request[t].op /\ request'[t].plan = request[t].plan
    /\ request'[t].pc \in {"plans", "verifications", "load"}
    /\ request'[t].torn = (request[t].torn \/ rec # request[t].rec)

\* The record that a read of the verifications leaves.
Examined(rec, found) ==
    [rec EXCEPT !.plans = [i \in DOMAIN rec.plans |->
                              [rec.plans[i] EXCEPT !.verification = found[i]]]]

LEMMA ReadStep ==
    ASSUME TypeOK, NEW t \in Thread, NEW rec \in Report,
           NEW next \in {"plans", "verifications", "load"}, Read(t, rec, next)
    PROVE  /\ TypeOK'
           /\ ReadRec(t, rec)
           /\ \A u \in Thread \ {t} : request'[u] = request[u]
           /\ UNCHANGED <<dbVars, object, clockVars, cached, sweeper, input>>
<1> DEFINE r == [request[t] EXCEPT !.rec = rec, !.pc = next,
                                   !.torn = @ \/ rec # request[t].rec]
<1>1. request[t] \in Request /\ request \in [Thread -> Request]
  BY DEF TypeOK
<1>2. r \in Request
  BY <1>1 DEF Request, Step
<1>3. request' = [request EXCEPT ![t] = r]
  BY <1>1 DEF Read
<1>4. /\ r.rec = rec /\ r.pc = next /\ r.op = request[t].op /\ r.plan = request[t].plan
      /\ r.torn = (request[t].torn \/ rec # request[t].rec)
  BY <1>1 DEF Request
<1> HIDE DEF r
<1>5. request' \in [Thread -> Request]
  BY <1>1, <1>2, <1>3
<1>6. request'[t] = r
  BY <1>1, <1>3
<1>7. ReadRec(t, rec)
  BY <1>4, <1>6 DEF ReadRec
<1> QED BY <1>1, <1>3, <1>5, <1>7 DEF Read, TypeOK, dbVars, clockVars

\* The plans that a read of the verifications leaves.
LEMMA ExaminedType ==
    ASSUME NEW rec \in Report,
           NEW found \in [DOMAIN rec.plans -> {"NONE", "PASS", "FAIL"}]
    PROVE  /\ Examined(rec, found) \in Report
           /\ Len(Examined(rec, found).plans) = Len(rec.plans)
           /\ Examined(rec, found).plans # <<>> => rec.plans # <<>>
           /\ Examined(rec, found).status = rec.status
           /\ Examined(rec, found).verdict = rec.verdict
           /\ Examined(rec, found).findings = rec.findings
<1> DEFINE plans == [i \in DOMAIN rec.plans |->
                        [rec.plans[i] EXCEPT !.verification = found[i]]]
<1>1. /\ rec.plans \in Seq(Plan) /\ Len(rec.plans) \in Nat
      /\ DOMAIN rec.plans = 1..Len(rec.plans)
      /\ \A i \in DOMAIN rec.plans : rec.plans[i] \in Plan
  BY LenProperties, ElementOfSeq DEF Report
<1>2. \A i \in DOMAIN rec.plans :
         [rec.plans[i] EXCEPT !.verification = found[i]] \in Plan
  BY <1>1 DEF Plan
<1>3. plans \in [1..Len(rec.plans) -> Plan]
  BY <1>1, <1>2
<1>4. plans \in Seq(Plan) /\ Len(plans) = Len(rec.plans)
  BY <1>1, <1>3, SeqDef, LenProperties
<1>5. /\ Examined(rec, found).plans = plans
      /\ Examined(rec, found).status = rec.status
      /\ Examined(rec, found).verdict = rec.verdict
      /\ Examined(rec, found).findings = rec.findings
  BY DEF Examined, Report
<1> HIDE DEF plans
<1>6. Examined(rec, found) \in Report
  BY <1>4 DEF Examined, Report, plans
<1>7. plans # <<>> => rec.plans # <<>>
  BY <1>1, <1>4, EmptySeq, LenProperties
<1> QED BY <1>4, <1>5, <1>6, <1>7

\* Which record a further read leaves: everything in it was in the record or is in the row.
LEMMA ReadFrame ==
    ASSUME TypeOK, NEW t \in Thread,
           ReadFindings(t) \/ ReadPlans(t) \/ ReadVerifications(t)
    PROVE  \E rec \in Report :
              /\ TypeOK'
              /\ ReadRec(t, rec)
              /\ \A u \in Thread \ {t} : request'[u] = request[u]
              /\ UNCHANGED <<dbVars, object, clockVars, cached, sweeper, input>>
              /\ rec.status = request[t].rec.status
              /\ rec.verdict = request[t].rec.verdict
              /\ rec.findings \in {request[t].rec.findings, report.findings}
              /\ \/ /\ Len(rec.plans) = Len(request[t].rec.plans)
                    /\ rec.plans # <<>> => request[t].rec.plans # <<>>
                 \/ rec.plans = report.plans
              /\ request[t].pc \in {"findings", "plans", "verifications"}
<1>r. request[t].rec \in Report /\ report \in Report
  BY DEF TypeOK, Request
<1>1. CASE ReadFindings(t)
  <2> DEFINE rec == [request[t].rec EXCEPT !.findings = report.findings]
  <2>1. rec \in Report
    BY <1>r DEF Report
  <2>2. Read(t, rec, "plans") /\ request[t].pc = "findings"
    BY <1>1 DEF ReadFindings
  <2>3. /\ rec.status = request[t].rec.status /\ rec.verdict = request[t].rec.verdict
        /\ rec.findings = report.findings /\ rec.plans = request[t].rec.plans
    BY <1>r DEF Report
  <2> HIDE DEF rec
  <2>4. /\ TypeOK' /\ ReadRec(t, rec) /\ \A u \in Thread \ {t} : request'[u] = request[u]
        /\ UNCHANGED <<dbVars, object, clockVars, cached, sweeper, input>>
    BY <2>1, <2>2, ReadStep
  <2> QED BY <2>1, <2>2, <2>3, <2>4
<1>2. CASE ReadPlans(t)
  <2> DEFINE rec == [request[t].rec EXCEPT !.plans = report.plans]
  <2> DEFINE next == IF report.plans = <<>> THEN "load" ELSE "verifications"
  <2>1. rec \in Report
    BY <1>r DEF Report
  <2>2. Read(t, rec, next) /\ request[t].pc = "plans"
    BY <1>2 DEF ReadPlans
  <2>3. /\ rec.status = request[t].rec.status /\ rec.verdict = request[t].rec.verdict
        /\ rec.findings = request[t].rec.findings /\ rec.plans = report.plans
    BY <1>r DEF Report
  <2>5. next \in {"plans", "verifications", "load"}
    OBVIOUS
  <2> HIDE DEF rec, next
  <2>4. /\ TypeOK' /\ ReadRec(t, rec) /\ \A u \in Thread \ {t} : request'[u] = request[u]
        /\ UNCHANGED <<dbVars, object, clockVars, cached, sweeper, input>>
    BY <2>1, <2>2, <2>5, ReadStep
  <2> QED BY <2>1, <2>2, <2>3, <2>4
<1>3. CASE ReadVerifications(t)
  <2>1. PICK found \in [DOMAIN request[t].rec.plans -> {"NONE", "PASS", "FAIL"}] :
           Read(t, Examined(request[t].rec, found), "load")
    BY <1>3 DEF ReadVerifications, Examined
  <2>2. request[t].pc = "verifications"
    BY <1>3 DEF ReadVerifications
  <2> DEFINE rec == Examined(request[t].rec, found)
  <2>3. /\ rec \in Report /\ rec.status = request[t].rec.status
        /\ rec.verdict = request[t].rec.verdict /\ rec.findings = request[t].rec.findings
        /\ Len(rec.plans) = Len(request[t].rec.plans)
        /\ rec.plans # <<>> => request[t].rec.plans # <<>>
    BY <1>r, ExaminedType
  <2>5. Read(t, rec, "load")
    BY <2>1
  <2> HIDE DEF rec
  <2>4. /\ TypeOK' /\ ReadRec(t, rec) /\ \A u \in Thread \ {t} : request'[u] = request[u]
        /\ UNCHANGED <<dbVars, object, clockVars, cached, sweeper, input>>
    BY <2>3, <2>5, ReadStep
  <2> QED BY <2>2, <2>3, <2>4
<1> QED BY <1>1, <1>2, <1>3

\* Up to the claim: the record's fields change one call at a time.
LEMMA AdmitType ==
    ASSUME TypeOK, NEW t \in Thread,
           AdmitRun(t) \/ AdmitPlan(t) \/ AdmitVerify(t) \/ AdmitInsight(t)
    PROVE  TypeOK'
<1> USE DEF dbVars, clockVars
<1>r. request[t] \in Request /\ request[t].rec \in Report
  BY DEF TypeOK, Request
<1>c. cached' \in [Process -> {"none", "bare", "ref"}]
  BY PiecesType DEF AdmitRun, AdmitPlan, AdmitVerify, AdmitInsight, Loaded
<1>n. ASSUME NEW op \in {"run", "verify"}, NEW i \in Nat, NeedBundle(t, op, i)
      PROVE  request' \in [Thread -> Request]
  <2> DEFINE archive == IF available /\ ~(request[t].archive = "bundle")
                        THEN "reference" ELSE request[t].archive
  <2> DEFINE pc == IF request[t].archive = "bundle" THEN "claim" ELSE "ensure"
  <2> DEFINE r == [request[t] EXCEPT !.op = op, !.plan = i, !.archive = archive, !.pc = pc]
  <2>1. archive \in {"none", "reference", "bundle"}
    BY <1>r DEF Request
  <2>2. r \in Request
    BY <1>r, <2>1 DEF Request, Operation, Step
  <2>3. request' = [request EXCEPT ![t] = r]
    BY <1>n DEF NeedBundle, TypeOK
  <2> HIDE DEF r
  <2> QED BY <2>2, <2>3, PiecesType
<1>1. CASE AdmitRun(t)
  BY <1>1, <1>c, <1>n DEF AdmitRun, TypeOK
<1>2. CASE AdmitVerify(t)
  <2>1. PICK i \in DOMAIN request[t].rec.plans : NeedBundle(t, "verify", i)
    BY <1>2 DEF AdmitVerify
  <2>2. request[t].rec.plans \in Seq(Plan)
    BY <1>r DEF Report
  <2>3. i \in Nat
    BY <2>2
  <2>4. request' \in [Thread -> Request]
    BY <1>n, <2>1, <2>3
  <2> QED BY <1>2, <1>c, <2>4 DEF AdmitVerify, TypeOK
<1>3. CASE AdmitPlan(t)
  <2> DEFINE r == [request[t] EXCEPT !.op = "plan", !.pc = "claim", !.archive = "none"]
  <2>1. r \in Request
    BY <1>r DEF Request, Operation, Step
  <2>2. request' = [request EXCEPT ![t] = r]
    BY <1>3 DEF AdmitPlan, TypeOK
  <2> HIDE DEF r
  <2>3. request' \in [Thread -> Request]
    BY <2>1, <2>2, PiecesType
  <2> QED BY <1>3, <1>c, <2>3 DEF AdmitPlan, TypeOK
<1>4. CASE AdmitInsight(t)
  <2>1. PICK kind \in InsightKind :
           request' = [request EXCEPT ![t].pc = "annotate", ![t].archive = "none",
                                      ![t].rec.insights = @ \union {kind}]
    BY <1>4 DEF AdmitInsight
  <2> DEFINE rec == [request[t].rec EXCEPT !.insights = @ \union {kind}]
  <2> DEFINE r == [request[t] EXCEPT !.pc = "annotate", !.archive = "none", !.rec = rec]
  <2>2. rec \in Report
    BY <1>r DEF Report
  <2>3. r \in Request
    BY <1>r, <2>2 DEF Request, Step
  <2>4. request' = [request EXCEPT ![t] = r]
    BY <2>1 DEF TypeOK
  <2> HIDE DEF r
  <2>5. request' \in [Thread -> Request]
    BY <2>3, <2>4, PiecesType
  <2> QED BY <1>4, <1>c, <2>5 DEF AdmitInsight, TypeOK
<1> QED BY <1>1, <1>2, <1>3, <1>4

LEMMA ProceedType ==
    ASSUME TypeOK, NEW t \in Thread, Proceed(t)
    PROVE  TypeOK'
<1> USE DEF dbVars, clockVars, At
<1>r. request[t] \in Request /\ request[t].rec \in Report
  BY DEF TypeOK, Request
<1>1. CASE CreateInsert(t)
  BY <1>1, PiecesType, StagedReportType DEF CreateInsert, TypeOK
<1>2. CASE CreateRejected(t)
  <2>1. [request[t] EXCEPT !.pc = "erase", !.archive = "reference"] \in Request
    BY <1>r DEF Request, Step
  <2>2. request' = [request EXCEPT ![t] =
                       [request[t] EXCEPT !.pc = "erase", !.archive = "reference"]]
    BY <1>2 DEF CreateRejected, TypeOK
  <2>3. request' \in [Thread -> Request]
    BY <2>1, <2>2, PiecesType
  <2> QED BY <1>2, <2>3, PiecesType DEF CreateRejected, TypeOK
<1>3. CASE AdmitRun(t) \/ AdmitPlan(t) \/ AdmitVerify(t) \/ AdmitInsight(t)
  BY <1>3, AdmitType
<1>4. CASE Return(t)
  BY <1>4, PiecesType DEF Return, Loaded, TypeOK
<1>5. CASE FindExpired(t)
  <2>1. "expire" \in Step
    BY DEF Step
  <2> QED BY <1>5, <2>1, PiecesType DEF FindExpired, TypeOK
<1>6. CASE Expire(t)
  BY <1>6, PiecesType, RemoveRowType DEF Expire, TypeOK
<1>7. CASE EnsureBundle(t)
  <2>1. \A pc \in {"erase", "fetch"} :
           [request[t] EXCEPT !.archive = "reference", !.pc = pc] \in Request
    BY <1>r DEF Request, Step
  <2>2. CASE Finish(t)
    BY <1>7, <2>2, PiecesType DEF EnsureBundle, TypeOK
  <2>3. CASE request' = [request EXCEPT ![t].archive = "reference",
                             ![t].pc = IF rawExpired THEN "erase" ELSE "fetch"]
    <3> DEFINE pc == IF rawExpired THEN "erase" ELSE "fetch"
    <3>1. request' = [request EXCEPT ![t] =
                         [request[t] EXCEPT !.archive = "reference", !.pc = pc]]
      BY <2>3 DEF TypeOK
    <3>2. request' \in [Thread -> Request]
      BY <2>1, <3>1, PiecesType
    <3> QED BY <1>7, <3>2 DEF EnsureBundle, TypeOK
  <2> QED BY <1>7, <2>2, <2>3 DEF EnsureBundle
<1>8. CASE FetchBundle(t)
  <2>1. [request[t] EXCEPT !.archive = "bundle", !.pc = "claim"] \in Request
    BY <1>r DEF Request, Step
  <2>2. CASE object = "stored"
    <3>1. request' = [request EXCEPT ![t] =
                         [request[t] EXCEPT !.archive = "bundle", !.pc = "claim"]]
      BY <1>8, <2>2 DEF FetchBundle, TypeOK
    <3>2. request' \in [Thread -> Request]
      BY <2>1, <3>1, PiecesType
    <3> QED BY <1>8, <3>2 DEF FetchBundle, TypeOK
  <2>3. CASE object # "stored"
    BY <1>8, <2>3, PiecesType DEF FetchBundle, TypeOK
  <2> QED BY <2>2, <2>3
<1>9. CASE Claim(t)
  <2>1. "work" \in Step
    BY DEF Step
  <2> QED BY <1>9, <2>1, PiecesType DEF Claim, TypeOK, Token
<1>10. CASE ClaimDenied(t)
  BY <1>10, PiecesType DEF ClaimDenied, TypeOK
<1>11. CASE Work(t)
  BY <1>11, WorkType
<1>12. CASE Commit(t)
  <2>1. [Idle EXCEPT !.op = request[t].op, !.pc = "erase",
                     !.archive = request[t].archive] \in Request
    BY <1>r, IdleType DEF Request, Step
  <2>2. request' \in [Thread -> Request]
    BY <1>12, <2>1, IdleType, PiecesType DEF Commit
  <2> QED BY <1>12, <1>r, <2>2 DEF Commit, TypeOK, Token
<1>13. CASE CommitRefused(t)
  BY <1>13, PiecesType DEF CommitRefused, TypeOK
<1>14. CASE Annotate(t)
  BY <1>14, <1>r, PiecesType DEF Annotate, TypeOK
<1>15. CASE Erase(t)
  <2>1. "mark" \in Step
    BY DEF Step
  <2> QED BY <1>15, <2>1, PiecesType DEF Erase, TypeOK
<1>16. CASE MarkDeleted(t)
  BY <1>16, PiecesType DEF MarkDeleted, TypeOK
<1>17. CASE DeleteReference(t)
  <2> DEFINE archive == IF available THEN "reference" ELSE "none"
  <2>1. [request[t] EXCEPT !.pc = "remove", !.archive = archive] \in Request
    BY <1>r DEF Request, Step
  <2>2. request' = [request EXCEPT ![t] =
                       [request[t] EXCEPT !.pc = "remove", !.archive = archive]]
    BY <1>17 DEF DeleteReference, TypeOK
  <2> HIDE DEF archive
  <2>3. request' \in [Thread -> Request]
    BY <2>1, <2>2, PiecesType
  <2> QED BY <1>17, <2>3 DEF DeleteReference, TypeOK
<1>18. CASE Remove(t)
  <2>1. "erase" \in Step
    BY DEF Step
  <2> QED BY <1>18, <2>1, PiecesType, RemoveRowType DEF Remove, TypeOK
<1>19. CASE ReadFindings(t) \/ ReadPlans(t) \/ ReadVerifications(t)
  BY <1>19, ReadFrame
<1> QED BY <1>1, <1>2, <1>3, <1>4, <1>5, <1>6, <1>7, <1>8, <1>9, <1>10, <1>11, <1>12,
           <1>13, <1>14, <1>15, <1>16, <1>17, <1>18, <1>19 DEF Proceed

LEMMA SweepType ==
    ASSUME TypeOK, NEW p \in Process, Purge(p) \/ SweepDies(p) \/ SweepRowFails(p)
    PROVE  TypeOK'
<1> USE DEF dbVars, clockVars, Sweep
<1>1. CASE SweepBegin(p)
  <2>1. sweeper' \in [Process -> {"idle", "erase", "row", "all", "dead"}]
    <3> DEFINE to == CASE cached[p] = "ref"  -> "erase"
                       [] cached[p] = "bare" -> "row"
                       [] OTHER              -> "all"
    <3>1. to \in {"idle", "erase", "row", "all", "dead"}
      BY DEF TypeOK
    <3>2. sweeper' = [sweeper EXCEPT ![p] = to]
      BY <1>1 DEF SweepBegin
    <3> HIDE DEF to
    <3> QED BY <3>1, <3>2 DEF TypeOK
  <2> QED BY <1>1, <2>1 DEF SweepBegin, TypeOK
<1>2. CASE SweepErase(p)
  BY <1>2 DEF SweepErase, EraseObject, TypeOK
<1>3. CASE SweepRow(p)
  BY <1>3, RemoveRowType DEF SweepRow, TypeOK
<1>4. CASE SweepDies(p)
  BY <1>4 DEF SweepDies, TypeOK
<1>5. CASE SweepRowFails(p)
  BY <1>5 DEF SweepRowFails, TypeOK
<1> QED BY <1>1, <1>2, <1>3, <1>4, <1>5 DEF Purge

LEMMA FaultType ==
    ASSUME TypeOK,
           \/ ReportExpires \/ ArchiveExpires \/ ClaimLapses
           \/ \E t \in Thread : DatabaseFails(t) \/ StoreFails(t)
           \/ \E p \in Process : Crash(p)
    PROVE  TypeOK'
<1> USE DEF dbVars, clockVars
<1>1. CASE ReportExpires \/ ArchiveExpires \/ ClaimLapses
  BY <1>1 DEF ReportExpires, ArchiveExpires, ClaimLapses, TypeOK
<1>2. ASSUME NEW t \in Thread, DatabaseFails(t)
      PROVE  TypeOK'
  BY <1>2, PiecesType DEF DatabaseFails, Abandon, TypeOK, Token
<1>3. ASSUME NEW t \in Thread, StoreFails(t)
      PROVE  TypeOK'
  BY <1>3, PiecesType DEF StoreFails, TypeOK
<1>4. ASSUME NEW p \in Process, Crash(p)
      PROVE  TypeOK'
  <2>1. request' \in [Thread -> Request]
    BY <1>4, IdleType DEF Crash, TypeOK
  <2> QED BY <1>4, <2>1 DEF Crash, Abandon, TypeOK, Token
<1> QED BY <1>1, <1>2, <1>3, <1>4

LEMMA InitType == Init => TypeOK
<1> SUFFICES ASSUME Init PROVE TypeOK
  OBVIOUS
<1>1. cached \in [Process -> {"none", "bare", "ref"}]
  BY DEF Init
<1>2. request \in [Thread -> Request]
  BY IdleType DEF Init
<1>3. sweeper \in [Process -> {"idle", "erase", "row", "all", "dead"}]
  BY DEF Init
<1>4. report \in Report /\ token \in Token /\ input \in Input
  BY StagedReportType DEF Init, Token
<1> QED BY <1>1, <1>2, <1>3, <1>4 DEF Init, TypeOK

LEMMA NextType == TypeOK /\ [Next]_vars => TypeOK'
<1> SUFFICES ASSUME TypeOK, [Next]_vars PROVE TypeOK'
  OBVIOUS
<1>1. CASE UNCHANGED vars
  BY <1>1 DEF vars, TypeOK
<1>2. CASE Next
  BY <1>2, ArriveType, ProceedType, SweepType, FaultType DEF Next
<1> QED BY <1>1, <1>2

\* Whatever the requests, the sweeps, the clocks and the faults do, every
\* variable keeps its type.
THEOREM TypeCorrect == Spec => []TypeOK
BY InitType, NextType, PTL DEF Spec

----------------------------------------------------------------------------
(* How a step may change a request and the row *)

\* The actions that handle the request of one thread.
Handle(t) == Arrive(t) \/ Proceed(t) \/ DatabaseFails(t) \/ StoreFails(t)

\* The actions of a process, of time, and of a process's end.
System ==
    \/ \E p \in Process : Purge(p) \/ SweepDies(p) \/ SweepRowFails(p) \/ Crash(p)
    \/ ReportExpires \/ ArchiveExpires \/ ClaimLapses

LEMMA NextSplit == Next <=> System \/ \E t \in Thread : Handle(t)
BY DEF Next, Handle, System

\* A step of one request leaves the others alone; only CreatePut starts an
\* insertion and only Claim starts the work of an operation.
LEMMA HandleFrame ==
    ASSUME TypeOK, NEW t \in Thread, Handle(t)
    PROVE  /\ \A u \in Thread \ {t} : request'[u] = request[u]
           /\ request'[t].pc = "insert" => CreatePut(t)
           /\ request'[t].pc = "work" => Claim(t)
           /\ request'[t].pc = "commit" => Work(t)
<1> USE DEF TypeOK, Idle, Finish, Goto
<1>r. request[t] \in Request
  OBVIOUS
<1>1. CASE Arrive(t)
  <2>1. CASE CreatePut(t)
    BY <2>1 DEF CreatePut
  <2>2. CASE Begin(t)
    BY <2>2 DEF Begin
  <2>3. CASE NotFound(t)
    BY <2>3 DEF NotFound
  <2>4. CASE DeleteBegin(t)
    BY <2>4 DEF DeleteBegin
  <2> QED BY <1>1, <2>1, <2>2, <2>3, <2>4 DEF Arrive
<1>2. CASE Proceed(t)
  <2>1. CASE CreateInsert(t) \/ CreateRejected(t)
    BY <2>1, <1>r DEF CreateInsert, CreateRejected, At, Request
  <2>2. CASE AdmitRun(t)
    BY <2>2, <1>r DEF AdmitRun, NeedBundle, Request
  <2>3. CASE AdmitVerify(t)
    BY <2>3, <1>r DEF AdmitVerify, NeedBundle, Request
  <2>4. CASE AdmitPlan(t)
    BY <2>4, <1>r DEF AdmitPlan, Request
  <2>5. CASE AdmitInsight(t)
    BY <2>5, <1>r DEF AdmitInsight, Request
  <2>6. CASE Return(t) \/ FindExpired(t) \/ Expire(t)
    BY <2>6, <1>r DEF Return, FindExpired, Expire, Request
  <2>7. CASE EnsureBundle(t)
    BY <2>7, <1>r DEF EnsureBundle, Request
  <2>8. CASE FetchBundle(t)
    BY <2>8, <1>r DEF FetchBundle, Request
  <2>9. CASE Claim(t) \/ ClaimDenied(t)
    BY <2>9, <1>r DEF Claim, ClaimDenied, Request
  <2>10. CASE Work(t)
    <3>1. \A rec, cleanup : Conclude(t, rec, cleanup) =>
             /\ \A u \in Thread \ {t} : request'[u] = request[u]
             /\ request'[t].pc = "commit"
      BY <1>r DEF Conclude, Request
    <3>2. \E rec, cleanup : Conclude(t, rec, cleanup)
      BY <2>10 DEF Work, RunStatic, RunError, RunComplete, PlanGenerated, PlanRejected,
                   VerifyComplete, VerifyError
    <3> QED BY <2>10, <3>1, <3>2
  <2>11. CASE Commit(t)
    BY <2>11, <1>r DEF Commit, Request
  <2>12. CASE CommitRefused(t) \/ Annotate(t)
    BY <2>12, <1>r DEF CommitRefused, Annotate, Request
  <2>13. CASE Erase(t) \/ MarkDeleted(t)
    BY <2>13, <1>r DEF Erase, MarkDeleted, Request
  <2>14. CASE DeleteReference(t) \/ Remove(t)
    BY <2>14, <1>r DEF DeleteReference, Remove, Request
  <2>15. CASE ReadFindings(t) \/ ReadPlans(t) \/ ReadVerifications(t)
    BY <2>15, ReadFrame DEF ReadRec
  <2> QED BY <1>2, <2>1, <2>2, <2>3, <2>4, <2>5, <2>6, <2>7, <2>8, <2>9, <2>10, <2>11,
             <2>12, <2>13, <2>14, <2>15 DEF Proceed
<1>3. CASE DatabaseFails(t) \/ StoreFails(t)
  BY <1>3 DEF DatabaseFails, StoreFails
<1> QED BY <1>1, <1>2, <1>3 DEF Handle

\* A crash clears the requests of its process; no other system step touches one.
LEMMA SystemFrame ==
    ASSUME TypeOK, System
    PROVE  \A u \in Thread : request'[u] \in {request[u], Idle}
<1>1. ASSUME NEW p \in Process, Crash(p)
      PROVE  \A u \in Thread : request'[u] \in {request[u], Idle}
  BY <1>1 DEF Crash
<1>2. CASE request' = request
  BY <1>2
<1> QED BY <1>1, <1>2 DEF System, Purge, SweepBegin, SweepErase, SweepRow, SweepDies,
           SweepRowFails, ReportExpires, ArchiveExpires, ClaimLapses

\* How the row and the object may change.
LEMMA StorageFrame ==
    ASSUME TypeOK, Next
    PROVE  /\ object # "none" => object' # "none"
           /\ row' # row =>
                \/ row = "present" /\ row' = "deleted"
                \/ \E t \in Thread : CreateInsert(t)
<1> USE DEF dbVars, clockVars
<1>e. EraseObject => (object # "none" => object' # "none")
  BY DEF EraseObject
<1>w. RemoveRow => (row' # row => row = "present" /\ row' = "deleted")
  BY DEF RemoveRow
<1>1. ASSUME NEW t \in Thread, Arrive(t)
      PROVE  (object # "none" => object' # "none") /\ row' = row
  BY <1>1 DEF Arrive, CreatePut, Begin, NotFound, DeleteBegin
<1>2. ASSUME NEW t \in Thread, Work(t)
      PROVE  object' = object /\ row' = row
  BY <1>2 DEF Work, Conclude, RunStatic, RunError, RunComplete, PlanGenerated,
              PlanRejected, VerifyComplete, VerifyError
<1>3. ASSUME NEW t \in Thread, Proceed(t)
      PROVE  /\ object # "none" => object' # "none"
             /\ row' # row => CreateInsert(t) \/ (row = "present" /\ row' = "deleted")
  <2>1. CASE Work(t)
    BY <1>2, <2>1
  <2>2. CASE AdmitRun(t) \/ AdmitPlan(t) \/ AdmitVerify(t) \/ AdmitInsight(t)
    BY <2>2 DEF AdmitRun, AdmitPlan, AdmitVerify, AdmitInsight
  <2>3. CASE CreateInsert(t) \/ CreateRejected(t)
    BY <2>3 DEF CreateInsert, CreateRejected
  <2>4. CASE Return(t) \/ FindExpired(t) \/ EnsureBundle(t) \/ FetchBundle(t)
             \/ Claim(t) \/ ClaimDenied(t) \/ Commit(t) \/ CommitRefused(t)
             \/ Annotate(t) \/ MarkDeleted(t) \/ DeleteReference(t)
    BY <2>4 DEF Return, FindExpired, EnsureBundle, FetchBundle, Claim, ClaimDenied,
                Commit, CommitRefused, Annotate, MarkDeleted, DeleteReference
  <2>5. CASE Expire(t) \/ Remove(t)
    BY <2>5, <1>w DEF Expire, Remove
  <2>6. CASE Erase(t)
    BY <2>6, <1>e DEF Erase
  <2>7. CASE ReadFindings(t) \/ ReadPlans(t) \/ ReadVerifications(t)
    BY <2>7, ReadFrame
  <2> QED BY <1>3, <2>1, <2>2, <2>3, <2>4, <2>5, <2>6, <2>7 DEF Proceed
<1>4. ASSUME NEW t \in Thread, DatabaseFails(t) \/ StoreFails(t)
      PROVE  object' = object /\ row' = row
  BY <1>4 DEF DatabaseFails, StoreFails
<1>5. CASE System
  <2>1. CASE \E p \in Process : SweepRow(p)
    BY <2>1, <1>w DEF SweepRow
  <2>2. CASE \E p \in Process : SweepErase(p)
    BY <2>2, <1>e DEF SweepErase
  <2>3. CASE object' = object /\ row' = row
    BY <2>3
  <2> QED BY <1>5, <2>1, <2>2, <2>3 DEF System, Purge, SweepBegin, SweepDies, SweepRowFails,
             Crash, ReportExpires, ArchiveExpires, ClaimLapses
<1> QED BY <1>1, <1>3, <1>4, <1>5, NextSplit DEF Handle

----------------------------------------------------------------------------
(* A deleted analysis stays deleted *)

\* Only the creation of the analysis inserts its row, and it can do so only
\* once: the archive is put first, under a name that is never free again.
CreatedOnce ==
    /\ row # "absent" => object # "none"
    /\ \A t \in Thread :
         request[t].pc = "insert" => row = "absent" /\ object # "none"
    /\ \A t, u \in Thread :
         request[t].pc = "insert" /\ request[u].pc = "insert" => t = u

LEMMA CreatedOnceInit == Init => CreatedOnce
BY DEF Init, CreatedOnce, Idle

LEMMA CreatedOnceNext == TypeOK /\ CreatedOnce /\ [Next]_vars => CreatedOnce'
<1> SUFFICES ASSUME TypeOK, CreatedOnce, [Next]_vars PROVE CreatedOnce'
  OBVIOUS
<1> USE DEF CreatedOnce, At
<1>1. CASE UNCHANGED vars
  BY <1>1 DEF vars
<1>2. ASSUME NEW t \in Thread, Handle(t)
      PROVE  CreatedOnce'
  <2>s. /\ object # "none" => object' # "none"
        /\ row' # row => \/ row = "present" /\ row' = "deleted"
                         \/ \E u \in Thread : CreateInsert(u)
    BY <1>2, NextSplit, StorageFrame
  <2>f. /\ \A u \in Thread \ {t} : request'[u] = request[u]
        /\ request'[t].pc = "insert" => CreatePut(t)
    BY <1>2, HandleFrame
  <2>1. CASE CreatePut(t)
    <3>1. object = "none" /\ object' = "stored" /\ row' = row
      BY <2>1 DEF CreatePut, dbVars
    <3>2. \A u \in Thread : request[u].pc # "insert"
      BY <3>1
    <3> QED BY <2>f, <3>1, <3>2
  <2>2. CASE \E u \in Thread : CreateInsert(u)
    <3>1. PICK u \in Thread : CreateInsert(u)
      BY <2>2
    <3>2. /\ request[u].pc = "insert"
          /\ request' = [request EXCEPT ![u] = Idle]
          /\ object' = object
      BY <3>1 DEF CreateInsert, Finish
    <3>3. \A v \in Thread : request'[v].pc # "insert"
      BY <3>2 DEF Idle, TypeOK
    <3> QED BY <3>2, <3>3
  <2>3. CASE ~CreatePut(t) /\ ~\E u \in Thread : CreateInsert(u)
    <3>1. row' # row => row = "present" /\ row' = "deleted"
      BY <2>s, <2>3
    <3>2. \A u \in Thread : request'[u].pc = "insert" =>
             u # t /\ request[u].pc = "insert"
      BY <2>f, <2>3
    <3> QED BY <2>s, <3>1, <3>2
  <2> QED BY <2>1, <2>2, <2>3
<1>3. CASE System
  <2>s. /\ object # "none" => object' # "none"
        /\ row' # row => \/ row = "present" /\ row' = "deleted"
                         \/ \E u \in Thread : CreateInsert(u)
    BY <1>3, NextSplit, StorageFrame
  <2>1. \A u \in Thread : request'[u].pc = "insert" => request[u].pc = "insert"
    BY <1>3, SystemFrame DEF Idle
  <2>2. CASE \E u \in Thread : CreateInsert(u)
    <3>1. PICK u \in Thread : CreateInsert(u)
      BY <2>2
    <3>2. /\ request[u].pc = "insert"
          /\ request' = [request EXCEPT ![u] = Idle]
          /\ object' = object
      BY <3>1 DEF CreateInsert, Finish
    <3>3. \A v \in Thread : request'[v].pc # "insert"
      BY <3>2 DEF Idle, TypeOK
    <3> QED BY <3>2, <3>3
  <2>3. CASE ~\E u \in Thread : CreateInsert(u)
    BY <2>s, <2>1, <2>3
  <2> QED BY <2>2, <2>3
<1> QED BY <1>1, <1>2, <1>3, NextSplit

LEMMA DeletedStep ==
    TypeOK /\ CreatedOnce /\ [Next]_vars => [row = "deleted" => row' = "deleted"]_row
<1> SUFFICES ASSUME TypeOK, CreatedOnce, Next, row = "deleted", row' # row PROVE FALSE
  BY DEF vars
<1>1. PICK t \in Thread : CreateInsert(t)
  BY StorageFrame
<1> QED BY <1>1 DEF CreateInsert, At, CreatedOnce

\* No request that was under way when an analysis was deleted brings it back.
THEOREM DeletionIsFinal == Spec => DeletedStaysDeleted
<1>1. Init => TypeOK /\ CreatedOnce
  BY InitType, CreatedOnceInit
<1>2. TypeOK /\ CreatedOnce /\ [Next]_vars => (TypeOK /\ CreatedOnce)'
  BY NextType, CreatedOnceNext
<1> QED BY <1>1, <1>2, DeletedStep, PTL DEF Spec, DeletedStaysDeleted

----------------------------------------------------------------------------
(* The holder of the claim is at work *)

\* Only the request that presents the row's token is working on a result.
HolderIsWorking ==
    \A t \in Thread : token = t => request[t].pc \in {"work", "commit"}

\* The inductive invariant: besides HolderIsWorking, only a row that is there
\* carries a token, so a refused commit is never the holder's.
HolderInv ==
    /\ HolderIsWorking
    /\ row # "present" => token = NoToken

LEMMA HolderInvInit == Init => HolderInv
BY LifecycleAssumption DEF Init, HolderInv, HolderIsWorking

LEMMA HolderInvHandle ==
    ASSUME TypeOK, HolderInv, NEW t \in Thread, Handle(t)
    PROVE  HolderInv'
<1> USE DEF HolderInv, HolderIsWorking, dbVars, At
<1>f. /\ \A u \in Thread \ {t} : request'[u] = request[u]
      /\ request'[t].pc = "work" => Claim(t)
  BY HandleFrame
<1>n. NoToken \notin Thread /\ LostToken \notin Thread
  BY LifecycleAssumption
\* It is enough that the row's token is kept or dropped, and that t is at work
\* if it holds it.
<1>q. ASSUME token' \in {token, NoToken, LostToken},
             token' = t => request'[t].pc \in {"work", "commit"},
             row' # "present" => token' = NoToken
      PROVE  HolderInv'
  BY <1>f, <1>n, <1>q
<1>1. CASE Arrive(t)
  <2>1. request[t].pc = "idle" \/ NotFound(t)
    BY <1>1 DEF Arrive, CreatePut, Begin, DeleteBegin
  <2>2. token' = token /\ row' = row
    BY <1>1 DEF Arrive, CreatePut, Begin, NotFound, DeleteBegin
  <2>3. token # t
    BY <2>1 DEF NotFound
  <2> QED BY <1>q, <2>2, <2>3
<1>2. CASE Claim(t)
  <2>1. token' = t /\ row' = "present"
    BY <1>2 DEF Claim, Claimable
  <2>2. request'[t].pc = "work"
    BY <1>2 DEF Claim, Goto, TypeOK, Request
  <2> QED BY <1>f, <1>n, <2>1, <2>2
<1>3. CASE Work(t)
  <2>1. \E rec, cleanup : Conclude(t, rec, cleanup)
    BY <1>3 DEF Work, RunStatic, RunError, RunComplete, PlanGenerated, PlanRejected,
                VerifyComplete, VerifyError
  <2>2. request'[t].pc = "commit" /\ token' = token /\ row' = row
    BY <2>1 DEF Conclude, TypeOK, Request
  <2> QED BY <1>q, <2>2
<1>4. CASE Commit(t)
  BY <1>4, <1>n, <1>q DEF Commit, Saved
<1>5. CASE CommitRefused(t)
  <2>1. token' = token /\ row' = row
    BY <1>5 DEF CommitRefused
  <2>2. token # t
    BY <1>5, <1>n DEF CommitRefused, Saved
  <2> QED BY <1>q, <2>1, <2>2
<1>6. CASE Expire(t) \/ Remove(t)
  BY <1>6, <1>n, <1>q DEF Expire, Remove, RemoveRow
<1>7. CASE CreateInsert(t)
  BY <1>7, <1>q DEF CreateInsert
<1>8. CASE DatabaseFails(t)
  BY <1>8, <1>n, <1>q DEF DatabaseFails, Abandon
<1>9. CASE request[t].pc \notin {"work", "commit"} /\ token' = token /\ row' = row
  BY <1>9, <1>q
<1>10. CASE StoreFails(t)
  BY <1>10, <1>9 DEF StoreFails
<1>11. CASE AdmitRun(t) \/ AdmitPlan(t) \/ AdmitVerify(t) \/ AdmitInsight(t)
  BY <1>11, <1>9 DEF AdmitRun, AdmitPlan, AdmitVerify, AdmitInsight, Loaded
<1>12. CASE Return(t) \/ FindExpired(t) \/ EnsureBundle(t) \/ FetchBundle(t)
  BY <1>12, <1>9 DEF Return, Loaded, FindExpired, EnsureBundle, FetchBundle
<1>13. CASE CreateRejected(t) \/ ClaimDenied(t) \/ Annotate(t)
  BY <1>13, <1>9 DEF CreateRejected, ClaimDenied, Annotate
<1>14. CASE Erase(t) \/ MarkDeleted(t) \/ DeleteReference(t)
  BY <1>14, <1>9 DEF Erase, MarkDeleted, DeleteReference
<1>15. CASE ReadFindings(t) \/ ReadPlans(t) \/ ReadVerifications(t)
  BY <1>15, <1>9, ReadFrame
<1> QED BY <1>1, <1>2, <1>3, <1>4, <1>5, <1>6, <1>7, <1>8, <1>10, <1>11, <1>12, <1>13,
           <1>14, <1>15 DEF Handle, Proceed

LEMMA HolderInvSystem ==
    ASSUME TypeOK, HolderInv, System
    PROVE  HolderInv'
<1> USE DEF HolderInv, HolderIsWorking, dbVars
<1>n. NoToken \notin Thread /\ LostToken \notin Thread
  BY LifecycleAssumption
<1>1. ASSUME NEW p \in Process, Crash(p)
      PROVE  HolderInv'
  <2>1. \A t \in Thread : Host[t] # p => request'[t] = request[t]
    BY <1>1 DEF Crash
  <2>2. token' = IF token \in {t \in Thread : Host[t] = p} THEN LostToken ELSE token
    BY <1>1 DEF Crash, Abandon
  <2>3. row' = row
    BY <1>1 DEF Crash
  <2> QED BY <1>n, <2>1, <2>2, <2>3
<1>2. CASE \E p \in Process : SweepRow(p)
  BY <1>2, <1>n DEF SweepRow, RemoveRow
<1>3. CASE request' = request /\ token' = token /\ row' = row
  BY <1>3
<1> QED BY <1>1, <1>2, <1>3 DEF System, Purge, SweepBegin, SweepErase, SweepDies,
           SweepRowFails, ReportExpires, ArchiveExpires, ClaimLapses

LEMMA HolderInvNext == TypeOK /\ HolderInv /\ [Next]_vars => HolderInv'
<1>1. TypeOK /\ HolderInv /\ UNCHANGED vars => HolderInv'
  BY DEF vars, HolderInv, HolderIsWorking
<1> QED BY <1>1, HolderInvHandle, HolderInvSystem, NextSplit

\* A row never names a request that has already published, been refused or
\* failed, so no result but the holder's can be saved.
THEOREM HolderAlwaysWorking == Spec => []HolderIsWorking
<1>1. Init => TypeOK /\ HolderInv
  BY InitType, HolderInvInit
<1>2. TypeOK /\ HolderInv /\ [Next]_vars => (TypeOK /\ HolderInv)'
  BY NextType, HolderInvNext
<1>3. HolderInv => HolderIsWorking
  BY DEF HolderInv
<1> QED BY <1>1, <1>2, <1>3, PTL DEF Spec

----------------------------------------------------------------------------
(* The claim columns implement the lease *)

\* A row that is not there has left nothing behind.
EmptyWhenGone == row # "present" => report = StagedReport /\ lapsed = FALSE

LEMMA EmptyWhenGoneInit == Init => EmptyWhenGone
BY DEF Init, EmptyWhenGone

LEMMA EmptyWhenGoneNext ==
    TypeOK /\ HolderInv /\ EmptyWhenGone /\ [Next]_vars => EmptyWhenGone'
<1> SUFFICES ASSUME TypeOK, HolderInv, EmptyWhenGone, [Next]_vars PROVE EmptyWhenGone'
  OBVIOUS
<1> USE DEF EmptyWhenGone, dbVars
<1>u. CASE UNCHANGED <<row, report, lapsed>>
  BY <1>u
<1>w. CASE RemoveRow
  BY <1>w DEF RemoveRow
<1>1. CASE UNCHANGED vars
  BY <1>1, <1>u DEF vars
<1>2. CASE System
  <2>1. CASE ClaimLapses
    BY <2>1 DEF ClaimLapses, HolderInv
  <2> QED BY <1>2, <1>u, <1>w, <2>1 DEF System, Purge, SweepBegin, SweepErase, SweepRow,
             SweepDies, SweepRowFails, Crash, ReportExpires, ArchiveExpires
<1>3. ASSUME NEW t \in Thread, Handle(t)
      PROVE  EmptyWhenGone'
  <2>1. CASE Arrive(t)
    BY <1>u, <2>1 DEF Arrive, CreatePut, Begin, NotFound, DeleteBegin
  <2>2. CASE Work(t)
    BY <1>u, <2>2 DEF Work, Conclude, RunStatic, RunError, RunComplete, PlanGenerated,
                      PlanRejected, VerifyComplete, VerifyError
  <2>3. CASE Claim(t) \/ Commit(t) \/ CreateInsert(t) \/ Annotate(t)
    BY <2>3 DEF Claim, Claimable, Commit, Saved, CreateInsert, Annotate
  <2>4. CASE Expire(t) \/ Remove(t)
    BY <1>w, <2>4 DEF Expire, Remove
  <2>5. CASE UNCHANGED <<row, report, lapsed>>
    BY <1>u, <2>5
  <2>6. CASE ReadFindings(t) \/ ReadPlans(t) \/ ReadVerifications(t)
    BY <1>u, <2>6, ReadFrame
  <2> QED BY <1>3, <2>1, <2>2, <2>3, <2>4, <2>5, <2>6 DEF Handle, Proceed, CreateRejected,
             AdmitRun, AdmitPlan, AdmitVerify, AdmitInsight, Return, FindExpired,
             EnsureBundle, FetchBundle, ClaimDenied, CommitRefused, Erase, MarkDeleted,
             DeleteReference, DatabaseFails, StoreFails
<1> QED BY <1>1, <1>2, <1>3, NextSplit

\* The clients of the lease that are at work, as the refinement maps them.
Working == {t \in Thread : request[t].pc \in {"work", "commit"}}

\* A step that moves no request into or out of its work.
LEMMA WorkingSame ==
    ASSUME NEW t \in Thread,
           \A u \in Thread \ {t} : request'[u] = request[u],
           request[t].pc \in {"work", "commit"} <=> request'[t].pc \in {"work", "commit"}
    PROVE  Working' = Working
BY DEF Working

LEMMA LeaseHandle ==
    ASSUME TypeOK, HolderInv, CreatedOnce, EmptyWhenGone, NEW t \in Thread, Handle(t)
    PROVE  [Lease!LeaseNext]_(Lease!leaseVars)
<1> USE DEF dbVars, Working
<1>f. /\ \A u \in Thread \ {t} : request'[u] = request[u]
      /\ request'[t].pc = "work" => Claim(t)
      /\ request'[t].pc = "commit" => Work(t)
  BY HandleFrame
<1>n. NoToken \notin Thread /\ LostToken \notin Thread
  BY LifecycleAssumption
<1>t. /\ request[t] \in Request /\ request[t].rec \in Report
      /\ request \in [Thread -> Request]
  BY DEF TypeOK, Request
\* A step that leaves the row's claim and report alone and begins or ends no work.
<1>s. ASSUME UNCHANGED <<row, report, token, lapsed>>, Working' = Working
      PROVE  [Lease!LeaseNext]_(Lease!leaseVars)
  BY <1>s DEF Lease!leaseVars
\* A step that removes the row.
<1>r. ASSUME RemoveRow, Working' = Working
      PROVE  [Lease!LeaseNext]_(Lease!leaseVars)
  <2>1. CASE row = "present"
    <3>1. Lease!Close
      BY <1>r, <2>1 DEF Lease!Close, RemoveRow
    <3> QED BY <3>1 DEF Lease!LeaseNext
  <2>2. CASE row # "present"
    <3>1. UNCHANGED <<row, report, token, lapsed>>
      BY <1>r, <2>2 DEF RemoveRow, EmptyWhenGone, HolderInv
    <3> QED BY <1>r, <1>s, <3>1
  <2> QED BY <2>1, <2>2
\* A request that leaves its work without publishing.
<1>l. ASSUME request[t].pc \in {"work", "commit"}, request' = [request EXCEPT ![t] = Idle],
             Abandon({t}), UNCHANGED <<row, report, lapsed>>
      PROVE  [Lease!LeaseNext]_(Lease!leaseVars)
  <2>1. {t} \subseteq Working /\ Working' = Working \ {t}
    BY <1>l, <1>t DEF Idle
  <2>2. Lease!Leave({t})
    BY <1>l, <2>1 DEF Lease!Leave, Abandon
  <2> QED BY <2>2 DEF Lease!LeaseNext
<1>1. CASE Arrive(t)
  <2>1. UNCHANGED <<row, report, token, lapsed>>
    BY <1>1 DEF Arrive, CreatePut, Begin, NotFound, DeleteBegin
  <2>2. request[t].pc = "idle" \/ request' = request
    BY <1>1 DEF Arrive, CreatePut, Begin, NotFound, DeleteBegin
  <2>3. request[t].pc = "idle" => request'[t].pc \notin {"work", "commit"}
    <3>1. (~Claim(t) /\ ~Work(t)) \/ request[t].pc # "idle"
      BY DEF Claim, Work, At, RunStatic, RunError, RunComplete, PlanGenerated,
             PlanRejected, VerifyComplete, VerifyError
    <3> QED BY <1>f, <3>1
  <2>4. Working' = Working
    BY <1>f, <2>2, <2>3
  <2> QED BY <1>s, <2>1, <2>4
<1>2. CASE CreateInsert(t)
  <2>1. row = "absent" /\ report = StagedReport
    BY <1>2 DEF CreateInsert, At, CreatedOnce, EmptyWhenGone
  <2>2. Working' = Working
    BY <1>2, <1>t DEF CreateInsert, At, Finish, Idle
  <2>3. Lease!Open
    BY <1>2, <2>1, <2>2 DEF Lease!Open, CreateInsert
  <2> QED BY <2>3 DEF Lease!LeaseNext
<1>3. CASE Claim(t)
  <2>1. t \notin Working /\ Working' = Working \union {t}
    BY <1>3, <1>t DEF Claim, Goto, Request
  <2>2. Lease!Acquire(t)
    BY <1>3, <2>1 DEF Lease!Acquire, Claim, Claimable
  <2> QED BY <2>2 DEF Lease!LeaseNext
<1>4. CASE Work(t)
  <2>1. \E rec, cleanup : Conclude(t, rec, cleanup)
    BY <1>4 DEF Work, RunStatic, RunError, RunComplete, PlanGenerated, PlanRejected,
                VerifyComplete, VerifyError
  <2>2. request[t].pc = "work"
    BY <1>4 DEF At, Work, RunStatic, RunError, RunComplete, PlanGenerated, PlanRejected,
                VerifyComplete, VerifyError
  <2>3. request'[t].pc = "commit" /\ UNCHANGED <<row, report, token, lapsed>>
    BY <1>t, <2>1 DEF Conclude, Request
  <2>4. Working' = Working
    BY <1>f, <2>2, <2>3
  <2> QED BY <1>s, <2>3, <2>4
<1>5. CASE Commit(t)
  <2>1. t \in Working /\ Working' = Working \ {t}
    BY <1>5, <1>t DEF Commit, Idle
  <2>2. Lease!Publish(t)
    BY <1>5, <1>t, <2>1 DEF Lease!Publish, Commit, Saved
  <2> QED BY <2>2 DEF Lease!LeaseNext
<1>6. CASE CommitRefused(t)
  <2>1. token # t
    BY <1>6, <1>n DEF CommitRefused, Saved, HolderInv
  <2>2. Abandon({t})
    BY <1>6, <2>1 DEF CommitRefused, Abandon
  <2> QED BY <1>6, <1>l, <2>2 DEF CommitRefused, Finish
<1>7. CASE Annotate(t)
  <2>1. Working' = Working
    BY <1>7, <1>t DEF Annotate, Finish, Idle
  <2>2. CASE row = "present"
    <3>1. Lease!Note
      BY <1>7, <1>t, <2>1, <2>2 DEF Lease!Note, Annotate
    <3> QED BY <3>1 DEF Lease!LeaseNext
  <2>3. CASE row # "present"
    BY <1>7, <1>s, <2>1, <2>3 DEF Annotate
  <2> QED BY <2>2, <2>3
<1>8. CASE Expire(t) \/ Remove(t)
  <2>1. Working' = Working
    BY <1>8, <1>t DEF Expire, Remove, Finish, Goto, Idle, Request
  <2> QED BY <1>8, <1>r, <2>1 DEF Expire, Remove
<1>9. CASE DatabaseFails(t)
  <2>1. CASE request[t].pc \in {"work", "commit"}
    BY <1>9, <1>l, <2>1 DEF DatabaseFails, Finish
  <2>2. CASE request[t].pc \notin {"work", "commit"}
    <3>1. UNCHANGED <<row, report, token, lapsed>>
      BY <1>9, <2>2 DEF DatabaseFails, Abandon, HolderInv, HolderIsWorking
    <3>2. Working' = Working
      BY <1>9, <1>t, <2>2 DEF DatabaseFails, Finish, Idle
    <3> QED BY <1>s, <3>1, <3>2
  <2> QED BY <2>1, <2>2
<1>10. ASSUME request[t].pc \notin {"work", "commit"}, ~Claim(t),
              UNCHANGED <<row, report, token, lapsed>>
       PROVE  [Lease!LeaseNext]_(Lease!leaseVars)
  <2>1. ~Work(t)
    BY <1>10 DEF At, Work, RunStatic, RunError, RunComplete, PlanGenerated, PlanRejected,
                 VerifyComplete, VerifyError
  <2>2. Working' = Working
    BY <1>f, <1>10, <2>1
  <2> QED BY <1>s, <1>10, <2>2
<1>11. CASE AdmitRun(t) \/ AdmitPlan(t) \/ AdmitVerify(t) \/ AdmitInsight(t)
  BY <1>11, <1>10 DEF AdmitRun, AdmitPlan, AdmitVerify, AdmitInsight, Loaded, Claim
<1>12. CASE Return(t) \/ FindExpired(t) \/ EnsureBundle(t) \/ FetchBundle(t)
  BY <1>12, <1>10 DEF Return, Loaded, FindExpired, EnsureBundle, FetchBundle, Claim
<1>13. CASE ClaimDenied(t)
  BY <1>13, <1>10 DEF ClaimDenied, Claim
<1>14. CASE CreateRejected(t) \/ Erase(t) \/ DeleteReference(t) \/ StoreFails(t)
  BY <1>14, <1>10 DEF CreateRejected, At, Erase, DeleteReference, StoreFails, Claim
<1>15. CASE MarkDeleted(t)
  BY <1>15, <1>10 DEF MarkDeleted, Claim
<1>16. CASE ReadFindings(t) \/ ReadPlans(t) \/ ReadVerifications(t)
  <2>1. UNCHANGED <<row, report, token, lapsed>>
    BY <1>16, ReadFrame
  <2>2. request[t].pc \notin {"work", "commit"}
    BY <1>16, ReadFrame
  <2>3. ~Claim(t)
    BY <1>16, ReadFrame DEF Claim
  <2> QED BY <1>10, <2>1, <2>2, <2>3
<1> QED BY <1>1, <1>2, <1>3, <1>4, <1>5, <1>6, <1>7, <1>8, <1>9, <1>11, <1>12, <1>13,
           <1>14, <1>15, <1>16 DEF Handle, Proceed

LEMMA LeaseSystem ==
    ASSUME TypeOK, HolderInv, EmptyWhenGone, System
    PROVE  [Lease!LeaseNext]_(Lease!leaseVars)
<1> USE DEF dbVars, Working
<1>n. NoToken \notin Thread /\ LostToken \notin Thread
  BY LifecycleAssumption
<1>s. ASSUME UNCHANGED <<row, report, token, lapsed>>, Working' = Working
      PROVE  [Lease!LeaseNext]_(Lease!leaseVars)
  BY <1>s DEF Lease!leaseVars
<1>1. ASSUME NEW p \in Process, Crash(p)
      PROVE  [Lease!LeaseNext]_(Lease!leaseVars)
  <2> DEFINE left == {t \in Working : Host[t] = p}
  <2>1. left \subseteq Working /\ Working' = Working \ left
    BY <1>1 DEF Crash, Idle, TypeOK
  <2>2. token \in {t \in Thread : Host[t] = p} <=> token \in left
    BY DEF HolderInv, HolderIsWorking
  <2>3. token' = IF token \in left THEN LostToken ELSE token
    BY <1>1, <2>2 DEF Crash, Abandon
  <2>4. UNCHANGED <<row, report, lapsed>>
    BY <1>1 DEF Crash
  <2>5. CASE left # {}
    <3>1. PICK clients \in SUBSET Thread : clients = left
      OBVIOUS
    <3>2. Lease!Leave(clients)
      BY <2>1, <2>3, <2>4, <2>5, <3>1 DEF Lease!Leave
    <3> QED BY <3>2 DEF Lease!LeaseNext
  <2>6. CASE left = {}
    BY <1>s, <2>1, <2>3, <2>4, <2>6
  <2> QED BY <2>5, <2>6
<1>2. CASE ClaimLapses
  <2>1. Lease!Stale
    BY <1>2 DEF Lease!Stale, ClaimLapses
  <2> QED BY <2>1 DEF Lease!LeaseNext
<1>3. CASE \E p \in Process : SweepRow(p)
  <2>1. RemoveRow /\ request' = request
    BY <1>3 DEF SweepRow
  <2>2. CASE row = "present"
    <3>1. Lease!Close
      BY <2>1, <2>2 DEF Lease!Close, RemoveRow
    <3> QED BY <3>1 DEF Lease!LeaseNext
  <2>3. CASE row # "present"
    BY <1>s, <2>1, <2>3 DEF RemoveRow, EmptyWhenGone, HolderInv
  <2> QED BY <2>2, <2>3
<1>4. CASE UNCHANGED <<row, report, token, lapsed, request>>
  BY <1>4, <1>s
<1> QED BY <1>1, <1>2, <1>3, <1>4 DEF System, Purge, SweepBegin, SweepErase, SweepDies,
           SweepRowFails, ReportExpires, ArchiveExpires

LEMMA LeaseInit == Init => Lease!LeaseInit
BY DEF Init, Idle, Lease!LeaseInit

LEMMA LeaseStep ==
    TypeOK /\ HolderInv /\ CreatedOnce /\ EmptyWhenGone /\ [Next]_vars
        => [Lease!LeaseNext]_(Lease!leaseVars)
<1>1. UNCHANGED vars => UNCHANGED Lease!leaseVars
  BY DEF vars, Lease!leaseVars
<1> QED BY <1>1, LeaseHandle, LeaseSystem, NextSplit

\* Every behaviour of the requests, sweeps and faults is one the lease allows:
\* a result is saved only by the latest request to have claimed the analysis,
\* and only while that request is at work.
THEOREM LifecycleKeepsLease == Spec => LeaseKept
<1>1. Init => TypeOK /\ HolderInv /\ CreatedOnce /\ EmptyWhenGone
  BY InitType, HolderInvInit, CreatedOnceInit, EmptyWhenGoneInit
<1>2. TypeOK /\ HolderInv /\ CreatedOnce /\ EmptyWhenGone /\ [Next]_vars
         => (TypeOK /\ HolderInv /\ CreatedOnce /\ EmptyWhenGone)'
  BY NextType, HolderInvNext, CreatedOnceNext, EmptyWhenGoneNext
<1> QED BY <1>1, <1>2, LeaseInit, LeaseStep, PTL DEF Spec, LeaseKept, Lease!LeaseSpec

----------------------------------------------------------------------------
(* The stored report is coherent and within the plan limit *)

\* What holds of every record, torn or not.
Sound(rec) == Plausible(rec) /\ Len(rec.plans) <= MaxPlans

\* What holds of the row's report; m: whether a torn record has been saved.
SoundReport(rec, m) ==
    /\ Sound(rec)
    /\ rec.status = "STAGED" /\ ~rec.findings => rec = StagedReport
    /\ ~m => Coherent(rec)

\* The inductive invariant: every private record is as sound as the row, since any of
\* them may become the row, and until a torn one is saved every other is coherent; no
\* record is saved that claims not to have been run; and what a request checked on its
\* record still holds there when it does its work.
SoundRequest(r, m) ==
    /\ Sound(r.rec)
    /\ ~r.torn /\ ~m => Coherent(r.rec)
    /\ r.pc \in {"commit", "annotate"} /\ r.rec.status = "STAGED" => r.rec.findings
    /\ r.op = "verify" /\ r.pc \in {"ensure", "fetch", "claim", "work"} =>
         r.plan \in DOMAIN r.rec.plans
    /\ r.op = "plan" /\ r.pc \in {"ensure", "fetch", "claim", "work"} => PlanAllowed(r.rec)

SoundInv ==
    /\ SoundReport(report, mixed)
    /\ \A t \in Thread : SoundRequest(request[t], mixed)

LEMMA SoundStaged ==
    ASSUME NEW m
    PROVE  SoundReport(StagedReport, m) /\ Sound(StagedReport) /\ Coherent(StagedReport)
<1>1. Len(StagedReport.plans) = 0 /\ DOMAIN StagedReport.plans = {}
  BY DEF StagedReport
<1>2. Coherent(StagedReport) /\ Plausible(StagedReport)
  BY <1>1 DEF Coherent, Plausible, StagedReport
<1>3. Sound(StagedReport)
  BY <1>1, <1>2, LifecycleAssumption DEF Sound
<1> QED BY <1>2, <1>3 DEF SoundReport

LEMMA SoundIdle ==
    ASSUME NEW m
    PROVE  SoundRequest(Idle, m)
BY SoundStaged DEF SoundRequest, Idle

\* Saving a torn record only takes obligations away.
LEMMA SoundMixed ==
    ASSUME NEW r, NEW m \in BOOLEAN, NEW n \in BOOLEAN, m => n, SoundRequest(r, m)
    PROVE  SoundRequest(r, n)
BY DEF SoundRequest

LEMMA MixedFrame ==
    ASSUME TypeOK, [Next]_vars
    PROVE  mixed \in BOOLEAN /\ mixed' \in BOOLEAN /\ (mixed => mixed')
<1> USE DEF dbVars, RemoveRow
<1>0. mixed \in BOOLEAN
  BY DEF TypeOK
<1>1. ASSUME NEW t \in Thread, Arrive(t)
      PROVE  mixed' = mixed
  BY <1>1 DEF Arrive, CreatePut, Begin, NotFound, DeleteBegin
<1>2. ASSUME NEW t \in Thread, Work(t)
      PROVE  mixed' = mixed
  BY <1>2 DEF Work, Conclude, RunStatic, RunError, RunComplete, PlanGenerated,
              PlanRejected, VerifyComplete, VerifyError
<1>3. ASSUME NEW t \in Thread, Proceed(t)
      PROVE  mixed' \in {mixed, mixed \/ request[t].torn}
  BY <1>2, <1>3 DEF Proceed, CreateInsert, CreateRejected, ReadFindings, ReadPlans,
     ReadVerifications, Read, AdmitRun, AdmitPlan,
     AdmitVerify, AdmitInsight, Return, FindExpired, Expire, EnsureBundle, FetchBundle,
     Claim, ClaimDenied, Commit, CommitRefused, Annotate, Erase, MarkDeleted,
     DeleteReference, Remove
<1>4. ASSUME NEW t \in Thread, DatabaseFails(t) \/ StoreFails(t)
      PROVE  mixed' = mixed
  BY <1>4 DEF DatabaseFails, StoreFails
<1>5. System => mixed' = mixed
  BY DEF System, Purge, SweepBegin, SweepErase, SweepRow, SweepDies, SweepRowFails, Crash,
         ReportExpires, ArchiveExpires, ClaimLapses
<1>6. \A t \in Thread : request[t].torn \in BOOLEAN
  BY DEF TypeOK, Request
<1> QED BY <1>0, <1>1, <1>3, <1>4, <1>5, <1>6, NextSplit DEF Handle, vars

\* No work leaves the record as it was uploaded.
LEMMA WorkNotStaged ==
    ASSUME TypeOK, NEW t \in Thread, Work(t)
    PROVE  request'[t].rec.status # "STAGED"
<1>r. request[t] \in Request /\ request[t].rec \in Report
  BY DEF TypeOK, Request
<1>c. ASSUME NEW rec, NEW cleanup, Conclude(t, rec, cleanup)
      PROVE  request'[t].rec = rec
  BY <1>c, <1>r DEF Conclude, TypeOK, Request
<1>j. \A v \in Verdict : StatusForVerdict(v) # "STAGED"
  BY StatusForVerdictType
<1>1. CASE RunStatic(t) \/ RunError(t)
  BY <1>1, <1>c, <1>r DEF RunStatic, RunError, RunResult, Report
<1>2. CASE RunComplete(t)
  <2>1. PICK v \in CandidateVerdict :
           Conclude(t, RunResult(t, StatusForVerdict(v), v), ~input.risky)
    BY <1>2 DEF RunComplete
  <2>2. v \in Verdict
    BY LifecycleAssumption
  <2>3. RunResult(t, StatusForVerdict(v), v).status = StatusForVerdict(v)
    BY <1>r DEF RunResult, Report
  <2> QED BY <1>c, <1>j, <2>1, <2>2, <2>3
<1>3. CASE PlanGenerated(t) \/ PlanRejected(t)
  BY <1>3, <1>c, <1>r DEF PlanGenerated, PlanRejected, Report
<1>4. CASE VerifyComplete(t)
  <2>1. PICK passed \in BOOLEAN :
           Conclude(t, [request[t].rec EXCEPT
                !.status = IF passed THEN "VERIFIED_PLAN" ELSE "PLAN_REJECTED",
                !.plans[request[t].plan] =
                    IF passed
                    THEN [state |-> "VERIFIED_FOR_REVIEW", verification |-> "PASS"]
                    ELSE [state |-> "REJECTED", verification |-> "FAIL"]], TRUE)
    BY <1>4 DEF VerifyComplete
  <2>2. request'[t].rec.status = IF passed THEN "VERIFIED_PLAN" ELSE "PLAN_REJECTED"
    BY <1>c, <1>r, <2>1 DEF Report
  <2> QED BY <2>2
<1>5. CASE VerifyError(t)
  <2>1. request'[t].rec.status = StatusForVerdict(request[t].rec.verdict)
    BY <1>5, <1>c, <1>r DEF VerifyError, Report
  <2> QED BY <1>j, <1>r, <2>1 DEF Report
<1> QED BY <1>1, <1>2, <1>3, <1>4, <1>5 DEF Work

LEMMA SoundInput ==
    ASSUME [Next]_vars
    PROVE  input' = input
<1>1. ASSUME NEW t \in Thread, Arrive(t)
      PROVE  input' = input
  BY <1>1 DEF Arrive, CreatePut, Begin, NotFound, DeleteBegin
<1>2. ASSUME NEW t \in Thread, Work(t)
      PROVE  input' = input
  BY <1>2 DEF Work, Conclude, RunStatic, RunError, RunComplete, PlanGenerated,
              PlanRejected, VerifyComplete, VerifyError
<1>3. ASSUME NEW t \in Thread, Proceed(t)
      PROVE  input' = input
  BY <1>2, <1>3 DEF Proceed, CreateInsert, CreateRejected, ReadFindings, ReadPlans,
     ReadVerifications, Read, AdmitRun, AdmitPlan,
     AdmitVerify, AdmitInsight, Return, FindExpired, Expire, EnsureBundle, FetchBundle,
     Claim, ClaimDenied, Commit, CommitRefused, Annotate, Erase, MarkDeleted,
     DeleteReference, Remove
<1>4. ASSUME NEW t \in Thread, DatabaseFails(t) \/ StoreFails(t)
      PROVE  input' = input
  BY <1>4 DEF DatabaseFails, StoreFails
<1>5. System => input' = input
  BY DEF System, Purge, SweepBegin, SweepErase, SweepRow, SweepDies, SweepRowFails, Crash,
         ReportExpires, ArchiveExpires, ClaimLapses
<1> QED BY <1>1, <1>3, <1>4, <1>5, NextSplit DEF Handle, vars

\* A record that work or a read has made of rec.
KeepsSound(rec, new) == Sound(new) /\ (Coherent(rec) => Coherent(new))

\* A run replaces the status, the verdict and the findings together.
LEMMA SoundRun ==
    ASSUME TypeOK, NEW t \in Thread, Sound(request[t].rec), NEW v \in Verdict,
           NEW s \in {"STATIC_ONLY", StatusForVerdict(v)},
           s = "STATIC_ONLY" => ~input.ready
    PROVE  KeepsSound(request[t].rec, RunResult(t, s, v))
<1> DEFINE rec == request[t].rec
<1>1. rec \in Report /\ input.risky \in BOOLEAN
  BY DEF TypeOK, Request, Input
<1>2. /\ RunResult(t, s, v).plans = rec.plans
      /\ RunResult(t, s, v).findings = input.risky
      /\ RunResult(t, s, v).status = s
      /\ RunResult(t, s, v).verdict = v
  BY <1>1 DEF RunResult, Report
<1>3. s \in {"STATIC_ONLY", "UNSAFE", "CONDITIONAL", "VERIFIED", "ERROR"}
  BY StatusForVerdictType
<1>4. s # "STATIC_ONLY" => s = StatusForVerdict(v)
  OBVIOUS
<1> HIDE DEF rec
<1>5. Plausible(rec) /\ Len(rec.plans) <= MaxPlans
  BY DEF Sound, rec
<1>6. Plausible(RunResult(t, s, v))
  BY <1>2, <1>3, <1>4, <1>5 DEF Plausible
<1>7. Coherent(rec) => Coherent(RunResult(t, s, v))
  BY <1>2, <1>3, <1>5, <1>6 DEF Coherent, Plausible
<1> QED BY <1>2, <1>5, <1>6, <1>7 DEF Sound, KeepsSound, rec

LEMMA SoundWork ==
    ASSUME TypeOK, NEW t \in Thread, SoundRequest(request[t], mixed), Work(t)
    PROVE  KeepsSound(request[t].rec, request'[t].rec)
<1> DEFINE rec == request[t].rec
<1>r. request[t] \in Request /\ rec \in Report
  BY DEF TypeOK, Request
<1>p. /\ rec.plans \in Seq(Plan) /\ Len(rec.plans) \in Nat
      /\ DOMAIN rec.plans = 1..Len(rec.plans)
      /\ \A i \in DOMAIN rec.plans : rec.plans[i] \in Plan
  BY <1>r, LenProperties, ElementOfSeq DEF Report
<1>s. Sound(rec) /\ Plausible(rec) /\ Len(rec.plans) <= MaxPlans
  BY DEF SoundRequest, Sound
<1>c. ASSUME NEW new, NEW cleanup, Conclude(t, new, cleanup)
      PROVE  request'[t].rec = new
  BY <1>c, <1>r DEF Conclude, TypeOK, Request
<1>m. MaxPlans \in Nat
  BY LifecycleAssumption
<1>1. CASE RunStatic(t)
  <2>1. Conclude(t, RunResult(t, "STATIC_ONLY", "INSUFFICIENT_EVIDENCE"), TRUE)
    BY <1>1 DEF RunStatic
  <2>2. KeepsSound(rec, RunResult(t, "STATIC_ONLY", "INSUFFICIENT_EVIDENCE"))
    BY <1>1, <1>s, SoundRun DEF RunStatic, Verdict
  <2> QED BY <1>c, <2>1, <2>2
<1>2. CASE RunError(t)
  <2>1. PICK v \in {"INSUFFICIENT_EVIDENCE", "ERROR"} :
           Conclude(t, RunResult(t, "ERROR", v), FALSE)
    BY <1>2 DEF RunError
  <2>2. v \in Verdict /\ StatusForVerdict(v) = "ERROR"
    BY DEF Verdict, StatusForVerdict
  <2>3. KeepsSound(rec, RunResult(t, "ERROR", v))
    BY <1>s, <2>2, SoundRun
  <2> QED BY <1>c, <2>1, <2>3
<1>3. CASE RunComplete(t)
  <2>1. PICK v \in CandidateVerdict :
           Conclude(t, RunResult(t, StatusForVerdict(v), v), ~input.risky)
    BY <1>3 DEF RunComplete
  <2>2. v \in Verdict /\ StatusForVerdict(v) # "STATIC_ONLY"
    BY LifecycleAssumption, StatusForVerdictType
  <2>3. KeepsSound(rec, RunResult(t, StatusForVerdict(v), v))
    BY <1>s, <2>2, SoundRun
  <2> QED BY <1>c, <2>1, <2>3
<1>4. CASE PlanGenerated(t)
  <2> DEFINE plans == Append(rec.plans, NewPlan)
  <2> DEFINE new == [rec EXCEPT !.status = "PLANNING", !.plans = plans]
  <2>1. request'[t].rec = new
    BY <1>4, <1>c DEF PlanGenerated
  <2>2. PlanAllowed(rec)
    BY <1>4 DEF PlanGenerated, At, SoundRequest
  <2>3. /\ DOMAIN plans = 1..(Len(rec.plans) + 1) /\ Len(plans) = Len(rec.plans) + 1
        /\ plans # <<>>
        /\ \A i \in 1..Len(rec.plans) : plans[i] = rec.plans[i]
        /\ plans[Len(rec.plans) + 1] = NewPlan
    <3>1. NewPlan \in Plan
      BY DEF NewPlan, Plan
    <3>2. plans \in Seq(Plan) /\ Len(plans) = Len(rec.plans) + 1 /\ plans # <<>>
      BY <1>p, <3>1, AppendProperties
    <3>3. /\ \A i \in 1..Len(rec.plans) : plans[i] = rec.plans[i]
          /\ plans[Len(rec.plans) + 1] = NewPlan
      BY <1>p, <3>1, AppendProperties
    <3>4. DOMAIN plans = 1..Len(plans)
      BY <3>2, LenProperties
    <3> QED BY <3>2, <3>3, <3>4
  <2>4. /\ new.status = "PLANNING" /\ new.plans = plans /\ new.findings = rec.findings
    BY <1>r DEF Report
  <2>5. Coherent(rec) => \A i \in DOMAIN plans :
           /\ plans[i].state = "VERIFIED_FOR_REVIEW" => plans[i].verification = "PASS"
           /\ plans[i].state = "REJECTED" => plans[i].verification = "FAIL"
    <3> SUFFICES ASSUME Coherent(rec), NEW i \in DOMAIN plans
                 PROVE  /\ plans[i].state = "VERIFIED_FOR_REVIEW" =>
                             plans[i].verification = "PASS"
                        /\ plans[i].state = "REJECTED" => plans[i].verification = "FAIL"
      OBVIOUS
    <3>1. CASE i \in 1..Len(rec.plans)
      BY <1>p, <2>3, <3>1 DEF Coherent
    <3>2. CASE i = Len(rec.plans) + 1
      BY <2>3, <3>2 DEF NewPlan
    <3> QED BY <1>p, <2>3, <3>1, <3>2
  <2>6. rec.findings /\ Len(plans) <= MaxPlans /\ (rec.findings => input.risky)
    BY <1>m, <1>p, <1>s, <2>2, <2>3 DEF PlanAllowed, Plausible
  <2> HIDE DEF new, plans, rec
  <2>7. Plausible(new)
    BY <2>4, <2>6 DEF Plausible
  <2>8. Coherent(rec) => Coherent(new)
    BY <2>3, <2>4, <2>5, <2>6, <2>7 DEF Coherent
  <2> QED BY <2>1, <2>4, <2>6, <2>7, <2>8 DEF Sound, KeepsSound, rec
<1>5. CASE PlanRejected(t)
  <2> DEFINE new == [rec EXCEPT !.status = "PLAN_REJECTED"]
  <2>1. request'[t].rec = new
    BY <1>5, <1>c DEF PlanRejected
  <2>2. new.status = "PLAN_REJECTED" /\ new.plans = rec.plans /\ new.findings = rec.findings
    BY <1>r DEF Report
  <2> HIDE DEF new, rec
  <2>3. Plausible(new)
    BY <1>s, <2>2 DEF Plausible
  <2>4. Coherent(rec) => Coherent(new)
    BY <2>2, <2>3 DEF Coherent
  <2> QED BY <1>s, <2>1, <2>2, <2>3, <2>4 DEF Sound, KeepsSound, rec
<1>6. CASE VerifyComplete(t)
  <2> DEFINE k == request[t].plan
  <2> DEFINE judged(passed) ==
         IF passed THEN [state |-> "VERIFIED_FOR_REVIEW", verification |-> "PASS"]
                   ELSE [state |-> "REJECTED", verification |-> "FAIL"]
  <2> DEFINE plans(passed) == [rec.plans EXCEPT ![k] = judged(passed)]
  <2> DEFINE new(passed) ==
         [rec EXCEPT !.status = IF passed THEN "VERIFIED_PLAN" ELSE "PLAN_REJECTED",
                     !.plans[k] = judged(passed)]
  <2>1. PICK passed \in BOOLEAN : Conclude(t, new(passed), TRUE)
    BY <1>6 DEF VerifyComplete
  <2>2. request'[t].rec = new(passed)
    BY <1>c, <2>1
  <2>3. k \in DOMAIN rec.plans
    BY <1>6 DEF VerifyComplete, At, SoundRequest
  <2>4. /\ new(passed).status = IF passed THEN "VERIFIED_PLAN" ELSE "PLAN_REJECTED"
        /\ new(passed).plans = plans(passed)
        /\ new(passed).findings = rec.findings
    BY <1>r DEF Report
  <2>5. judged(passed) \in Plan
    BY DEF Plan
  <2>6. /\ Len(plans(passed)) = Len(rec.plans) /\ DOMAIN plans(passed) = DOMAIN rec.plans
        /\ \A i \in DOMAIN rec.plans :
              plans(passed)[i] = IF i = k THEN judged(passed) ELSE rec.plans[i]
    BY <1>p, <2>3, <2>5, ExceptSeq
  <2>7. /\ judged(passed).state = "VERIFIED_FOR_REVIEW" =>
             judged(passed).verification = "PASS"
        /\ judged(passed).state = "REJECTED" => judged(passed).verification = "FAIL"
        /\ passed => judged(passed).verification = "PASS"
    OBVIOUS
  <2>8. rec.plans # <<>>
    BY <1>p, <2>3
  <2> HIDE DEF new, plans, judged, k, rec
  <2>9. Plausible(new(passed))
    BY <1>s, <2>4, <2>8 DEF Plausible
  <2>10. Coherent(rec) => Coherent(new(passed))
    BY <2>3, <2>4, <2>6, <2>7, <2>8, <2>9 DEF Coherent
  <2> QED BY <1>s, <2>2, <2>4, <2>6, <2>9, <2>10 DEF Sound, KeepsSound, rec
<1>7. CASE VerifyError(t)
  <2> DEFINE k == request[t].plan
  <2> DEFINE reset == [rec.plans[k] EXCEPT !.state = "UNVERIFIED_CANDIDATE"]
  <2> DEFINE plans == [rec.plans EXCEPT ![k] = reset]
  <2> DEFINE new == [rec EXCEPT !.status = StatusForVerdict(rec.verdict),
                                !.plans[k].state = "UNVERIFIED_CANDIDATE"]
  <2>1. request'[t].rec = new
    BY <1>7, <1>c DEF VerifyError
  <2>2. k \in DOMAIN rec.plans
    BY <1>7 DEF VerifyError, At, SoundRequest
  <2>3. /\ new.status = StatusForVerdict(rec.verdict)
        /\ new.verdict = rec.verdict
        /\ new.plans = plans
        /\ new.findings = rec.findings
    BY <1>r, <1>p, <2>2 DEF Report
  <2>4. reset \in Plan /\ reset.state = "UNVERIFIED_CANDIDATE"
    BY <1>p, <2>2 DEF Plan
  <2>5. /\ Len(plans) = Len(rec.plans) /\ DOMAIN plans = DOMAIN rec.plans
        /\ \A i \in DOMAIN rec.plans : plans[i] = IF i = k THEN reset ELSE rec.plans[i]
    BY <1>p, <2>2, <2>4, ExceptSeq
  <2>6. new.status \in {"UNSAFE", "CONDITIONAL", "VERIFIED", "ERROR"}
    BY <1>r, <2>3, StatusForVerdictType DEF Report
  <2>7. rec.plans # <<>>
    BY <1>p, <2>2
  <2> HIDE DEF new, plans, reset, k, rec
  <2>8. Plausible(new)
    BY <1>s, <2>3, <2>6, <2>7 DEF Plausible
  <2>9. Coherent(rec) => Coherent(new)
    BY <2>2, <2>3, <2>4, <2>5, <2>6, <2>7, <2>8 DEF Coherent
  <2> QED BY <1>s, <2>1, <2>3, <2>5, <2>8, <2>9 DEF Sound, KeepsSound, rec
<1> QED BY <1>1, <1>2, <1>3, <1>4, <1>5, <1>6, <1>7 DEF Work

\* Before the claim, a request's record changes only in its insights.
LEMMA SoundAdmit ==
    ASSUME TypeOK, NEW t \in Thread, SoundRequest(request[t], mixed),
           AdmitRun(t) \/ AdmitPlan(t) \/ AdmitVerify(t) \/ AdmitInsight(t)
    PROVE  SoundRequest(request'[t], mixed)
<1>r. request[t] \in Request /\ request[t].rec \in Report
  BY DEF TypeOK, Request
<1>n. ASSUME NEW op \in {"run", "verify"}, NEW i, NeedBundle(t, op, i)
      PROVE  /\ request'[t].op = op
             /\ request'[t].plan = i
             /\ request'[t].rec = request[t].rec
             /\ request'[t].torn = request[t].torn
             /\ request'[t].pc \in {"ensure", "claim"}
  BY <1>n, <1>r DEF NeedBundle, TypeOK, Request
<1>s. Sound(request[t].rec) /\ (~request[t].torn /\ ~mixed => Coherent(request[t].rec))
  BY DEF SoundRequest
<1>1. CASE AdmitRun(t)
  BY <1>1, <1>n, <1>s DEF AdmitRun, SoundRequest
<1>2. CASE AdmitVerify(t)
  <2>1. PICK i \in DOMAIN request[t].rec.plans : NeedBundle(t, "verify", i)
    BY <1>2 DEF AdmitVerify
  <2> QED BY <1>n, <1>s, <2>1 DEF SoundRequest
<1>3. CASE AdmitPlan(t)
  <2>1. /\ request'[t].op = "plan" /\ request'[t].rec = request[t].rec
        /\ request'[t].torn = request[t].torn /\ request'[t].pc = "claim"
    BY <1>3, <1>r DEF AdmitPlan, TypeOK, Request
  <2> QED BY <1>3, <1>s, <2>1 DEF AdmitPlan, SoundRequest
<1>4. CASE AdmitInsight(t)
  <2> DEFINE rec == request[t].rec
  <2>1. PICK kind \in InsightKind :
           /\ InsightAllowed(rec, kind)
           /\ request' = [request EXCEPT ![t].pc = "annotate", ![t].archive = "none",
                                         ![t].rec.insights = @ \union {kind}]
    BY <1>4 DEF AdmitInsight
  <2> DEFINE new == [rec EXCEPT !.insights = @ \union {kind}]
  <2>2. /\ request'[t].rec = new /\ request'[t].pc = "annotate"
        /\ request'[t].torn = request[t].torn
    BY <1>r, <2>1 DEF TypeOK, Request
  <2>3. /\ new.status = rec.status /\ new.verdict = rec.verdict
        /\ new.plans = rec.plans /\ new.findings = rec.findings
    BY <1>r DEF Report
  <2>4. rec.findings
    BY <2>1 DEF InsightAllowed
  <2>s. Plausible(rec) /\ Len(rec.plans) <= MaxPlans
    BY <1>s DEF Sound
  <2>5. Coherent(rec) => rec.status # "STAGED"
    BY <2>4 DEF Coherent, StagedReport
  <2>c. ~request[t].torn /\ ~mixed => Coherent(rec)
    BY <1>s
  <2> HIDE DEF new, rec
  <2>6. Plausible(new)
    BY <2>3, <2>s DEF Plausible
  <2>7. Coherent(rec) => Coherent(new)
    BY <2>3, <2>5, <2>6 DEF Coherent
  <2> QED BY <2>2, <2>3, <2>4, <2>6, <2>7, <2>s, <2>c DEF Sound, SoundRequest
<1> QED BY <1>1, <1>2, <1>3, <1>4

LEMMA SoundHandle ==
    ASSUME TypeOK, SoundInv, NEW t \in Thread, Handle(t)
    PROVE  SoundRequest(request'[t], mixed') /\ SoundReport(report', mixed')
<1> USE DEF dbVars
<1>r. /\ request[t] \in Request /\ request[t].rec \in Report
      /\ request \in [Thread -> Request]
      /\ mixed \in BOOLEAN /\ request[t].torn \in BOOLEAN
  BY DEF TypeOK, Request
<1>s. /\ SoundRequest(request[t], mixed) /\ Sound(request[t].rec)
      /\ SoundReport(report, mixed)
  BY DEF SoundInv, SoundRequest
<1>f. Finish(t) => SoundRequest(request'[t], mixed')
  BY <1>r, SoundIdle DEF Finish
<1>w. RemoveRow => SoundReport(report', mixed')
  BY SoundStaged DEF RemoveRow
\* The request goes on to another call with the record and the purpose it has.
<1>g. ASSUME request'[t].rec = request[t].rec,
             request'[t].torn = request[t].torn,
             mixed' = mixed,
             request'[t].op = request[t].op,
             request'[t].plan = request[t].plan,
             request'[t].pc \in {"ensure", "fetch", "claim", "work"} =>
               request[t].pc \in {"ensure", "fetch", "claim", "work"},
             request'[t].pc \notin {"commit", "annotate"}
      PROVE  SoundRequest(request'[t], mixed')
  BY <1>g, <1>s DEF SoundRequest
\* The request has no use for its record any more.
<1>e. ASSUME request'[t].rec = StagedReport,
             request'[t].pc \notin {"commit", "annotate"},
             request'[t].op \notin {"verify", "plan"}
             \/ request'[t].pc \notin {"ensure", "fetch", "claim", "work"}
      PROVE  SoundRequest(request'[t], mixed')
  BY <1>e, SoundStaged DEF SoundRequest
<1>1. CASE Arrive(t)
  <2>0. report' = report /\ mixed' = mixed
    BY <1>1 DEF Arrive, CreatePut, Begin, NotFound, DeleteBegin
  <2>1. CASE CreatePut(t)
    BY <1>e, <1>r, <1>s, <2>0, <2>1 DEF CreatePut, Idle
  <2>2. CASE Begin(t)
    <3> DEFINE new == [report EXCEPT !.insights = {}]
    <3>1. /\ request'[t].rec = new /\ request'[t].pc = "findings"
          /\ request'[t].torn = FALSE
      <4>1. PICK archive \in {"none", "bundle"} :
               request' = [request EXCEPT ![t] =
                  [Idle EXCEPT !.pc = "findings", !.archive = archive, !.rec = new]]
        BY <2>2 DEF Begin
      <4>2. request'[t] = [Idle EXCEPT !.pc = "findings", !.archive = archive, !.rec = new]
        BY <1>r, <4>1
      <4> HIDE DEF new
      <4> QED BY <4>2 DEF Idle
    <3>2. /\ new.status = report.status /\ new.verdict = report.verdict
          /\ new.plans = report.plans /\ new.findings = report.findings
      BY DEF TypeOK, Report
    <3>3. report = StagedReport => new = StagedReport
      <4>1. [StagedReport EXCEPT !.insights = {}] = StagedReport
        BY DEF StagedReport
      <4> QED BY <4>1
    <3>4. /\ Plausible(report) /\ Len(report.plans) <= MaxPlans
          /\ ~mixed => Coherent(report)
      BY <1>s DEF Sound, SoundReport
    <3> HIDE DEF new
    <3>5. Plausible(new)
      BY <3>2, <3>4 DEF Plausible
    <3>6. Coherent(report) => Coherent(new)
      BY <3>2, <3>3, <3>5 DEF Coherent
    <3> QED BY <1>s, <2>0, <3>1, <3>2, <3>4, <3>5, <3>6 DEF Sound, SoundRequest
  <2>3. CASE NotFound(t)
    BY <1>s, <2>0, <2>3 DEF NotFound
  <2>4. CASE DeleteBegin(t)
    <3>1. \/ \E archive \in {"none", "reference"} :
                request' = [request EXCEPT ![t] =
                   [Idle EXCEPT !.op = "delete", !.pc = "remove", !.archive = archive]]
          \/ request' = [request EXCEPT ![t] =
                [Idle EXCEPT !.op = "delete", !.pc = "reference"]]
      BY <2>4 DEF DeleteBegin
    <3>2. /\ request'[t].rec = StagedReport /\ request'[t].op = "delete"
          /\ request'[t].pc \in {"reference", "remove"}
      <4>1. CASE \E archive \in {"none", "reference"} :
                request' = [request EXCEPT ![t] =
                   [Idle EXCEPT !.op = "delete", !.pc = "remove", !.archive = archive]]
        BY <1>r, <4>1 DEF Idle
      <4>2. CASE request' = [request EXCEPT ![t] =
                   [Idle EXCEPT !.op = "delete", !.pc = "reference"]]
        BY <1>r, <4>2 DEF Idle
      <4> QED BY <3>1, <4>1, <4>2
    <3> QED BY <1>e, <1>s, <2>0, <3>2
  <2> QED BY <1>1, <2>1, <2>2, <2>3, <2>4 DEF Arrive
<1>2. CASE CreateInsert(t)
  BY <1>2, <1>f, SoundStaged DEF CreateInsert
<1>3. CASE CreateRejected(t) \/ DeleteReference(t)
  BY <1>3, <1>g, <1>r, <1>s DEF CreateRejected, DeleteReference, Request
<1>4. CASE AdmitRun(t) \/ AdmitPlan(t) \/ AdmitVerify(t) \/ AdmitInsight(t)
  BY <1>4, <1>s, SoundAdmit DEF AdmitRun, AdmitPlan, AdmitVerify, AdmitInsight
<1>5. CASE Return(t) \/ ClaimDenied(t) \/ CommitRefused(t)
  BY <1>5, <1>f, <1>s DEF Return, ClaimDenied, CommitRefused
<1>6. CASE FindExpired(t)
  BY <1>6, <1>g, <1>r, <1>s DEF FindExpired, Goto, Request
<1>7. CASE Expire(t)
  BY <1>7, <1>f, <1>w DEF Expire
<1>8. CASE EnsureBundle(t)
  <2>1. report' = report /\ mixed' = mixed
    BY <1>8 DEF EnsureBundle
  <2>2. CASE Finish(t)
    BY <1>f, <1>s, <2>1, <2>2
  <2>3. CASE request' = [request EXCEPT ![t].archive = "reference",
                            ![t].pc = IF rawExpired THEN "erase" ELSE "fetch"]
    BY <1>8, <1>g, <1>r, <1>s, <2>1, <2>3 DEF EnsureBundle, Request
  <2> QED BY <1>8, <2>2, <2>3 DEF EnsureBundle
<1>9. CASE FetchBundle(t)
  <2>1. report' = report /\ mixed' = mixed
    BY <1>9 DEF FetchBundle
  <2>2. CASE object = "stored"
    BY <1>9, <1>g, <1>r, <1>s, <2>1, <2>2 DEF FetchBundle, Request
  <2>3. CASE object # "stored"
    BY <1>9, <1>f, <1>s, <2>1, <2>3 DEF FetchBundle
  <2> QED BY <2>2, <2>3
<1>10. CASE Claim(t)
  BY <1>10, <1>g, <1>r, <1>s DEF Claim, Goto, Request
<1>11. CASE Work(t)
  <2>1. KeepsSound(request[t].rec, request'[t].rec)
    BY <1>11, <1>s, SoundWork
  <2>2. \E rec, cleanup : Conclude(t, rec, cleanup)
    BY <1>11 DEF Work, RunStatic, RunError, RunComplete, PlanGenerated, PlanRejected,
                 VerifyComplete, VerifyError
  <2>3. /\ request'[t].pc = "commit" /\ report' = report /\ mixed' = mixed
        /\ request'[t].torn = request[t].torn
    BY <1>r, <2>2 DEF Conclude, Request
  <2>4. request'[t].rec.status # "STAGED"
    BY <1>11, WorkNotStaged
  <2> QED BY <1>s, <2>1, <2>3, <2>4 DEF SoundRequest, KeepsSound
<1>c. ASSUME report' = request[t].rec, mixed' = (mixed \/ request[t].torn),
             request[t].pc \in {"commit", "annotate"}
      PROVE  SoundReport(report', mixed')
  BY <1>c, <1>r, <1>s DEF SoundRequest, SoundReport
<1>12. CASE Commit(t)
  <2>1. SoundReport(report', mixed')
    BY <1>12, <1>c DEF Commit
  <2>2. request'[t].rec = StagedReport /\ request'[t].pc \in {"erase", "idle"}
    BY <1>12, <1>r DEF Commit, Idle
  <2> QED BY <1>e, <2>1, <2>2
<1>13. CASE Annotate(t)
  BY <1>13, <1>c, <1>f, <1>s DEF Annotate
<1>14. CASE Erase(t)
  <2>1. report' = report /\ mixed' = mixed /\ request[t].pc = "erase"
    BY <1>14 DEF Erase
  <2>2. CASE Finish(t)
    BY <1>f, <1>s, <2>1, <2>2
  <2>3. CASE Goto(t, "mark")
    BY <1>g, <1>r, <1>s, <2>1, <2>3 DEF Goto, Request
  <2> QED BY <1>14, <2>2, <2>3 DEF Erase
<1>15. CASE MarkDeleted(t)
  BY <1>15, <1>f, <1>s DEF MarkDeleted
<1>16. CASE Remove(t)
  <2>1. RemoveRow /\ mixed' = mixed
    BY <1>16 DEF Remove, RemoveRow
  <2> QED BY <1>16, <1>g, <1>r, <1>w, <2>1 DEF Remove, Goto, Request
<1>17. CASE DatabaseFails(t) \/ StoreFails(t)
  BY <1>17, <1>f, <1>s DEF DatabaseFails, StoreFails
<1>18. CASE ReadFindings(t) \/ ReadPlans(t) \/ ReadVerifications(t)
  <2> DEFINE old == request[t].rec
  <2>1. PICK rec \in Report :
           /\ ReadRec(t, rec)
           /\ UNCHANGED <<dbVars, object, clockVars, cached, sweeper, input>>
           /\ rec.status = request[t].rec.status
           /\ rec.verdict = request[t].rec.verdict
           /\ rec.findings \in {request[t].rec.findings, report.findings}
           /\ \/ /\ Len(rec.plans) = Len(request[t].rec.plans)
                 /\ rec.plans # <<>> => request[t].rec.plans # <<>>
              \/ rec.plans = report.plans
    BY <1>18, ReadFrame
  <2>2. Plausible(old) /\ Plausible(report)
        /\ Len(old.plans) <= MaxPlans /\ Len(report.plans) <= MaxPlans
    BY <1>s DEF Sound, SoundReport
  <2>4. ~request[t].torn /\ ~mixed => Coherent(old)
    BY <1>s DEF SoundRequest
  <2>5. /\ request'[t].rec = rec /\ request'[t].pc \in {"plans", "verifications", "load"}
        /\ ~request'[t].torn => ~request[t].torn /\ rec = old
    BY <1>r, <2>1 DEF ReadRec
  <2> HIDE DEF old
  <2>3. Plausible(rec) /\ Len(rec.plans) <= MaxPlans
    BY <2>1, <2>2 DEF Plausible, old
  <2>6. SoundRequest(request'[t], mixed)
    BY <2>3, <2>4, <2>5 DEF SoundRequest, Sound
  <2> QED BY <1>s, <2>1, <2>6
<1> QED BY <1>1, <1>2, <1>3, <1>4, <1>5, <1>6, <1>7, <1>8, <1>9, <1>10, <1>11, <1>12,
           <1>13, <1>14, <1>15, <1>16, <1>17, <1>18 DEF Handle, Proceed

LEMMA SoundSystem ==
    ASSUME TypeOK, SoundInv, System
    PROVE  /\ SoundReport(report', mixed')
           /\ \A t \in Thread : SoundRequest(request'[t], mixed')
<1>0. mixed' = mixed
  BY DEF System, Purge, SweepBegin, SweepErase, SweepRow, SweepDies, SweepRowFails, Crash,
         ReportExpires, ArchiveExpires, ClaimLapses, dbVars, RemoveRow
<1>1. \A t \in Thread : SoundRequest(request'[t], mixed')
  BY <1>0, SystemFrame, SoundIdle DEF SoundInv
<1>2. CASE \E p \in Process : SweepRow(p)
  BY <1>1, <1>2, SoundStaged DEF SweepRow, RemoveRow
<1>3. CASE report' = report
  BY <1>0, <1>1, <1>3 DEF SoundInv
<1> QED BY <1>2, <1>3 DEF System, Purge, SweepBegin, SweepErase, SweepDies, SweepRowFails,
           Crash, ReportExpires, ArchiveExpires, ClaimLapses, dbVars

LEMMA SoundInvInit == Init => SoundInv
<1> SUFFICES ASSUME Init PROVE SoundInv
  OBVIOUS
<1>1. report = StagedReport /\ \A t \in Thread : request[t] = Idle
  BY DEF Init
<1> QED BY <1>1, SoundStaged, SoundIdle DEF SoundInv

LEMMA SoundInvNext == TypeOK /\ SoundInv /\ [Next]_vars => SoundInv'
<1> SUFFICES ASSUME TypeOK, SoundInv, [Next]_vars PROVE SoundInv'
  OBVIOUS
<1>i. input' = input
  BY SoundInput
<1>m. mixed \in BOOLEAN /\ mixed' \in BOOLEAN /\ (mixed => mixed')
  BY MixedFrame
<1>1. SoundReport(report', mixed') /\ \A t \in Thread : SoundRequest(request'[t], mixed')
  <2>1. CASE UNCHANGED vars
    BY <2>1 DEF vars, SoundInv
  <2>2. CASE System
    BY <2>2, SoundSystem
  <2>3. ASSUME NEW t \in Thread, Handle(t), NEW u \in Thread
        PROVE  SoundReport(report', mixed') /\ SoundRequest(request'[u], mixed')
    <3>1. SoundReport(report', mixed') /\ SoundRequest(request'[t], mixed')
      BY <2>3, SoundHandle
    <3>2. u # t => request'[u] = request[u]
      BY <2>3, HandleFrame
    <3>3. SoundRequest(request[u], mixed')
      BY <1>m, SoundMixed DEF SoundInv
    <3> QED BY <3>1, <3>2, <3>3
  <2>4. ASSUME NEW t \in Thread, Handle(t)
        PROVE  SoundReport(report', mixed') /\ \A u \in Thread : SoundRequest(request'[u], mixed')
    BY <2>3, <2>4
  <2> QED BY <2>1, <2>2, <2>4, NextSplit
<1> QED BY <1>i, <1>1 DEF SoundInv, SoundReport, SoundRequest, Sound, Coherent, Plausible,
           PlanAllowed, StagedReport

LEMMA SoundInvAlways == Spec => []SoundInv
<1>1. Init => TypeOK /\ SoundInv
  BY InitType, SoundInvInit
<1>2. TypeOK /\ SoundInv /\ [Next]_vars => (TypeOK /\ SoundInv)'
  BY NextType, SoundInvNext
<1> QED BY <1>1, <1>2, PTL DEF Spec

\* However requests interleave, lapse and fail, and although every commit replaces the
\* row by a record that may be outdated, the row holds a report whose status, verdict,
\* findings and plans agree, until a record is saved that mixes reports of several
\* moments; what Plausible says holds of every report.
THEOREM StoredReportIsCoherent == Spec => []StoredReportCoherent
<1>1. SoundInv => StoredReportCoherent
  BY DEF SoundInv, SoundReport, Sound, StoredReportCoherent
<1> QED BY <1>1, SoundInvAlways, PTL

\* The plan limit holds in the row although it is checked before the claim.
THEOREM PlanLimitIsKept == Spec => []PlanLimitHeld
<1>1. SoundInv => PlanLimitHeld
  BY DEF SoundInv, SoundReport, Sound, PlanLimitHeld
<1> QED BY <1>1, SoundInvAlways, PTL

----------------------------------------------------------------------------
(* An analysis that nobody has run keeps its archive *)

\* Nothing needs the archive any more: its analysis was never inserted, is deleted,
\* has been run, or has outlived one of its retentions.
Needless ==
    /\ row = "absent" => \A t \in Thread : request[t].pc # "insert"
    /\ row = "present" =>
         report.status # "STAGED" \/ report.findings \/ expired \/ rawExpired

\* The inductive invariant: whoever is about to erase the archive does so when it is
\* needless.  That no record about to be saved makes it needed again is in SoundInv.
BundleInv ==
    /\ object = "erased" => Needless
    /\ \A t \in Thread :
         /\ request[t].pc = "erase" => Needless /\ object # "none"
         /\ request[t].pc \in {"reference", "remove"} => row # "absent"
    /\ \A p \in Process : sweeper[p] = "erase" => expired
    /\ row = "absent" => ~expired /\ ~rawExpired

LEMMA BundleInvInit == Init => BundleInv
BY DEF Init, BundleInv, Idle

\* Which steps lead a request to the calls that matter here.
LEMMA CallFrame ==
    ASSUME TypeOK, NEW t \in Thread, Handle(t), request'[t] # request[t]
    PROVE  /\ request'[t].pc = "erase" =>
                CreateRejected(t) \/ EnsureBundle(t) \/ Commit(t) \/ Remove(t)
           /\ request'[t].pc = "annotate" => AdmitInsight(t)
           /\ request'[t].pc = "reference" => DeleteBegin(t)
           /\ request'[t].pc = "remove" => DeleteBegin(t) \/ DeleteReference(t)
<1> USE DEF TypeOK, Idle, Finish, Goto
<1>r. request[t] \in Request
  OBVIOUS
<1>1. CASE Arrive(t)
  <2>1. CASE CreatePut(t)
    BY <2>1 DEF CreatePut
  <2>2. CASE Begin(t)
    BY <2>2 DEF Begin
  <2>3. CASE NotFound(t)
    BY <2>3 DEF NotFound
  <2>4. CASE DeleteBegin(t)
    <3>1. request'[t].pc \in {"reference", "remove"}
      BY <2>4 DEF DeleteBegin
    <3> QED BY <2>4, <3>1
  <2> QED BY <1>1, <2>1, <2>2, <2>3, <2>4 DEF Arrive
<1>2. CASE Proceed(t)
  <2>1. CASE Work(t)
    <3>1. \E rec, cleanup : Conclude(t, rec, cleanup)
      BY <2>1 DEF Work, RunStatic, RunError, RunComplete, PlanGenerated, PlanRejected,
                  VerifyComplete, VerifyError
    <3>2. request'[t].pc = "commit"
      BY <1>r, <3>1 DEF Conclude, Request
    <3> QED BY <3>2
  <2>2. CASE AdmitRun(t) \/ AdmitVerify(t) \/ AdmitPlan(t)
    <3>1. ASSUME NEW op, NEW plan, NeedBundle(t, op, plan)
          PROVE  request'[t].pc \in {"claim", "ensure"}
      BY <1>r, <3>1 DEF NeedBundle, Request
    <3>2. AdmitPlan(t) => request'[t].pc = "claim"
      BY <1>r DEF AdmitPlan, Request
    <3>3. AdmitPlan(t) \/ \E op, plan : NeedBundle(t, op, plan)
      BY <2>2 DEF AdmitRun, AdmitVerify
    <3> QED BY <3>1, <3>2, <3>3
  <2>3. CASE Return(t) \/ Expire(t) \/ FindExpired(t) \/ CreateInsert(t)
    BY <1>r, <2>3 DEF Return, Expire, FindExpired, CreateInsert, Request
  <2>4. CASE FetchBundle(t) \/ Claim(t) \/ ClaimDenied(t)
    BY <1>r, <2>4 DEF FetchBundle, Claim, ClaimDenied, Request
  <2>5. CASE CommitRefused(t) \/ Annotate(t) \/ Erase(t) \/ MarkDeleted(t)
    BY <1>r, <2>5 DEF CommitRefused, Annotate, Erase, MarkDeleted, Request
  <2>6. CASE CreateRejected(t) \/ EnsureBundle(t)
    BY <1>r, <2>6 DEF CreateRejected, EnsureBundle, Request
  <2>7. CASE Commit(t)
    BY <1>r, <2>7 DEF Commit, Request
  <2>8. CASE Remove(t) \/ DeleteReference(t)
    BY <1>r, <2>8 DEF Remove, DeleteReference, Request
  <2>9. CASE AdmitInsight(t)
    <3>1. request'[t].pc = "annotate"
      BY <1>r, <2>9 DEF AdmitInsight, Request
    <3> QED BY <2>9, <3>1
  <2>10. CASE ReadFindings(t) \/ ReadPlans(t) \/ ReadVerifications(t)
    BY <2>10, ReadFrame DEF ReadRec
  <2> QED BY <1>2, <2>1, <2>2, <2>3, <2>4, <2>5, <2>6, <2>7, <2>8, <2>9, <2>10 DEF Proceed
<1>3. CASE DatabaseFails(t) \/ StoreFails(t)
  BY <1>3 DEF DatabaseFails, StoreFails
<1> QED BY <1>1, <1>2, <1>3 DEF Handle

\* A report that stays in the row was there, or is the record of a request that saves.
LEMMA ReportFrame ==
    ASSUME TypeOK, Next, row' = "present"
    PROVE  \/ row = "present" /\ report' = report
           \/ \E t \in Thread : CreateInsert(t)
           \/ \E t \in Thread :
                request[t].pc \in {"commit", "annotate"} /\ report' = request[t].rec
<1> USE DEF dbVars
<1>w. ~RemoveRow
  BY DEF RemoveRow, TypeOK
<1>s. row = "present" \/ \E t \in Thread : CreateInsert(t)
  BY StorageFrame
<1>1. ASSUME NEW t \in Thread, Arrive(t)
      PROVE  report' = report
  BY <1>1 DEF Arrive, CreatePut, Begin, NotFound, DeleteBegin
<1>2. ASSUME NEW t \in Thread, Work(t)
      PROVE  report' = report
  BY <1>2 DEF Work, Conclude, RunStatic, RunError, RunComplete, PlanGenerated,
              PlanRejected, VerifyComplete, VerifyError
<1>3. ASSUME NEW t \in Thread, Proceed(t)
      PROVE  \/ report' = report \/ CreateInsert(t)
             \/ request[t].pc \in {"commit", "annotate"} /\ report' = request[t].rec
  <2>1. CASE Commit(t) \/ Annotate(t)
    BY <2>1 DEF Commit, Annotate
  <2> QED BY <1>2, <1>3, <1>w, <2>1 DEF Proceed, CreateRejected, ReadFindings, ReadPlans,
     ReadVerifications, Read, AdmitRun, AdmitPlan,
     AdmitVerify, AdmitInsight, Return, FindExpired, Expire, EnsureBundle, FetchBundle,
     Claim, ClaimDenied, CommitRefused, Erase, MarkDeleted, DeleteReference, Remove
<1>4. ASSUME NEW t \in Thread, DatabaseFails(t) \/ StoreFails(t)
      PROVE  report' = report
  BY <1>4 DEF DatabaseFails, StoreFails
<1>5. System => report' = report
  BY <1>w DEF System, Purge, SweepBegin, SweepErase, SweepRow, SweepDies, SweepRowFails,
     Crash, ReportExpires, ArchiveExpires, ClaimLapses
<1> QED BY <1>s, <1>1, <1>3, <1>4, <1>5, NextSplit DEF Handle


\* The retentions run out, and do not come back; they have not begun without a row.
LEMMA ClockFrame ==
    ASSUME Next
    PROVE  /\ (expired => expired') /\ (rawExpired => rawExpired')
           /\ <<expired, rawExpired>>' # <<expired, rawExpired>> =>
                row # "absent" /\ row' = row
<1> USE DEF clockVars, dbVars
<1>1. ASSUME NEW t \in Thread, Arrive(t)
      PROVE  UNCHANGED <<expired, rawExpired>>
  BY <1>1 DEF Arrive, CreatePut, Begin, NotFound, DeleteBegin
<1>2. ASSUME NEW t \in Thread, Work(t)
      PROVE  UNCHANGED <<expired, rawExpired>>
  BY <1>2 DEF Work, Conclude, RunStatic, RunError, RunComplete, PlanGenerated,
              PlanRejected, VerifyComplete, VerifyError
<1>3. ASSUME NEW t \in Thread, Proceed(t)
      PROVE  UNCHANGED <<expired, rawExpired>>
  BY <1>2, <1>3 DEF Proceed, CreateInsert, CreateRejected, ReadFindings, ReadPlans,
     ReadVerifications, Read, AdmitRun, AdmitPlan,
     AdmitVerify, AdmitInsight, Return, FindExpired, Expire, EnsureBundle, FetchBundle,
     Claim, ClaimDenied, Commit, CommitRefused, Annotate, Erase, MarkDeleted,
     DeleteReference, Remove
<1>4. ASSUME NEW t \in Thread, DatabaseFails(t) \/ StoreFails(t)
      PROVE  UNCHANGED <<expired, rawExpired>>
  BY <1>4 DEF DatabaseFails, StoreFails
<1>5. CASE ReportExpires
  BY <1>5 DEF ReportExpires
<1>6. CASE ArchiveExpires
  BY <1>6 DEF ArchiveExpires
<1>7. CASE System /\ ~ReportExpires /\ ~ArchiveExpires
  <2>1. UNCHANGED <<expired, rawExpired>>
    BY <1>7 DEF System, Purge, SweepBegin, SweepErase, SweepRow, SweepDies,
       SweepRowFails, Crash, ClaimLapses
  <2> QED BY <2>1
<1> QED BY <1>1, <1>3, <1>4, <1>5, <1>6, <1>7, NextSplit DEF Handle

\* An insertion begins with the archive, whose name must be free.
LEMMA InsertFrame ==
    ASSUME TypeOK, Next, object # "none", NEW u \in Thread, request'[u].pc = "insert"
    PROVE  request[u].pc = "insert"
<1>1. CASE System
  BY <1>1, SystemFrame DEF Idle
<1>2. ASSUME NEW t \in Thread, Handle(t)
      PROVE  request[u].pc = "insert"
  <2>1. ~CreatePut(t)
    BY DEF CreatePut
  <2>2. u # t /\ request'[u] = request[u]
    BY <1>2, <2>1, HandleFrame
  <2> QED BY <2>2
<1> QED BY <1>1, <1>2, NextSplit

\* Once needless, an archive that has been stored is needless for good.
LEMMA NeedlessStable ==
    ASSUME TypeOK, CreatedOnce, SoundInv, BundleInv, Next, Needless, object # "none"
    PROVE  Needless'
<1>1. ~\E t \in Thread : CreateInsert(t)
  BY DEF CreateInsert, At, CreatedOnce, Needless
<1>2. row' # row => row = "present" /\ row' = "deleted"
  BY <1>1, StorageFrame
<1>3. row' = "absent" => \A u \in Thread : request'[u].pc # "insert"
  BY <1>2, InsertFrame DEF Needless
<1>4. ASSUME row' = "present"
      PROVE  report'.status # "STAGED" \/ report'.findings \/ expired' \/ rawExpired'
  <2>1. row = "present"
    BY <1>2, <1>4
  <2>2. report' = report \/ report'.status # "STAGED" \/ report'.findings
    BY <1>1, <1>4, ReportFrame DEF SoundInv, SoundRequest
  <2> QED BY <2>1, <2>2, ClockFrame DEF Needless
<1> QED BY <1>3, <1>4 DEF Needless

\* What the invariant says of the request that moves.
LEMMA BundleHandle ==
    ASSUME TypeOK, CreatedOnce, SoundInv, BundleInv, NEW t \in Thread, Handle(t),
           request'[t] # request[t]
    PROVE  /\ request'[t].pc = "erase" => Needless' /\ object' # "none"
           /\ request'[t].pc \in {"reference", "remove"} => row' # "absent"
<1>n. Next
  BY NextSplit
<1>r. /\ request[t] \in Request /\ request[t].rec \in Report
      /\ request \in [Thread -> Request]
  BY DEF TypeOK, Request
<1>f. \A u \in Thread \ {t} : request'[u] = request[u]
  BY HandleFrame
<1>s. object # "none" => object' # "none"
  BY <1>n, StorageFrame
<1>1. ASSUME request'[t].pc = "erase"
      PROVE  Needless' /\ object' # "none"
  <2>1. CASE CreateRejected(t)
    <3>1. row = "absent" /\ object # "none"
      BY <2>1 DEF CreateRejected, At, CreatedOnce
    <3>2. row' = row /\ object' = object
      BY <2>1 DEF CreateRejected, dbVars
    <3>3. \A u \in Thread : request'[u].pc # "insert"
      BY <1>1, <1>f, <2>1 DEF CreateRejected, At, CreatedOnce
    <3> QED BY <3>1, <3>2, <3>3 DEF Needless
  <2>2. CASE EnsureBundle(t)
    <3>1. rawExpired
      BY <1>1, <1>r, <2>2 DEF EnsureBundle, Finish, Idle, Request
    <3>2. row # "absent" /\ Needless /\ object # "none"
      BY <3>1 DEF BundleInv, Needless, CreatedOnce
    <3> QED BY <1>n, <1>s, <3>2, NeedlessStable
  <2>3. CASE Commit(t)
    <3>1. /\ row = "present" /\ row' = row /\ object' = object
          /\ report' = request[t].rec
          /\ request[t].rec.status # "STAGED" \/ request[t].rec.findings
      BY <2>3 DEF Commit, Saved, SoundInv, SoundRequest
    <3> QED BY <3>1 DEF Needless, CreatedOnce
  <2>4. CASE Remove(t)
    <3>1. row # "absent" /\ object # "none"
      BY <2>4 DEF Remove, BundleInv, CreatedOnce
    <3>2. row' = "deleted"
      BY <2>4, <3>1 DEF Remove, RemoveRow, TypeOK
    <3> QED BY <1>s, <3>1, <3>2 DEF Needless
  <2> QED BY <1>1, <2>1, <2>2, <2>3, <2>4, CallFrame
<1>4. ASSUME request'[t].pc \in {"reference", "remove"}
      PROVE  row' # "absent"
  <2>1. CASE DeleteBegin(t)
    BY <2>1 DEF DeleteBegin, dbVars
  <2>2. CASE DeleteReference(t)
    BY <2>2 DEF DeleteReference, At, dbVars, BundleInv
  <2> QED BY <1>4, <2>1, <2>2, CallFrame
<1> QED BY <1>1, <1>4

\* Who erases the archive: a request at that call, or the sweep of a report past its
\* retention.
LEMMA EraseFrame ==
    ASSUME TypeOK, Next, object' = "erased", object # "erased"
    PROVE  /\ object = "stored"
           /\ \/ \E t \in Thread : request[t].pc = "erase"
              \/ \E p \in Process : sweeper[p] = "erase"
<1>e. EraseObject => object = "stored"
  BY DEF EraseObject
<1>1. ASSUME NEW t \in Thread, Arrive(t)
      PROVE  FALSE
  BY <1>1 DEF Arrive, CreatePut, Begin, NotFound, DeleteBegin
<1>2. ASSUME NEW t \in Thread, Work(t)
      PROVE  FALSE
  BY <1>2 DEF Work, Conclude, RunStatic, RunError, RunComplete, PlanGenerated,
              PlanRejected, VerifyComplete, VerifyError
<1>3. ASSUME NEW t \in Thread, Proceed(t)
      PROVE  object = "stored" /\ request[t].pc = "erase"
  <2>1. CASE Erase(t)
    BY <1>e, <2>1 DEF Erase
  <2> QED BY <1>2, <1>3, <2>1 DEF Proceed, CreateInsert, CreateRejected, ReadFindings,
     ReadPlans, ReadVerifications, Read, AdmitRun, AdmitPlan, AdmitVerify, AdmitInsight, Return, FindExpired, Expire, EnsureBundle,
     FetchBundle, Claim, ClaimDenied, Commit, CommitRefused, Annotate, MarkDeleted,
     DeleteReference, Remove
<1>4. ASSUME NEW t \in Thread, DatabaseFails(t) \/ StoreFails(t)
      PROVE  FALSE
  BY <1>4 DEF DatabaseFails, StoreFails
<1>5. ASSUME System
      PROVE  object = "stored" /\ \E p \in Process : sweeper[p] = "erase"
  BY <1>5, <1>e DEF System, Purge, SweepBegin, SweepErase, SweepRow, SweepDies,
     SweepRowFails, Sweep, Crash, ReportExpires, ArchiveExpires, ClaimLapses
<1> QED BY <1>1, <1>3, <1>4, <1>5, NextSplit DEF Handle

LEMMA SweeperFrame ==
    ASSUME TypeOK, Next, NEW p \in Process, sweeper'[p] = "erase"
    PROVE  sweeper[p] = "erase" \/ expired
<1>1. ASSUME NEW t \in Thread, Handle(t)
      PROVE  sweeper' = sweeper
  <2>1. Work(t) => sweeper' = sweeper
    BY DEF Work, Conclude, RunStatic, RunError, RunComplete, PlanGenerated, PlanRejected,
           VerifyComplete, VerifyError
  <2>2. Arrive(t) => sweeper' = sweeper
    BY DEF Arrive, CreatePut, Begin, NotFound, DeleteBegin
  <2> QED BY <1>1, <2>1, <2>2 DEF Handle, Proceed, CreateInsert, CreateRejected,
     ReadFindings, ReadPlans, ReadVerifications, Read, AdmitRun, AdmitPlan, AdmitVerify, AdmitInsight, Return, FindExpired, Expire, EnsureBundle,
     FetchBundle, Claim, ClaimDenied, Commit, CommitRefused, Annotate, Erase, MarkDeleted,
     DeleteReference, Remove, DatabaseFails, StoreFails
<1>2. CASE \E q \in Process : SweepBegin(q)
  <2>1. expired
    BY <1>2 DEF SweepBegin
  <2> QED BY <2>1
<1>3. CASE System /\ ~\E q \in Process : SweepBegin(q)
  <2>1. sweeper' = sweeper \/ \E q \in Process, to \in {"row", "dead", "all", "idle"} :
           sweeper' = [sweeper EXCEPT ![q] = to]
    BY <1>3 DEF System, Purge, SweepErase, SweepRow, SweepDies, SweepRowFails, Sweep,
       Crash, ReportExpires, ArchiveExpires, ClaimLapses
  <2> QED BY <2>1 DEF TypeOK
<1> QED BY <1>1, <1>2, <1>3, NextSplit

LEMMA BundleInvNext ==
    TypeOK /\ CreatedOnce /\ SoundInv /\ BundleInv /\ [Next]_vars => BundleInv'
<1> SUFFICES ASSUME TypeOK, CreatedOnce, SoundInv, BundleInv, [Next]_vars
             PROVE  BundleInv'
  OBVIOUS
<1>1. CASE UNCHANGED vars
  BY <1>1 DEF vars, BundleInv, Needless
<1>2. CASE Next
  <2>1. object' = "erased" => Needless'
    <3> SUFFICES ASSUME object' = "erased" PROVE Needless'
      OBVIOUS
    <3>1. Needless /\ object # "none"
      BY <1>2, EraseFrame DEF BundleInv, Needless
    <3> QED BY <1>2, <3>1, NeedlessStable
  <2>2. ASSUME NEW u \in Thread, request'[u] = request[u]
        PROVE  /\ request'[u].pc = "erase" => Needless' /\ object' # "none"
               /\ request'[u].pc \in {"reference", "remove"} => row' # "absent"
    <3>1. row # "absent" => row' # "absent"
      BY <1>2, StorageFrame DEF CreateInsert
    <3>2. request'[u].pc = "erase" => Needless' /\ object' # "none"
      BY <1>2, <2>2, NeedlessStable, StorageFrame DEF BundleInv
    <3> QED BY <2>2, <3>1, <3>2 DEF BundleInv
  <2>3. ASSUME NEW u \in Thread, request'[u] = Idle
        PROVE  request'[u].pc = "idle"
    BY <2>3 DEF Idle
  <2>4. \A u \in Thread :
          /\ request'[u].pc = "erase" => Needless' /\ object' # "none"
          /\ request'[u].pc \in {"reference", "remove"} => row' # "absent"
    <3>1. CASE System
      BY <2>2, <2>3, <3>1, SystemFrame
    <3>2. ASSUME NEW t \in Thread, Handle(t), NEW u \in Thread
          PROVE  /\ request'[u].pc = "erase" => Needless' /\ object' # "none"
                 /\ request'[u].pc \in {"reference", "remove"} => row' # "absent"
      <4>1. CASE request'[u] = request[u]
        BY <2>2, <4>1
      <4>2. CASE request'[u] # request[u]
        <5>1. u = t
          BY <3>2, <4>2, HandleFrame
        <5> QED BY <3>2, <4>2, <5>1, BundleHandle
      <4> QED BY <4>1, <4>2
    <3> QED BY <1>2, <3>1, <3>2, NextSplit
  <2>5. \A p \in Process : sweeper'[p] = "erase" => expired'
    BY <1>2, SweeperFrame, ClockFrame DEF BundleInv
  <2>6. row' = "absent" => ~expired' /\ ~rawExpired'
    BY <1>2, StorageFrame, ClockFrame DEF CreateInsert, BundleInv
  <2> QED BY <2>1, <2>4, <2>5, <2>6 DEF BundleInv
<1> QED BY <1>1, <1>2

\* Whatever fails, gives up, lapses or works on an outdated record, an analysis that
\* nobody has run and that is retained can still be run: its archive is there.
THEOREM StagedAnalysisCanRun == Spec => []StagedKeepsBundle
<1>1. Init => TypeOK /\ CreatedOnce /\ SoundInv /\ BundleInv
  BY InitType, CreatedOnceInit, SoundInvInit, BundleInvInit
<1>2. TypeOK /\ CreatedOnce /\ SoundInv /\ BundleInv /\ [Next]_vars
         => (TypeOK /\ CreatedOnce /\ SoundInv /\ BundleInv)'
  BY NextType, CreatedOnceNext, SoundInvNext, BundleInvNext
<1>3. TypeOK /\ CreatedOnce /\ BundleInv => StagedKeepsBundle
  BY DEF TypeOK, CreatedOnce, BundleInv, Needless, StagedKeepsBundle
<1> QED BY <1>1, <1>2, <1>3, PTL DEF Spec
=============================================================================
