--------------------------- MODULE TimelineStream ---------------------------
(***************************************************************************)
(* The server-sent event stream of one analysis beside the operations that *)
(* write its timeline (service.py, routers/analyses.py:158-192).           *)
(*                                                                         *)
(* With persistence every handler works on a private copy, one at a time   *)
(* because of the claim, and a stream reads a new copy in every turn.  The *)
(* row and the tables below it are read by statements of their own: other  *)
(* handlers save between them.  Without persistence all of them share one  *)
(* record object and claims are granted to everyone: each assignment and   *)
(* each event can be seen.                                                 *)
(***************************************************************************)
EXTENDS Naturals, Sequences

CONSTANTS
    Thread,      \* threads that serve operations
    Client,      \* open or future streams
    Requests,    \* bound: operations that are asked for
    After,       \* values of after_sequence
    SandboxRun,  \* numbers of runs a simulation records
    Judged       \* statuses of the verdicts that a simulation can end with

ASSUME TimelineAssumption ==
    /\ Requests \in Nat
    /\ After \subseteq Nat /\ SandboxRun \subseteq Nat
    /\ Judged \subseteq {"UNSAFE", "CONDITIONAL", "VERIFIED"}
    /\ {"free", "none"} \cap Thread = {}

VARIABLES
    persisted,   \* is there a database, or only the process's memory?
    ready,       \* is the bundle complete enough for a simulation?
    risky,       \* does the static analysis find anything?
    stored,      \* the row, or the record object that all handlers share
    gone,        \* the analysis has been deleted or has expired
    claim,       \* the thread whose token is in the row
    op,          \* per thread: the rest of its operation, and its private copy
    asked,       \* history: operations so far
    client,      \* per stream: where its generator stands and what it has sent
    overlapped,  \* history: a save has replaced a row newer than its copy
    died         \* history: an operation has ended in the middle

inputVars == <<persisted, ready, risky>>
vars == <<inputVars, stored, gone, claim, op, asked, client, overlapped, died>>

Terminal == {"STATIC_ONLY", "PLAN_REJECTED", "VERIFIED_PLAN", "ERROR"} \union Judged

Status == Terminal \union {"STAGED", "ANALYZING", "SIMULATING", "PLANNING", "VERIFYING_PLAN"}

EventType ==
    {"BUNDLE_STAGED", "STATIC_ANALYSIS_STARTED", "STATIC_ANALYSIS_COMPLETED",
     "SIMULATION_NOT_TESTED", "SANDBOX_STARTED", "SANDBOX_ERROR", "SANDBOX_RUN",
     "ANALYSIS_COMPLETED", "PLAN_GENERATION_STARTED", "PLAN_REJECTED", "PLAN_GENERATED",
     "AI_INSIGHT_GENERATED", "PLAN_VERIFICATION_STARTED", "PLAN_VERIFICATION_COMPLETED",
     "PLAN_VERIFICATION_ERROR"}

Free == "free"
None == "none"

Event == [sequence : Nat, type : EventType]

\* verdict is the status that the record's verdict stands for.
Record == [status : Status, verdict : {"ERROR"} \union Judged, timeline : Seq(Event),
           findings : BOOLEAN, plan : BOOLEAN, bundle : BOOLEAN]

Staged ==
    [status |-> "STAGED", verdict |-> "ERROR", findings |-> FALSE, plan |-> FALSE,
     bundle |-> TRUE,
     timeline |-> <<[sequence |-> 1, type |-> "BUNDLE_STAGED"]>>]

\* An analysis that earlier operations have judged and planned for.
Planned(status) ==
    LET done == <<"BUNDLE_STAGED", "STATIC_ANALYSIS_STARTED", "STATIC_ANALYSIS_COMPLETED",
                  "SANDBOX_STARTED", "SANDBOX_RUN", "ANALYSIS_COMPLETED",
                  "PLAN_GENERATION_STARTED", "PLAN_GENERATED">>
    IN  [status |-> "PLANNING", verdict |-> status, findings |-> TRUE, plan |-> TRUE,
         bundle |-> TRUE,
         timeline |-> [i \in 1..Len(done) |-> [sequence |-> i, type |-> done[i]]]]

\* The steps an operation still has to take.
Becomes(status) == [does |-> "status", arg |-> status]
Judges(status)  == [does |-> "judge", arg |-> status]
Logs(type)      == [does |-> "event", arg |-> type]
Does(call)      == [does |-> call, arg |-> None]

Idle == [todo |-> <<>>, copy |-> Staged, base |-> <<>>]

\* What a generator knows of its analysis before it has read it.
Unseen == [status |-> "STAGED", timeline |-> <<>>]

Closed == [pc |-> "closed", after |-> 0, cursor |-> 0, view |-> Unseen, sent |-> <<>>]

TypeOK ==
    /\ persisted \in BOOLEAN /\ ready \in BOOLEAN /\ risky \in BOOLEAN
    /\ stored \in Record
    /\ gone \in BOOLEAN /\ overlapped \in BOOLEAN /\ died \in BOOLEAN
    /\ claim \in Thread \union {Free}
    /\ asked \in 0..Requests
    /\ \A t \in Thread :
         /\ op[t].copy \in Record
         /\ op[t].base \in Seq(Event)
    /\ \A c \in Client :
         /\ client[c].pc \in {"closed", "hydrate", "timeline", "wait", "complete", "broken"}
         /\ client[c].after \in After \union {0}
         /\ client[c].cursor \in Nat
         /\ client[c].view \in [status : Status, timeline : Seq(Event)]
         /\ client[c].sent \in Seq(Event)

\* A bundle that cannot be simulated is analysed all the same.
Init ==
    /\ persisted \in BOOLEAN /\ ready \in BOOLEAN /\ risky \in BOOLEAN
    /\ \/ stored = Staged
       \/ ready /\ risky /\ stored \in {Planned(status) : status \in Judged}
    /\ gone = FALSE
    /\ claim = Free
    /\ op = [t \in Thread |-> Idle]
    /\ asked = 0
    /\ client = [c \in Client |-> Closed]
    /\ overlapped = FALSE
    /\ died = FALSE

----------------------------------------------------------------------------
(* What an operation has ahead of it *)

Save  == Does("save")
Erase == Does("erase")

Run == <<Becomes("ANALYZING"), Logs("STATIC_ANALYSIS_STARTED"), Does("analyze")>>

Analyzed == <<Logs("STATIC_ANALYSIS_COMPLETED"), Does("branch")>>

StaticOnly ==
    <<Judges("STATIC_ONLY"), Does("limitations"), Logs("SIMULATION_NOT_TESTED"), Save, Erase>>

Simulating == <<Becomes("SIMULATING"), Logs("SANDBOX_STARTED"), Does("simulate")>>

SimulationFailed == <<Judges("ERROR"), Logs("SANDBOX_ERROR"), Save>>

\* Mutant: the last event comes after the save.
SimulatedSavedFirst(status, runs) ==
    <<Judges(status)>> \o [i \in 1..runs |-> Logs("SANDBOX_RUN")]
        \o <<Save, Logs("ANALYSIS_COMPLETED")>>
        \o (IF risky THEN <<>> ELSE <<Erase>>)

\* Without findings nothing is left to plan, and the bundle goes.
Simulated(status, runs) ==
    <<Judges(status)>> \o [i \in 1..runs |-> Logs("SANDBOX_RUN")]
        \o <<Logs("ANALYSIS_COMPLETED"), Save>>
        \o (IF risky THEN <<>> ELSE <<Erase>>)

Plan == <<Becomes("PLANNING"), Logs("PLAN_GENERATION_STARTED"), Does("generate")>>

Generated == <<Logs("PLAN_GENERATED"), Save>>

PlanRefused == <<Becomes("PLAN_REJECTED"), Logs("PLAN_REJECTED"), Save>>

Verify == <<Becomes("VERIFYING_PLAN"), Logs("PLAN_VERIFICATION_STARTED"), Does("verify")>>

Verified(status) == <<Becomes(status), Logs("PLAN_VERIFICATION_COMPLETED"), Save, Erase>>

\* Mutant: an error leaves the status alone.
VerificationFailedKeepingStatus == <<Logs("PLAN_VERIFICATION_ERROR"), Save>>

VerificationFailed == <<Does("restore"), Logs("PLAN_VERIFICATION_ERROR"), Save>>

\* The provider has answered; the save takes no claim.
Insight == <<Logs("AI_INSIGHT_GENERATED"), Does("annotate")>>

----------------------------------------------------------------------------
(* Operations *)

InFlight(t) == op[t].todo # <<>>

\* The record a handler works on.
Rec(t) == IF persisted THEN op[t].copy ELSE stored

AtCall(t, call) == InFlight(t) /\ Head(op[t].todo).does = call

\* The handler goes on with todo, having left rec.
Proceeds(t, rec, todo) ==
    /\ op' = [op EXCEPT ![t] = IF todo = <<>> THEN Idle
                               ELSE [@ EXCEPT !.todo = todo,
                                              !.copy = IF persisted THEN rec
                                                       ELSE op[t].copy]]
    /\ stored' = IF persisted THEN stored ELSE rec

Ends(t) == op' = [op EXCEPT ![t] = Idle]

Operation == {"run", "create_plan", "verify_plan", "create_insight"}

\* The row by itself, without what the tables below it hold.
Row(rec) == [rec EXCEPT !.timeline = <<>>, !.findings = FALSE, !.plan = FALSE]

\* The request arrives and finds the record, of which it has the row only.
Ask(t) ==
    /\ ~InFlight(t) /\ ~gone
    /\ asked < Requests
    /\ asked' = asked + 1
    /\ \E operation \in Operation :
         op' = [op EXCEPT ![t] =
                  IF persisted
                  THEN [todo |-> <<Does("findings"), Does("timeline"), Does("plans"),
                                   Does(operation)>>,
                        copy |-> Row(stored), base |-> <<>>]
                  ELSE [Idle EXCEPT !.todo = <<Does(operation)>>]]
    /\ UNCHANGED <<inputVars, stored, gone, claim, client, overlapped, died>>

\* A statement reads one table below the row as it is at this moment.
Read(t, table, copy) ==
    /\ AtCall(t, table)
    /\ op' = [op EXCEPT ![t] = [todo |-> Tail(op[t].todo), copy |-> copy,
                                base |-> copy.timeline]]
    /\ UNCHANGED <<inputVars, stored, gone, claim, asked, client, overlapped, died>>

\* The tables hold nothing of an analysis that has been deleted.
Timeline == IF gone THEN <<>> ELSE stored.timeline

ReadFindings(t) ==
    Read(t, "findings", [op[t].copy EXCEPT !.findings = ~gone /\ stored.findings])

ReadTimeline(t) == Read(t, "timeline", [op[t].copy EXCEPT !.timeline = Timeline])

ReadPlans(t) == Read(t, "plans", [op[t].copy EXCEPT !.plan = ~gone /\ stored.plan])

\* What the handler decides on the record it got.
Admit(t, operation, allowed, work) ==
    /\ AtCall(t, operation)
    /\ IF allowed THEN Proceeds(t, Rec(t), work) ELSE Ends(t) /\ stored' = stored
    /\ UNCHANGED <<inputVars, gone, claim, asked, client, overlapped, died>>

AdmitRun(t) ==
    Admit(t, "run", Rec(t).status \in {"STAGED", "ERROR"} /\ Rec(t).bundle,
          <<Does("claim")>> \o Run)

AdmitPlan(t) == Admit(t, "create_plan", Rec(t).findings, <<Does("claim")>> \o Plan)

AdmitVerify(t) ==
    Admit(t, "verify_plan", Rec(t).plan /\ Rec(t).bundle, <<Does("claim")>> \o Verify)

\* Insights that are already there are returned without a write.
AdmitInsight(t) == Admit(t, "create_insight", Rec(t).findings, Insight)

\* Mutant: a claim that is held is no reason to refuse.
ClaimAnyway(t) ==
    /\ AtCall(t, "claim")
    /\ IF ~persisted THEN claim' = claim /\ Proceeds(t, stored, Tail(op[t].todo))
       ELSE IF ~gone
       THEN claim' = t /\ Proceeds(t, op[t].copy, Tail(op[t].todo))
       ELSE claim' = claim /\ Ends(t) /\ stored' = stored
    /\ UNCHANGED <<inputVars, gone, asked, client, overlapped, died>>

Claim(t) ==
    /\ AtCall(t, "claim")
    /\ IF ~persisted THEN claim' = claim /\ Proceeds(t, stored, Tail(op[t].todo))
       ELSE IF claim = Free /\ ~gone
       THEN claim' = t /\ Proceeds(t, op[t].copy, Tail(op[t].todo))
       ELSE claim' = claim /\ Ends(t) /\ stored' = stored
    /\ UNCHANGED <<inputVars, gone, asked, client, overlapped, died>>

\* An event gets the number of events as its sequence under the lock.
Logged(rec, type) ==
    [rec EXCEPT !.timeline = Append(@, [sequence |-> Len(@) + 1, type |-> type])]

\* Mutant: the verdict is set to whatever the status becomes.
WrittenVerdictAsStatus(rec, step) ==
    CASE step.does = "status" -> [rec EXCEPT !.status = step.arg]
      [] step.does = "judge"  -> [rec EXCEPT !.status = step.arg, !.verdict = step.arg]
      [] step.does = "restore" -> [rec EXCEPT !.status = rec.verdict]
      [] step.does = "event"  -> Logged(rec, step.arg)

Written(rec, step) ==
    CASE step.does = "status" -> [rec EXCEPT !.status = step.arg]
      [] step.does = "judge"  -> [rec EXCEPT !.status = step.arg,
                                     !.verdict = IF step.arg \in Judged THEN step.arg
                                                 ELSE "ERROR"]
      [] step.does = "restore" -> [rec EXCEPT !.status = rec.verdict]
      [] step.does = "event"  -> Logged(rec, step.arg)

Write(t) ==
    /\ InFlight(t)
    /\ Head(op[t].todo).does \in {"status", "judge", "restore", "event"}
    /\ Proceeds(t, Written(Rec(t), Head(op[t].todo)), Tail(op[t].todo))
    /\ UNCHANGED <<inputVars, gone, claim, asked, client, overlapped, died>>

\* Between claim and sandbox the handler uses the bundle three times.  Where another
\* handler has taken it away this raises outside the try, and the operation is lost.
NeedsBundle(t, rec, todo) ==
    IF Rec(t).bundle
    THEN Proceeds(t, rec, todo) /\ died' = died
    ELSE Ends(t) /\ stored' = stored /\ died' = TRUE

Analyze(t) ==
    /\ AtCall(t, "analyze")
    /\ NeedsBundle(t, [Rec(t) EXCEPT !.findings = risky], Analyzed)
    /\ UNCHANGED <<inputVars, gone, claim, asked, client, overlapped>>

Branch(t) ==
    /\ AtCall(t, "branch")
    /\ NeedsBundle(t, Rec(t), IF ready THEN Simulating ELSE StaticOnly)
    /\ UNCHANGED <<inputVars, gone, claim, asked, client, overlapped>>

StateLimitations(t) ==
    /\ AtCall(t, "limitations")
    /\ NeedsBundle(t, Rec(t), Tail(op[t].todo))
    /\ UNCHANGED <<inputVars, gone, claim, asked, client, overlapped>>

Simulate(t) ==
    /\ AtCall(t, "simulate")
    /\ \/ Proceeds(t, Rec(t), SimulationFailed)
       \/ /\ Rec(t).bundle
          /\ \E status \in Judged \union {"ERROR"}, runs \in SandboxRun :
                 Proceeds(t, Rec(t), Simulated(status, runs))
    /\ UNCHANGED <<inputVars, gone, claim, asked, client, overlapped, died>>

Generate(t) ==
    /\ AtCall(t, "generate")
    /\ \/ Proceeds(t, [Rec(t) EXCEPT !.plan = TRUE], Generated)
       \/ Proceeds(t, Rec(t), PlanRefused)
    /\ UNCHANGED <<inputVars, gone, claim, asked, client, overlapped, died>>

Examine(t) ==
    /\ AtCall(t, "verify")
    /\ \/ Proceeds(t, Rec(t), VerificationFailed)
       \/ /\ Rec(t).bundle
          /\ \E status \in {"VERIFIED_PLAN", "PLAN_REJECTED"} :
                 Proceeds(t, Rec(t), Verified(status))
    /\ UNCHANGED <<inputVars, gone, claim, asked, client, overlapped, died>>

\* The whole aggregate replaces the row; the archive's columns are not part of it.
Store(t) ==
    /\ stored' = IF persisted THEN [op[t].copy EXCEPT !.bundle = stored.bundle] ELSE stored
    /\ overlapped' = (overlapped \/ (persisted /\ op[t].base # stored.timeline))
    /\ op' = [op EXCEPT ![t] =
                 IF Len(@.todo) = 1 THEN Idle ELSE [@ EXCEPT !.todo = Tail(op[t].todo)]]

Commit(t) ==
    /\ AtCall(t, "save")
    /\ ~persisted \/ ~gone
    /\ Store(t)
    /\ claim' = Free
    /\ UNCHANGED <<inputVars, gone, asked, client, died>>

\* The row has been deleted: nothing is stored, and nothing erased.
CommitRefused(t) ==
    /\ AtCall(t, "save")
    /\ persisted /\ gone
    /\ Ends(t)
    /\ UNCHANGED <<inputVars, stored, gone, claim, asked, client, overlapped, died>>

Annotate(t) ==
    /\ AtCall(t, "annotate")
    /\ IF persisted /\ gone
       THEN Ends(t) /\ UNCHANGED <<stored, overlapped>>
       ELSE Store(t)
    /\ UNCHANGED <<inputVars, gone, claim, asked, client, died>>

EraseBundle(t) ==
    /\ AtCall(t, "erase")
    /\ stored' = [stored EXCEPT !.bundle = FALSE]
    /\ op' = [op EXCEPT ![t] = Idle]
    /\ UNCHANGED <<inputVars, gone, claim, asked, client, overlapped, died>>

\* A deletion, or the expiry of the report: the record loses its bundle too.
Delete ==
    /\ ~gone
    /\ gone' = TRUE
    /\ stored' = [stored EXCEPT !.bundle = FALSE]
    /\ claim' = Free
    /\ UNCHANGED <<inputVars, op, asked, client, overlapped, died>>

----------------------------------------------------------------------------
(* The generator of a stream *)

At(c, pc) == client[c].pc = pc

Connect(c) ==
    /\ At(c, "closed") /\ ~gone
    /\ \E after \in After :
         client' = [client EXCEPT ![c] = [Closed EXCEPT !.pc = "hydrate", !.after = after,
                                                        !.cursor = after]]
    /\ UNCHANGED <<inputVars, stored, gone, claim, op, asked, overlapped, died>>

\* The row is read first, and with it the status.
Hydrate(c) ==
    /\ At(c, "hydrate")
    /\ client' = [client EXCEPT ![c] =
          IF gone THEN [@ EXCEPT !.pc = "broken"]
          ELSE IF persisted
               THEN [@ EXCEPT !.pc = "timeline", !.view = [Unseen EXCEPT !.status = stored.status]]
               ELSE [@ EXCEPT !.pc = "wait"]]
    /\ UNCHANGED <<inputVars, stored, gone, claim, op, asked, overlapped, died>>

\* The timeline comes from a statement of its own, later.
HydrateTimeline(c) ==
    /\ At(c, "timeline")
    /\ client' = [client EXCEPT ![c] =
          [@ EXCEPT !.pc = "wait", !.view = [status |-> client[c].view.status,
                                             timeline |-> Timeline]]]
    /\ UNCHANGED <<inputVars, stored, gone, claim, op, asked, overlapped, died>>

\* What the waiting generator looks at: its copy, or the record that others write.
View(c) == IF persisted THEN client[c].view ELSE stored

Due(c) == Len(View(c).timeline) > client[c].cursor \/ View(c).status \in Terminal

\* The loop's next turn begins with a record of its own.
TurnEnds(c) ==
    IF View(c).status \in Terminal
    THEN [client[c] EXCEPT !.pc = "complete"]
    ELSE [client[c] EXCEPT !.pc = "hydrate", !.view = Unseen]

New(c) == SubSeq(View(c).timeline, client[c].cursor + 1, Len(View(c).timeline))

\* Mutant: the cursor counts the events of the row instead of those sent.
DeliverPastCopy(c) ==
    /\ At(c, "wait") /\ Due(c)
    /\ client' = [client EXCEPT ![c] =
          [TurnEnds(c) EXCEPT !.sent = client[c].sent \o New(c),
                              !.cursor = IF Len(stored.timeline) > client[c].cursor
                                         THEN Len(stored.timeline) ELSE client[c].cursor]]
    /\ UNCHANGED <<inputVars, stored, gone, claim, op, asked, overlapped, died>>

\* The new events and the status are read together under the lock; the cursor moves
\* to the last event's sequence number.
Deliver(c) ==
    /\ At(c, "wait") /\ Due(c)
    /\ client' = [client EXCEPT ![c] =
          [TurnEnds(c) EXCEPT !.sent = client[c].sent \o New(c),
                              !.cursor = IF New(c) = <<>> THEN client[c].cursor
                                         ELSE New(c)[Len(New(c))].sequence]]
    /\ UNCHANGED <<inputVars, stored, gone, claim, op, asked, overlapped, died>>

\* Mutant: the generator waits on with the copy it has.
HeartbeatKeepingCopy(c) ==
    /\ At(c, "wait") /\ ~Due(c)
    /\ UNCHANGED vars

\* Fifteen seconds without anything new: the next turn reads the record again.
Heartbeat(c) ==
    /\ At(c, "wait") /\ ~Due(c)
    /\ client' = [client EXCEPT ![c] = TurnEnds(c)]
    /\ UNCHANGED <<inputVars, stored, gone, claim, op, asked, overlapped, died>>

----------------------------------------------------------------------------
Operate(t) ==
    \/ Ask(t) \/ ReadFindings(t) \/ ReadTimeline(t) \/ ReadPlans(t)
    \/ AdmitRun(t) \/ AdmitPlan(t) \/ AdmitVerify(t) \/ AdmitInsight(t)
    \/ Claim(t) \/ Write(t) \/ Generate(t) \/ Examine(t)
    \/ Analyze(t) \/ Branch(t) \/ StateLimitations(t) \/ Simulate(t)
    \/ Commit(t) \/ CommitRefused(t) \/ Annotate(t) \/ EraseBundle(t)

Generator(c) == Hydrate(c) \/ HydrateTimeline(c) \/ Deliver(c) \/ Heartbeat(c)

Next ==
    \/ \E t \in Thread : Operate(t)
    \/ \E c \in Client : Connect(c) \/ Generator(c)
    \/ Delete

Spec == Init /\ [][Next]_vars

\* The condition's wait ends after fifteen seconds at the latest.
FairSpec == Spec /\ \A c \in Client : WF_vars(Generator(c))

----------------------------------------------------------------------------
(* Properties *)

\* A stream sends events with consecutive numbers from after_sequence on.  Unless a save
\* has replaced a newer row, which cannot happen without persistence, they are the
\* analysis's events in their order, none left out and none twice, whatever turns the
\* generator took and however the operations interleaved.
StreamFaithful ==
    \A c \in Client :
        LET sent == client[c].sent
            after == client[c].after
        IN  /\ client[c].cursor = after + Len(sent)
            /\ \A i \in DOMAIN sent : sent[i].sequence = after + i
            /\ ~overlapped /\ sent # <<>> =>
                 sent = SubSeq(stored.timeline, after + 1, client[c].cursor)

\* Insights apart, the timeline ends with an event of one of these types.
EndsWith(timeline, types) ==
    \E i \in DOMAIN timeline :
        /\ timeline[i].type \in types
        /\ \A j \in i + 1 .. Len(timeline) : timeline[j].type = "AI_INSIGHT_GENERATED"

\* The events that an operation ends with when it leaves a status.
Closing(status) ==
    CASE status = "STATIC_ONLY"   -> {"SIMULATION_NOT_TESTED"}
      [] status = "ERROR"         -> {"SANDBOX_ERROR", "ANALYSIS_COMPLETED",
                                      "PLAN_VERIFICATION_ERROR"}
      [] status = "PLAN_REJECTED" -> {"PLAN_REJECTED", "PLAN_VERIFICATION_COMPLETED"}
      [] status = "VERIFIED_PLAN" -> {"PLAN_VERIFICATION_COMPLETED"}
      [] OTHER                    -> {"ANALYSIS_COMPLETED", "PLAN_VERIFICATION_ERROR"}

\* The events that an operation can end with, or a creation.
Final ==
    {"BUNDLE_STAGED", "SIMULATION_NOT_TESTED", "SANDBOX_ERROR", "ANALYSIS_COMPLETED",
     "PLAN_GENERATED", "PLAN_REJECTED", "PLAN_VERIFICATION_COMPLETED", "PLAN_VERIFICATION_ERROR"}

Tells(timeline, status) == \E i \in DOMAIN timeline : timeline[i].type \in Closing(status)

\* With persistence a stream that announces completion has read a timeline that goes to
\* the end of some operation: it does not complete in the middle of one.  Although the
\* status is read before the timeline, the event that closed the operation of this very
\* status is among those it has read, unless a save has replaced a newer row.  Only the
\* stream of an analysis deleted between the two statements completes without events.
CompleteAfterLastEvent ==
    persisted =>
        \A c \in Client : At(c, "complete") /\ client[c].view.timeline # <<>> =>
            /\ EndsWith(client[c].view.timeline, Final)
            /\ ~overlapped => Tells(client[c].view.timeline, client[c].view.status)

\* When no operation is under way the analysis rests in a status from which the user or
\* the stream can go on, unless an operation died; with persistence nobody ever sees
\* another.
Settled ==
    (persisted \/ (~died /\ \A t \in Thread : ~InFlight(t)))
        => stored.status \in Terminal \union {"STAGED", "PLANNING"}

\* The calls of an operation that works towards a result, up to its save.
Working == {"analyze", "branch", "simulate", "generate", "verify", "save"}

\* The threads that have got past their claim and have not saved their result.
Holders ==
    {t \in Thread : /\ InFlight(t) /\ ~AtCall(t, "claim")
                    /\ \E i \in DOMAIN op[t].todo : op[t].todo[i].does \in Working}

Lease == INSTANCE ReportLease WITH
    Client <- Thread, Value <- Record, Start <- Staged, NoHolder <- Free, Gone <- None,
    stored  <- IF gone THEN "deleted" ELSE "present",
    content <- IF gone THEN Staged ELSE [stored EXCEPT !.bundle = TRUE],
    holder  <- IF claim \in Holders \union {Free} THEN claim ELSE None,
    stale   <- FALSE,
    working <- Holders

\* With persistence, whoever saves a result holds the lease on the analysis, although the
\* save of this model does not ask for it: as no claim lapses, operations that keep the
\* claim in step with their work are enough.
ResultsKeepLease == [][persisted => Lease!LeaseNext \/ UNCHANGED Lease!leaseVars]_vars

\* A stream of an analysis that comes to rest in a terminal status, or is deleted, ends.
StreamEnds ==
    <>[](gone \/ stored.status \in Terminal)
        => \A c \in Client : At(c, "hydrate") ~> (At(c, "complete") \/ At(c, "broken"))
=============================================================================
