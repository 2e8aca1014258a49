------------------------- MODULE TimelineStreamProofs ------------------------
(***************************************************************************)
(* A stream is faithful to its analysis, completes only after the event    *)
(* that ends an operation, an analysis comes to rest, and a result is      *)
(* saved under the claim only, for any number of threads, streams and      *)
(* operations.                                                             *)
(***************************************************************************)
EXTENDS TimelineStream, SequenceTheorems, TLAPS

----------------------------------------------------------------------------
(* Types *)

\* What comes before the handler has decided.
Reading == {"findings", "timeline", "plans"} \union Operation

Call == {"claim", "analyze", "branch", "limitations", "simulate", "generate", "verify",
         "save", "annotate", "erase", "restore"} \union Reading

\* What an operation can still have to do.
Step ==
    {step \in [does : Call \union {"status", "judge", "event"},
               arg : Status \union EventType \union {None}] :
        /\ step.does = "status" => step.arg \in Status
        /\ step.does = "judge" => step.arg \in Terminal
        /\ step.does = "event" => step.arg \in EventType}

Work == [todo : Seq(Step), copy : Record, base : Seq(Event)]

Stream == [pc : {"closed", "hydrate", "timeline", "wait", "complete", "broken"},
           after : After \union {0}, cursor : Nat,
           view : [status : Status, timeline : Seq(Event)], sent : Seq(Event)]

Types ==
    /\ persisted \in BOOLEAN /\ ready \in BOOLEAN /\ risky \in BOOLEAN
    /\ gone \in BOOLEAN /\ overlapped \in BOOLEAN /\ died \in BOOLEAN
    /\ stored \in Record
    /\ claim \in Thread \union {Free}
    /\ asked \in 0..Requests
    /\ op \in [Thread -> Work]
    /\ client \in [Client -> Stream]

----------------------------------------------------------------------------
(* What an operation still has to do, and the record it works on *)

Resting == Terminal \union {"STAGED", "PLANNING"}

Sets(step) == step.does \in {"status", "judge", "restore"}

\* The status that a step of this kind leaves.
Outcome(rec, step) == IF step.does = "restore" THEN rec.verdict ELSE step.arg

\* The operation will take this step, or one that follows from it, to a status of rest.
Owing(step) ==
    \/ step.does \in {"judge", "restore", "analyze", "branch", "simulate", "verify"}
    \/ step.does = "status" /\ step.arg \in Resting

Owes(todo) == \E i \in DOMAIN todo : Owing(todo[i])

\* The handler still reads, or has not decided yet.
Asking(todo) == \E i \in DOMAIN todo : todo[i].does \in Reading

Unread(todo) == \E i \in DOMAIN todo : todo[i].does = "timeline"

\* Nothing is known to follow the provider's answer, the erasure or the decision; a status
\* of work is left again; nothing is done before the decision.
Shape(todo) ==
    /\ \A i \in DOMAIN todo :
         /\ todo[i].does \in {"erase", "generate"} \union Operation => i = Len(todo)
         /\ todo[i].does = "status" /\ todo[i].arg \notin Resting =>
              \E j \in i + 1 .. Len(todo) : Owing(todo[j])
    /\ Asking(todo) => \A i \in DOMAIN todo : todo[i].does \in Reading

\* The timeline goes to the end of an operation.
Whole(rec) == EndsWith(rec.timeline, Final)

\* The timeline tells how the analysis got this status.
Told(timeline, status) == status \in Terminal => Tells(timeline, status)

\* What is saved is whole and tells its status: that is set by the first step, if by any,
\* and the event directly before the save closes it.
Saves(rec, todo, i) ==
    LET status == IF Sets(todo[1]) THEN Outcome(rec, todo[1]) ELSE rec.status
    IN  /\ \A j \in 2 .. i - 1 : ~Sets(todo[j])
        /\ i > 1 => todo[i - 1].does = "event" /\ todo[i - 1].arg \in Final
        /\ i = 1 => Whole(rec)
        /\ status \in Resting
        /\ status \in Terminal =>
             IF i = 1 THEN EndsWith(rec.timeline, Closing(status))
             ELSE todo[i - 1].arg \in Closing(status)

\* The record of an insight is whole; its status may be older than its timeline.
Annotates(rec, todo, i) ==
    /\ rec.status \in Resting
    /\ ~gone => Whole(rec)
    /\ ~gone /\ ~overlapped => Told(rec.timeline, rec.status)
    /\ \A j \in 1 .. i - 1 : todo[j] = Logs("AI_INSIGHT_GENERATED")

\* What has been read so far: the row, and then the timeline, which goes on from the one
\* that the row had.
Asked(rec, todo) ==
    persisted /\ Asking(todo) =>
        /\ rec.status \in Resting
        /\ ~gone /\ ~Unread(todo) => Whole(rec)
        /\ ~gone /\ ~overlapped =>
             IF Unread(todo) THEN Told(stored.timeline, rec.status)
             ELSE Told(rec.timeline, rec.status)

\* A plan is generated in the status PLANNING.
Generates(rec, todo, i) ==
    /\ \A j \in 1 .. i - 1 : Sets(todo[j]) => todo[j] = Becomes("PLANNING")
    /\ rec.status = "PLANNING" \/ \E j \in 1 .. i - 1 : todo[j] = Becomes("PLANNING")

Fit(rec, todo) ==
    \A i \in DOMAIN todo :
        /\ todo[i].does = "save" => Saves(rec, todo, i)
        /\ todo[i].does = "annotate" => Annotates(rec, todo, i)
        /\ todo[i].does = "generate" => Generates(rec, todo, i)

----------------------------------------------------------------------------
(* The inductive invariant *)

Numbered(timeline) == \A i \in DOMAIN timeline : timeline[i].sequence = i

\* The longer timeline goes on from the shorter.
Begins(timeline, longer) ==
    /\ Len(timeline) <= Len(longer)
    /\ \A i \in 1 .. Len(timeline) : timeline[i] = longer[i]

\* The private copy goes on from the row as it was read.
Worked(w) ==
    /\ Numbered(w.copy.timeline)
    /\ Begins(w.base, w.copy.timeline)
    /\ Shape(w.todo)
    /\ persisted => Fit(w.copy, w.todo)
    /\ Asked(w.copy, w.todo)

Streamed(s) ==
    /\ Numbered(s.view.timeline)
    /\ s.cursor = s.after + Len(s.sent)
    /\ \A i \in 1 .. Len(s.sent) : s.sent[i].sequence = s.after + i
    /\ persisted /\ s.pc \in {"wait", "complete"} => s.view.timeline = <<>> \/ Whole(s.view)
    /\ persisted /\ s.pc = "complete" => s.view.status \in Terminal

\* Until a save replaces a newer row, nothing that was read is taken back: the timeline
\* read after the status tells of it.
Followed(s) ==
    /\ \A i \in 1 .. Len(s.sent) :
         s.after + i <= Len(stored.timeline) /\ s.sent[i] = stored.timeline[s.after + i]
    /\ persisted /\ s.pc = "timeline" => Told(stored.timeline, s.view.status)
    /\ persisted /\ s.pc = "wait" => Begins(s.view.timeline, stored.timeline)
    /\ persisted /\ s.pc \in {"wait", "complete"} =>
         s.view.timeline = <<>> \/ Told(s.view.timeline, s.view.status)

\* Without persistence the shared record rests, or somebody will bring it to rest.
Owed ==
    ~persisted /\ ~died =>
        stored.status \in Resting \/ \E t \in Thread : Owes(op[t].todo)

\* The row.
Sound ==
    persisted =>
        /\ stored.status \in Resting /\ Whole(stored)
        /\ ~overlapped => Told(stored.timeline, stored.status)

Inv ==
    /\ Types
    /\ Numbered(stored.timeline)
    /\ Sound
    /\ \A t \in Thread : Worked(op[t])
    /\ \A c \in Client : Streamed(client[c])
    /\ ~overlapped => \A c \in Client : Followed(client[c])
    /\ Owed

----------------------------------------------------------------------------
(* The steps of the operations *)

LEMMA StepTypes ==
    /\ \A status \in Status : Becomes(status) \in Step
    /\ \A status \in Terminal : Judges(status) \in Step
    /\ \A type \in EventType : Logs(type) \in Step
    /\ \A call \in Call : Does(call) \in Step
BY DEF Step, Becomes, Judges, Logs, Does, Status, Call, Reading, Operation

\* The steps of an operation that has been decided are well-formed, and fit the record.
Fresh(rec, todo) == todo \in Seq(Step) /\ Shape(todo) /\ Fit(rec, todo) /\ ~Asking(todo)

LEMMA AnalyzedFresh == ASSUME NEW rec PROVE Fresh(rec, Analyzed)
<1>1. Logs("STATIC_ANALYSIS_COMPLETED") \in Step /\ Does("branch") \in Step
    BY StepTypes DEF EventType, Call
<1>2. Analyzed \in Seq(Step)
    BY <1>1 DEF Analyzed
<1>3. ~Asking(Analyzed)
    BY DEF Asking, Reading, Operation, Analyzed, Logs, Does
<1>4. Shape(Analyzed) /\ Fit(rec, Analyzed)
    BY <1>3 DEF Shape, Fit, Operation, Analyzed, Logs, Does
<1> QED BY <1>2, <1>3, <1>4 DEF Fresh

LEMMA StaticOnlyFresh == ASSUME NEW rec PROVE Fresh(rec, StaticOnly)
<1>1. /\ Judges("STATIC_ONLY") \in Step /\ Does("limitations") \in Step
      /\ Logs("SIMULATION_NOT_TESTED") \in Step /\ Save \in Step /\ Erase \in Step
    BY StepTypes DEF EventType, Call, Terminal, Save, Erase
<1>2. StaticOnly \in Seq(Step)
    BY <1>1 DEF StaticOnly
<1>3. ~Asking(StaticOnly)
    BY DEF Asking, Reading, Operation, StaticOnly, Judges, Logs, Does, Save, Erase
<1>4. Shape(StaticOnly)
    BY <1>3 DEF Shape, Operation, StaticOnly, Judges, Logs, Does, Save, Erase
<1>5. Fit(rec, StaticOnly)
    BY DEF Fit, Saves, StaticOnly, Judges, Logs, Does, Save, Erase, Sets, Outcome,
           Resting, Terminal, Closing, Final
<1> QED BY <1>2, <1>3, <1>4, <1>5 DEF Fresh

LEMMA SimulatingFresh == ASSUME NEW rec PROVE Fresh(rec, Simulating)
<1>1. /\ Becomes("SIMULATING") \in Step /\ Logs("SANDBOX_STARTED") \in Step
      /\ Does("simulate") \in Step
    BY StepTypes DEF Status, EventType, Call
<1>2. Simulating \in Seq(Step)
    BY <1>1 DEF Simulating
<1>3. ~Asking(Simulating)
    BY DEF Asking, Reading, Operation, Simulating, Becomes, Logs, Does
<1>4. Shape(Simulating) /\ Fit(rec, Simulating)
    BY <1>3 DEF Shape, Fit, Operation, Simulating, Becomes, Logs, Does, Owing
<1> QED BY <1>2, <1>3, <1>4 DEF Fresh

LEMMA SimulationFailedFresh == ASSUME NEW rec PROVE Fresh(rec, SimulationFailed)
<1>1. Judges("ERROR") \in Step /\ Logs("SANDBOX_ERROR") \in Step /\ Save \in Step
    BY StepTypes DEF EventType, Call, Terminal, Save
<1>2. SimulationFailed \in Seq(Step)
    BY <1>1 DEF SimulationFailed
<1>3. ~Asking(SimulationFailed)
    BY DEF Asking, Reading, Operation, SimulationFailed, Judges, Logs, Does, Save
<1>4. Shape(SimulationFailed)
    BY <1>3 DEF Shape, Operation, SimulationFailed, Judges, Logs, Does, Save
<1>5. Fit(rec, SimulationFailed)
    BY DEF Fit, Saves, SimulationFailed, Judges, Logs, Does, Save, Sets, Outcome,
           Resting, Terminal, Closing, Final
<1> QED BY <1>2, <1>3, <1>4, <1>5 DEF Fresh

LEMMA GeneratedFresh ==
    ASSUME NEW rec, rec.status = "PLANNING"
    PROVE  Fresh(rec, Generated)
<1>1. Logs("PLAN_GENERATED") \in Step /\ Save \in Step
    BY StepTypes DEF EventType, Call, Save
<1>2. Generated \in Seq(Step)
    BY <1>1 DEF Generated
<1>3. ~Asking(Generated)
    BY DEF Asking, Reading, Operation, Generated, Logs, Does, Save
<1>4. Shape(Generated)
    BY <1>3 DEF Shape, Operation, Generated, Logs, Does, Save
<1>5. "PLANNING" \notin Terminal
    BY TimelineAssumption DEF Terminal
<1>6. Fit(rec, Generated)
    BY <1>5 DEF Fit, Saves, Generated, Logs, Does, Save, Sets, Resting, Final
<1> QED BY <1>2, <1>3, <1>4, <1>6 DEF Fresh

LEMMA PlanRefusedFresh == ASSUME NEW rec PROVE Fresh(rec, PlanRefused)
<1>1. Becomes("PLAN_REJECTED") \in Step /\ Logs("PLAN_REJECTED") \in Step /\ Save \in Step
    BY StepTypes DEF Status, Terminal, EventType, Call, Save
<1>2. PlanRefused \in Seq(Step)
    BY <1>1 DEF PlanRefused
<1>3. ~Asking(PlanRefused)
    BY DEF Asking, Reading, Operation, PlanRefused, Becomes, Logs, Does, Save
<1>4. Shape(PlanRefused)
    BY <1>3 DEF Shape, Operation, PlanRefused, Becomes, Logs, Does, Save, Resting, Terminal
<1>5. Fit(rec, PlanRefused)
    BY DEF Fit, Saves, PlanRefused, Becomes, Logs, Does, Save, Sets, Outcome,
           Resting, Terminal, Closing, Final
<1> QED BY <1>2, <1>3, <1>4, <1>5 DEF Fresh

LEMMA VerifiedFresh ==
    ASSUME NEW rec, NEW status \in {"VERIFIED_PLAN", "PLAN_REJECTED"}
    PROVE  Fresh(rec, Verified(status))
<1>1. /\ Becomes(status) \in Step /\ Logs("PLAN_VERIFICATION_COMPLETED") \in Step
      /\ Save \in Step /\ Erase \in Step
    BY StepTypes DEF Status, Terminal, EventType, Call, Save, Erase
<1>2. Verified(status) \in Seq(Step)
    BY <1>1 DEF Verified
<1>3. ~Asking(Verified(status))
    BY DEF Asking, Reading, Operation, Verified, Becomes, Logs, Does, Save, Erase
<1>4. Shape(Verified(status))
    BY <1>3 DEF Shape, Operation, Verified, Becomes, Logs, Does, Save, Erase, Resting, Terminal
<1>5. Fit(rec, Verified(status))
    BY DEF Fit, Saves, Verified, Becomes, Logs, Does, Save, Erase, Sets, Outcome,
           Resting, Terminal, Closing, Final
<1> QED BY <1>2, <1>3, <1>4, <1>5 DEF Fresh

LEMMA VerificationFailedFresh ==
    ASSUME NEW rec \in Record
    PROVE  Fresh(rec, VerificationFailed)
<1>1. Does("restore") \in Step /\ Logs("PLAN_VERIFICATION_ERROR") \in Step /\ Save \in Step
    BY StepTypes DEF EventType, Call, Save
<1>2. VerificationFailed \in Seq(Step)
    BY <1>1 DEF VerificationFailed
<1>3. ~Asking(VerificationFailed)
    BY DEF Asking, Reading, Operation, VerificationFailed, Logs, Does, Save
<1>4. Shape(VerificationFailed)
    BY <1>3 DEF Shape, Operation, VerificationFailed, Logs, Does, Save
<1>5. rec.verdict \in {"ERROR"} \union Judged
    BY DEF Record
<1>6. rec.verdict \in Terminal /\ "PLAN_VERIFICATION_ERROR" \in Closing(rec.verdict)
    BY <1>5, TimelineAssumption DEF Terminal, Closing
<1>7. Fit(rec, VerificationFailed)
    BY <1>6 DEF Fit, Saves, VerificationFailed, Logs, Does, Save, Sets, Outcome, Resting, Final
<1> QED BY <1>2, <1>3, <1>4, <1>7 DEF Fresh

LEMMA InsightSteps == Insight \in Seq(Step) /\ Shape(Insight) /\ ~Asking(Insight)
<1>1. Logs("AI_INSIGHT_GENERATED") \in Step /\ Does("annotate") \in Step
    BY StepTypes DEF EventType, Call
<1>2. Insight \in Seq(Step)
    BY <1>1 DEF Insight
<1>3. ~Asking(Insight)
    BY DEF Asking, Reading, Operation, Insight, Logs, Does
<1>4. Shape(Insight)
    BY <1>3 DEF Shape, Operation, Insight, Logs, Does
<1> QED BY <1>2, <1>3, <1>4

LEMMA InsightFresh ==
    ASSUME NEW rec, rec.status \in Resting, ~gone => Whole(rec),
           ~gone /\ ~overlapped => Told(rec.timeline, rec.status)
    PROVE  Fresh(rec, Insight)
<1>1. Fit(rec, Insight)
    BY DEF Fit, Annotates, Insight, Logs, Does
<1> QED BY <1>1, InsightSteps DEF Fresh

LEMMA Prepended ==
    ASSUME NEW S, NEW a \in S, NEW b \in S, NEW c \in S, NEW d \in S
    PROVE  <<a>> \o <<b, c, d>> = <<a, b, c, d>>
<1>1. <<a>> \in Seq(S) /\ <<b, c, d>> \in Seq(S) /\ <<a, b, c, d>> \in Seq(S)
    OBVIOUS
<1>2. /\ <<a>> \o <<b, c, d>> \in Seq(S)
      /\ Len(<<a>> \o <<b, c, d>>) = Len(<<a>>) + Len(<<b, c, d>>)
      /\ \A i \in 1 .. Len(<<a>>) + Len(<<b, c, d>>) :
           (<<a>> \o <<b, c, d>>)[i]
             = IF i <= Len(<<a>>) THEN <<a>>[i] ELSE <<b, c, d>>[i - Len(<<a>>)]
    BY <1>1, ConcatProperties
<1>3. \A i \in 1..4 : (<<a>> \o <<b, c, d>>)[i] = <<a, b, c, d>>[i]
    BY <1>2
<1>4. Len(<<a>> \o <<b, c, d>>) = 4 /\ Len(<<a, b, c, d>>) = 4
    BY <1>2
<1> QED BY <1>1, <1>2, <1>3, <1>4, SeqEqual

\* What a handler with a claim sets out to do.
LEMMA ClaimedFresh ==
    ASSUME NEW rec
    PROVE  /\ Fresh(rec, <<Does("claim")>> \o Run)
           /\ Fresh(rec, <<Does("claim")>> \o Plan)
           /\ Fresh(rec, <<Does("claim")>> \o Verify)
<1>1. /\ Does("claim") \in Step /\ Does("analyze") \in Step /\ Does("generate") \in Step
      /\ Does("verify") \in Step
      /\ Becomes("ANALYZING") \in Step /\ Becomes("PLANNING") \in Step
      /\ Becomes("VERIFYING_PLAN") \in Step
      /\ Logs("STATIC_ANALYSIS_STARTED") \in Step /\ Logs("PLAN_GENERATION_STARTED") \in Step
      /\ Logs("PLAN_VERIFICATION_STARTED") \in Step
    BY StepTypes DEF EventType, Call, Status
<1>2. Fresh(rec, <<Does("claim")>> \o Run)
    <2> DEFINE todo == <<Does("claim"), Becomes("ANALYZING"), Logs("STATIC_ANALYSIS_STARTED"),
                         Does("analyze")>>
    <2>1. todo \in Seq(Step)
        BY <1>1
    <2>2. ~Asking(todo)
        BY DEF Asking, Reading, Operation, Becomes, Logs, Does
    <2>3. Shape(todo)
        BY <2>2 DEF Shape, Operation, Becomes, Logs, Does, Owing
    <2>4. Fit(rec, todo)
        BY DEF Fit, Becomes, Logs, Does
    <2>5. <<Does("claim")>> \o Run = todo
        BY <1>1, Prepended DEF Run
    <2> QED BY <2>1, <2>2, <2>3, <2>4, <2>5 DEF Fresh
<1>3. Fresh(rec, <<Does("claim")>> \o Plan)
    <2> DEFINE todo == <<Does("claim"), Becomes("PLANNING"), Logs("PLAN_GENERATION_STARTED"),
                         Does("generate")>>
    <2>1. todo \in Seq(Step)
        BY <1>1
    <2>2. ~Asking(todo)
        BY DEF Asking, Reading, Operation, Becomes, Logs, Does
    <2>3. Shape(todo)
        BY <2>2 DEF Shape, Operation, Becomes, Logs, Does, Resting
    <2>4. Fit(rec, todo)
        BY DEF Fit, Generates, Becomes, Logs, Does, Sets
    <2>5. <<Does("claim")>> \o Plan = todo
        BY <1>1, Prepended DEF Plan
    <2> QED BY <2>1, <2>2, <2>3, <2>4, <2>5 DEF Fresh
<1>4. Fresh(rec, <<Does("claim")>> \o Verify)
    <2> DEFINE todo == <<Does("claim"), Becomes("VERIFYING_PLAN"),
                         Logs("PLAN_VERIFICATION_STARTED"), Does("verify")>>
    <2>1. todo \in Seq(Step)
        BY <1>1
    <2>2. ~Asking(todo)
        BY DEF Asking, Reading, Operation, Becomes, Logs, Does
    <2>3. Shape(todo)
        BY <2>2 DEF Shape, Operation, Becomes, Logs, Does, Owing
    <2>4. Fit(rec, todo)
        BY DEF Fit, Becomes, Logs, Does
    <2>5. <<Does("claim")>> \o Verify = todo
        BY <1>1, Prepended DEF Verify
    <2> QED BY <2>1, <2>2, <2>3, <2>4, <2>5 DEF Fresh
<1> QED BY <1>2, <1>3, <1>4

LEMMA Joined ==
    ASSUME NEW S, NEW s \in Seq(S), NEW t \in Seq(S)
    PROVE  /\ s \o t \in Seq(S) /\ Len(s \o t) = Len(s) + Len(t)
           /\ \A i \in 1 .. Len(s) : (s \o t)[i] = s[i]
           /\ \A i \in 1 .. Len(t) : (s \o t)[Len(s) + i] = t[i]
BY ConcatProperties

\* The elements of the longest of these sequences.
LEMMA SimulatedSteps ==
    ASSUME NEW status \in Terminal, NEW n \in Nat, NEW todo, todo = Simulated(status, n)
    PROVE  /\ todo \in Seq(Step)
           /\ Len(todo) \in {n + 3, n + 4}
           /\ todo[1] = Judges(status)
           /\ \A i \in 2 .. n + 1 : todo[i] = Logs("SANDBOX_RUN")
           /\ todo[n + 2] = Logs("ANALYSIS_COMPLETED")
           /\ todo[n + 3] = Save
           /\ Len(todo) = n + 4 => todo[n + 4] = Erase
<1> DEFINE first == <<Judges(status)>>
           logs == [i \in 1..n |-> Logs("SANDBOX_RUN")]
           last == <<Logs("ANALYSIS_COMPLETED"), Save>>
           erasure == IF risky THEN <<>> ELSE <<Erase>>
<1>1. /\ Judges(status) \in Step /\ Logs("SANDBOX_RUN") \in Step
      /\ Logs("ANALYSIS_COMPLETED") \in Step /\ Save \in Step /\ Erase \in Step
    BY StepTypes DEF EventType, Call, Save, Erase
<1>2. first \in Seq(Step) /\ Len(first) = 1 /\ first[1] = Judges(status)
    BY <1>1
<1>3. /\ logs \in Seq(Step) /\ Len(logs) = n
      /\ \A i \in 1..n : logs[i] = Logs("SANDBOX_RUN")
    BY <1>1
<1>4. /\ last \in Seq(Step) /\ Len(last) = 2
      /\ last[1] = Logs("ANALYSIS_COMPLETED") /\ last[2] = Save
    BY <1>1
<1>5. /\ erasure \in Seq(Step) /\ Len(erasure) \in {0, 1}
      /\ Len(erasure) = 1 => erasure[1] = Erase
    BY <1>1
<1>6. todo = ((first \o logs) \o last) \o erasure
    BY DEF Simulated
<1> HIDE DEF first, logs, last, erasure
<1>7. /\ first \o logs \in Seq(Step) /\ Len(first \o logs) = 1 + n
      /\ \A i \in 1..1 : (first \o logs)[i] = first[i]
      /\ \A i \in 1..n : (first \o logs)[1 + i] = logs[i]
    <2>1. first \in Seq(Step) /\ logs \in Seq(Step)
        BY <1>2, <1>3
    <2>2. /\ first \o logs \in Seq(Step)
          /\ Len(first \o logs) = Len(first) + Len(logs)
          /\ \A i \in 1 .. Len(first) : (first \o logs)[i] = first[i]
          /\ \A i \in 1 .. Len(logs) : (first \o logs)[Len(first) + i] = logs[i]
        BY <2>1, Joined
    <2> QED BY <1>2, <1>3, <2>2
<1>8. /\ (first \o logs)[1] = Judges(status)
      /\ \A i \in 2 .. n + 1 : (first \o logs)[i] = Logs("SANDBOX_RUN")
    <2>1. ASSUME NEW i \in 2 .. n + 1 PROVE i - 1 \in 1..n /\ i = 1 + (i - 1)
        OBVIOUS
    <2> QED BY <1>2, <1>3, <1>7, <2>1
<1> DEFINE saved == (first \o logs) \o last
<1>9. /\ saved \in Seq(Step) /\ Len(saved) = (1 + n) + 2
      /\ \A i \in 1 .. 1 + n : saved[i] = (first \o logs)[i]
      /\ \A i \in 1..2 : saved[(1 + n) + i] = last[i]
    <2>1. (first \o logs) \in Seq(Step) /\ last \in Seq(Step)
        BY <1>4, <1>7
    <2>2. /\ (first \o logs) \o last \in Seq(Step)
          /\ Len((first \o logs) \o last) = Len((first \o logs)) + Len(last)
          /\ \A i \in 1 .. Len((first \o logs)) : ((first \o logs) \o last)[i] = (first \o logs)[i]
          /\ \A i \in 1 .. Len(last) : ((first \o logs) \o last)[Len((first \o logs)) + i] = last[i]
        BY <2>1, Joined
    <2> QED BY <1>4, <1>7, <2>2
<1> HIDE DEF saved
<1>10. /\ todo \in Seq(Step) /\ Len(todo) = (n + 3) + Len(erasure)
       /\ \A i \in 1 .. n + 3 : todo[i] = saved[i]
       /\ \A i \in 1 .. Len(erasure) : todo[(n + 3) + i] = erasure[i]
    <2>1. saved \in Seq(Step) /\ erasure \in Seq(Step)
        BY <1>5, <1>9
    <2>2. /\ saved \o erasure \in Seq(Step)
          /\ Len(saved \o erasure) = Len(saved) + Len(erasure)
          /\ \A i \in 1 .. Len(saved) : (saved \o erasure)[i] = saved[i]
          /\ \A i \in 1 .. Len(erasure) : (saved \o erasure)[Len(saved) + i] = erasure[i]
        BY <2>1, Joined
    <2>3. todo = saved \o erasure
        BY <1>6 DEF saved
    <2>4. Len(saved) = n + 3 /\ Len(erasure) \in Nat
        BY <1>5, <1>9
    <2> QED BY <2>2, <2>3, <2>4
<1>11. /\ saved[1] = Judges(status)
       /\ \A i \in 2 .. n + 1 : saved[i] = Logs("SANDBOX_RUN")
       /\ saved[n + 2] = Logs("ANALYSIS_COMPLETED") /\ saved[n + 3] = Save
    <2>1. /\ 1 \in 1 .. 1 + n
          /\ \A i \in 2 .. n + 1 : i \in 1 .. 1 + n
          /\ (1 + n) + 1 = n + 2 /\ (1 + n) + 2 = n + 3
        OBVIOUS
    <2>2. saved[(1 + n) + 1] = last[1] /\ saved[(1 + n) + 2] = last[2]
        BY <1>9
    <2> QED BY <1>4, <1>8, <1>9, <2>1, <2>2
<1>12. Len(todo) = n + 4 => todo[n + 4] = Erase
    BY <1>5, <1>10
<1>13. /\ 1 \in 1 .. n + 3 /\ n + 2 \in 1 .. n + 3 /\ n + 3 \in 1 .. n + 3
       /\ \A i \in 2 .. n + 1 : i \in 1 .. n + 3
    OBVIOUS
<1>14. /\ todo[1] = Judges(status) /\ todo[n + 2] = Logs("ANALYSIS_COMPLETED")
       /\ todo[n + 3] = Save /\ \A i \in 2 .. n + 1 : todo[i] = Logs("SANDBOX_RUN")
    BY <1>10, <1>11, <1>13
<1>15. Len(todo) \in {n + 3, n + 4}
    BY <1>5, <1>10
<1> QED BY <1>10, <1>12, <1>14, <1>15

LEMMA SimulatedFresh ==
    ASSUME NEW rec, NEW status \in Judged \union {"ERROR"}, NEW n \in Nat
    PROVE  Fresh(rec, Simulated(status, n))
<1> DEFINE todo == Simulated(status, n)
<1>1. status \in Terminal
    BY DEF Terminal
<1>2. /\ todo \in Seq(Step)
      /\ Len(todo) \in {n + 3, n + 4}
      /\ todo[1] = Judges(status)
      /\ \A i \in 2 .. n + 1 : todo[i] = Logs("SANDBOX_RUN")
      /\ todo[n + 2] = Logs("ANALYSIS_COMPLETED")
      /\ todo[n + 3] = Save
      /\ Len(todo) = n + 4 => todo[n + 4] = Erase
    BY <1>1, SimulatedSteps
<1>3. "ANALYSIS_COMPLETED" \in Closing(status)
    BY TimelineAssumption DEF Closing
<1> HIDE DEF todo
<1>4. ASSUME NEW i \in DOMAIN todo
      PROVE  \/ i = 1
             \/ i \in 2 .. n + 2 /\ todo[i].does = "event"
             \/ i = n + 3
             \/ i = n + 4 /\ Len(todo) = n + 4
    <2>1. i \in 1 .. Len(todo)
        BY <1>2
    <2>2. \A j \in 2 .. n + 2 : todo[j].does = "event"
        BY <1>2 DEF Logs
    <2> QED BY <1>2, <2>1, <2>2
<1>5. ~Asking(todo)
    BY <1>2, <1>4 DEF Asking, Reading, Operation, Judges, Save, Erase, Does
<1>6. Shape(todo)
    BY <1>2, <1>4, <1>5 DEF Shape, Operation, Judges, Save, Erase, Does
<1>7. Fit(rec, todo)
    <2>1. ASSUME NEW i \in DOMAIN todo, todo[i].does = "save" PROVE i = n + 3
        <3>1. i # 1
            BY <1>2, <2>1 DEF Judges
        <3>2. ~(i = n + 4 /\ Len(todo) = n + 4)
            BY <1>2, <2>1 DEF Erase, Does
        <3> QED BY <1>4, <2>1, <3>1, <3>2
    <2>2. ASSUME NEW i \in DOMAIN todo PROVE todo[i].does \notin {"annotate", "generate"}
        BY <1>2, <1>4 DEF Judges, Save, Erase, Does
    <2>3. Saves(rec, todo, n + 3)
        <3>1. Sets(todo[1]) /\ Outcome(rec, todo[1]) = status
            BY <1>2 DEF Sets, Outcome, Judges
        <3>2. \A j \in 2 .. (n + 3) - 1 : ~Sets(todo[j])
            BY <1>2 DEF Sets, Logs
        <3>3. todo[(n + 3) - 1] = Logs("ANALYSIS_COMPLETED")
            BY <1>2
        <3> QED BY <1>1, <1>3, <3>1, <3>2, <3>3 DEF Saves, Resting, Logs, Final
    <2> QED BY <2>1, <2>2, <2>3 DEF Fit
<1> QED BY <1>2, <1>5, <1>6, <1>7 DEF Fresh, todo

----------------------------------------------------------------------------
(* Timelines *)

LEMMA LoggedRecord ==
    ASSUME NEW rec \in Record, NEW type \in EventType
    PROVE  /\ Logged(rec, type) \in Record
           /\ Logged(rec, type).status = rec.status
           /\ Len(Logged(rec, type).timeline) = Len(rec.timeline) + 1
           /\ Begins(rec.timeline, Logged(rec, type).timeline)
           /\ Logged(rec, type).timeline[Len(rec.timeline) + 1]
                = [sequence |-> Len(rec.timeline) + 1, type |-> type]
           /\ Numbered(rec.timeline) => Numbered(Logged(rec, type).timeline)
<1> DEFINE event == [sequence |-> Len(rec.timeline) + 1, type |-> type]
           timeline == Append(rec.timeline, event)
<1>1. rec.timeline \in Seq(Event) /\ Len(rec.timeline) \in Nat
    BY DEF Record
<1>2. event \in Event
    BY <1>1 DEF Event
<1>3. /\ timeline \in Seq(Event) /\ Len(timeline) = Len(rec.timeline) + 1
      /\ \A i \in 1 .. Len(rec.timeline) : timeline[i] = rec.timeline[i]
      /\ timeline[Len(rec.timeline) + 1] = event
    BY <1>1, <1>2, AppendProperties
<1>4. Logged(rec, type) = [rec EXCEPT !.timeline = timeline]
    BY DEF Logged
<1>5. event.sequence = Len(rec.timeline) + 1
    OBVIOUS
<1> HIDE DEF event, timeline
<1>6. Logged(rec, type) \in Record /\ Logged(rec, type).timeline = timeline
      /\ Logged(rec, type).status = rec.status
    BY <1>3, <1>4 DEF Record
<1>7. Numbered(rec.timeline) => Numbered(timeline)
    BY <1>1, <1>3, <1>5 DEF Numbered
<1>8. Begins(rec.timeline, timeline)
    BY <1>1, <1>3 DEF Begins
<1> QED BY <1>3, <1>6, <1>7, <1>8 DEF event

LEMMA BeginsItself ==
    ASSUME NEW timeline \in Seq(Event)
    PROVE  Begins(timeline, timeline)
BY DEF Begins

LEMMA BeginsTransitive ==
    ASSUME NEW a \in Seq(Event), NEW b \in Seq(Event), NEW c \in Seq(Event),
           Begins(a, b), Begins(b, c)
    PROVE  Begins(a, c)
BY DEF Begins

\* An event of these types ends the timeline, and an insight changes nothing about it.
LEMMA LoggedEnds ==
    ASSUME NEW rec \in Record, NEW type \in EventType, NEW types
    PROVE  /\ type \in types => EndsWith(Logged(rec, type).timeline, types)
           /\ type = "AI_INSIGHT_GENERATED" /\ EndsWith(rec.timeline, types)
                => EndsWith(Logged(rec, type).timeline, types)
<1> DEFINE timeline == Logged(rec, type).timeline
           n == Len(rec.timeline)
<1>1. /\ timeline \in Seq(Event) /\ Len(timeline) = n + 1 /\ n \in Nat
      /\ \A i \in 1..n : timeline[i] = rec.timeline[i]
      /\ timeline[n + 1].type = type
      /\ rec.timeline \in Seq(Event)
    <2>1. rec.timeline \in Seq(Event) /\ n \in Nat
        BY DEF Record
    <2>2. timeline \in Seq(Event)
        BY LoggedRecord DEF Record
    <2>3. timeline[n + 1] = [sequence |-> n + 1, type |-> type]
        BY LoggedRecord
    <2>4. Len(timeline) = n + 1 /\ Begins(rec.timeline, timeline)
        BY LoggedRecord
    <2> QED BY <2>1, <2>2, <2>3, <2>4 DEF Begins
<1> HIDE DEF timeline, n
<1>2. DOMAIN timeline = 1 .. n + 1 /\ DOMAIN rec.timeline = 1..n
    BY <1>1 DEF n
<1>3. ASSUME type \in types PROVE EndsWith(timeline, types)
    BY <1>1, <1>2, <1>3 DEF EndsWith
<1>4. ASSUME type = "AI_INSIGHT_GENERATED", EndsWith(rec.timeline, types)
      PROVE  EndsWith(timeline, types)
    <2>1. PICK i \in 1..n :
            /\ rec.timeline[i].type \in types
            /\ \A j \in i + 1 .. n : rec.timeline[j].type = "AI_INSIGHT_GENERATED"
        BY <1>2, <1>4 DEF EndsWith, n
    <2>2. timeline[i].type \in types
        BY <1>1, <2>1
    <2>3. \A j \in i + 1 .. n + 1 : timeline[j].type = "AI_INSIGHT_GENERATED"
        BY <1>1, <1>4, <2>1
    <2> QED BY <1>1, <1>2, <2>2, <2>3 DEF EndsWith
<1> QED BY <1>3, <1>4 DEF timeline

\* What the timeline of a row has told stays told.
LEMMA ToldMore ==
    ASSUME NEW a \in Seq(Event), NEW b \in Seq(Event), Begins(a, b), NEW status,
           Told(a, status)
    PROVE  Told(b, status)
BY DEF Begins, Told, Tells

LEMMA ClosedTells ==
    ASSUME NEW timeline, NEW status, EndsWith(timeline, Closing(status))
    PROVE  Told(timeline, status)
BY DEF EndsWith, Told, Tells

----------------------------------------------------------------------------
(* Taking a step *)

LEMMA Rest ==
    ASSUME NEW todo \in Seq(Step), todo # <<>>
    PROVE  /\ Len(todo) \in Nat \ {0} /\ Head(todo) = todo[1] /\ todo[1] \in Step
           /\ DOMAIN todo = 1 .. Len(todo)
           /\ Tail(todo) \in Seq(Step) /\ Len(Tail(todo)) = Len(todo) - 1
           /\ DOMAIN Tail(todo) = 1 .. Len(todo) - 1
           /\ \A i \in 1 .. Len(todo) - 1 : Tail(todo)[i] = todo[i + 1]
<1>1. Len(todo) \in Nat \ {0} /\ Head(todo) = todo[1] /\ todo[1] \in Step
    OBVIOUS
<1> QED BY <1>1, HeadTailProperties

LEMMA ShapeOfRest ==
    ASSUME NEW todo \in Seq(Step), todo # <<>>, Shape(todo)
    PROVE  Shape(Tail(todo))
<1> DEFINE rest == Tail(todo)
           n == Len(todo)
<1>1. /\ n \in Nat \ {0} /\ DOMAIN todo = 1..n
      /\ Len(rest) = n - 1 /\ DOMAIN rest = 1 .. n - 1
      /\ \A i \in 1 .. n - 1 : rest[i] = todo[i + 1]
    BY Rest
<1> HIDE DEF rest, n
<1>0. Asking(rest) => \A i \in 1 .. n - 1 : rest[i].does \in Reading
    <2>1. \A i \in 1 .. n - 1 : i + 1 \in DOMAIN todo
        BY <1>1
    <2>2. Asking(rest) => Asking(todo)
        BY <1>1, <2>1 DEF Asking
    <2> QED BY <1>1, <2>1, <2>2 DEF Shape
<1> SUFFICES ASSUME NEW i \in 1 .. n - 1
             PROVE  /\ rest[i].does \in {"erase", "generate"} \union Operation => i = n - 1
                    /\ rest[i].does = "status" /\ rest[i].arg \notin Resting =>
                         \E j \in i + 1 .. n - 1 : Owing(rest[j])
    BY <1>0, <1>1 DEF Shape, rest
<1>2. i + 1 \in 1..n /\ rest[i] = todo[i + 1]
    BY <1>1
<1>3. /\ todo[i + 1].does \in {"erase", "generate"} \union Operation => i + 1 = n
      /\ todo[i + 1].does = "status" /\ todo[i + 1].arg \notin Resting =>
           \E j \in (i + 1) + 1 .. n : Owing(todo[j])
    BY <1>1, <1>2 DEF Shape, n
<1>4. ASSUME NEW j \in (i + 1) + 1 .. n, Owing(todo[j])
      PROVE  \E k \in i + 1 .. n - 1 : Owing(rest[k])
    <2>1. j - 1 \in i + 1 .. n - 1 /\ rest[j - 1] = todo[j]
        BY <1>1
    <2> QED BY <1>4, <2>1
<1> QED BY <1>1, <1>2, <1>3, <1>4

\* After the decision nothing is read.
LEMMA DecidedRest ==
    ASSUME NEW todo \in Seq(Step), todo # <<>>, Shape(todo), todo[1].does \notin Reading
    PROVE  ~Asking(Tail(todo))
<1>1. ~Asking(todo)
    BY Rest DEF Shape
<1>2. \A i \in 1 .. Len(todo) - 1 : i + 1 \in DOMAIN todo /\ Tail(todo)[i] = todo[i + 1]
    BY Rest
<1> QED BY <1>1, <1>2, Rest DEF Asking

LEMMA UnreadRest ==
    ASSUME NEW todo \in Seq(Step), todo # <<>>
    PROVE  /\ Unread(Tail(todo)) => Unread(todo)
           /\ todo[1].does # "timeline" /\ Unread(todo) => Unread(Tail(todo))
<1>1. \A i \in 1 .. Len(todo) - 1 : i + 1 \in DOMAIN todo /\ Tail(todo)[i] = todo[i + 1]
    BY Rest
<1>2. Unread(Tail(todo)) => Unread(todo)
    BY <1>1, Rest DEF Unread
<1>3. ASSUME todo[1].does # "timeline", Unread(todo)
      PROVE  Unread(Tail(todo))
    <2>1. PICK i \in 1 .. Len(todo) : todo[i].does = "timeline"
        BY <1>3, Rest DEF Unread
    <2>2. i - 1 \in 1 .. Len(todo) - 1 /\ Tail(todo)[i - 1] = todo[i]
        BY <1>3, <2>1, Rest
    <2> QED BY <2>1, <2>2, Rest DEF Unread
<1> QED BY <1>2, <1>3

\* A step that writes nothing is passed; the record keeps its status.
LEMMA FitAfterCall ==
    ASSUME NEW todo \in Seq(Step), todo # <<>>, NEW rec, NEW rec2, Fit(rec, todo),
           ~Sets(todo[1]), todo[1].does # "event", rec2.status = rec.status
    PROVE  Fit(rec2, Tail(todo))
<1> DEFINE rest == Tail(todo)
           n == Len(todo)
<1>1. /\ n \in Nat \ {0} /\ DOMAIN todo = 1..n
      /\ DOMAIN rest = 1 .. n - 1
      /\ \A i \in 1 .. n - 1 : rest[i] = todo[i + 1]
    BY Rest
<1> HIDE DEF rest, n
<1> SUFFICES ASSUME NEW i \in 1 .. n - 1
             PROVE  /\ rest[i].does = "save" => Saves(rec2, rest, i)
                    /\ rest[i].does = "annotate" => Annotates(rec2, rest, i)
                    /\ rest[i].does = "generate" => Generates(rec2, rest, i)
    BY <1>1 DEF Fit, rest
<1>2. i + 1 \in 1..n /\ rest[i] = todo[i + 1] /\ rest[1] = todo[2] /\ (i + 1) - 1 = i
    BY <1>1
<1>3. \A j \in 1 .. i - 1 : rest[j] = todo[j + 1]
    BY <1>1
<1>4. ASSUME rest[i].does = "save" PROVE Saves(rec2, rest, i)
    <2>1. Saves(rec, todo, i + 1)
        BY <1>1, <1>2, <1>4 DEF Fit
    <2>2. i > 1
        BY <1>2, <2>1 DEF Saves
    <2>3. \A j \in 2 .. i - 1 : ~Sets(rest[j])
        BY <1>3, <2>1 DEF Saves
    <2>4. ~Sets(rest[1])
        BY <1>2, <2>1, <2>2 DEF Saves
    <2>5. rest[i - 1] = todo[i]
        BY <1>3, <2>2
    <2> QED BY <1>2, <2>1, <2>2, <2>3, <2>4, <2>5 DEF Saves
<1>5. rest[i].does # "annotate"
    <2>1. ASSUME rest[i].does = "annotate" PROVE FALSE
        <3>1. Annotates(rec, todo, i + 1)
            BY <1>1, <1>2, <2>1 DEF Fit
        <3>2. todo[1] = Logs("AI_INSIGHT_GENERATED")
            BY <1>2, <3>1 DEF Annotates
        <3> QED BY <3>2 DEF Logs
    <2> QED BY <2>1
<1>6. ASSUME rest[i].does = "generate" PROVE Generates(rec2, rest, i)
    <2>1. Generates(rec, todo, i + 1)
        BY <1>1, <1>2, <1>6 DEF Fit
    <2>2. \A j \in 1 .. i - 1 : Sets(rest[j]) => rest[j] = Becomes("PLANNING")
        BY <1>2, <1>3, <2>1 DEF Generates
    <2>3. ASSUME NEW j \in 1..i, todo[j] = Becomes("PLANNING")
          PROVE  \E k \in 1 .. i - 1 : rest[k] = Becomes("PLANNING")
        <3>1. j # 1
            BY <2>3 DEF Becomes, Sets
        <3>2. j - 1 \in 1 .. i - 1 /\ rest[j - 1] = todo[j]
            BY <1>3, <3>1
        <3> QED BY <2>3, <3>2
    <2> QED BY <1>2, <2>1, <2>2, <2>3 DEF Generates
<1> QED BY <1>4, <1>5, <1>6

Writing(step) == step.does \in {"status", "judge", "restore", "event"}

LEMMA WrittenRecord ==
    ASSUME NEW rec \in Record, NEW step \in Step, Writing(step)
    PROVE  /\ Written(rec, step) \in Record
           /\ Begins(rec.timeline, Written(rec, step).timeline)
           /\ Numbered(rec.timeline) => Numbered(Written(rec, step).timeline)
           /\ Sets(step) => Written(rec, step).status = Outcome(rec, step)
           /\ step.does = "event" => Written(rec, step) = Logged(rec, step.arg)
<1>1. CASE step.does = "event"
    <2>1. step.arg \in EventType /\ Written(rec, step) = Logged(rec, step.arg)
        BY <1>1 DEF Step, Written
    <2> QED BY <1>1, <2>1, LoggedRecord DEF Sets
<1>2. CASE Sets(step)
    <2>1. Outcome(rec, step) \in Status
        BY <1>2 DEF Sets, Outcome, Step, Status, Record, Terminal
    <2>2. /\ Written(rec, step).timeline = rec.timeline
          /\ Written(rec, step).status = Outcome(rec, step)
          /\ Written(rec, step) \in Record
        BY <1>2, <2>1 DEF Sets, Outcome, Written, Record
    <2>3. rec.timeline \in Seq(Event) /\ step.does # "event"
        BY <1>2 DEF Record, Sets
    <2> QED BY <2>2, <2>3, BeginsItself
<1> QED BY <1>1, <1>2 DEF Writing, Sets

LEMMA FitAfterEvent ==
    ASSUME NEW todo \in Seq(Step), todo # <<>>, NEW rec \in Record, Fit(rec, todo),
           todo[1].does = "event"
    PROVE  Fit(Logged(rec, todo[1].arg), Tail(todo))
<1> DEFINE rest == Tail(todo)
           n == Len(todo)
           type == todo[1].arg
           rec2 == Logged(rec, type)
<1>1. /\ n \in Nat \ {0} /\ DOMAIN todo = 1..n /\ todo[1] \in Step
      /\ DOMAIN rest = 1 .. n - 1
      /\ \A i \in 1 .. n - 1 : rest[i] = todo[i + 1]
    BY Rest
<1>2. type \in EventType /\ ~Sets(todo[1])
    BY <1>1 DEF Step, Sets
<1>3. rec2.status = rec.status
    BY <1>2, LoggedRecord
<1>4. \A types : type \in types => EndsWith(rec2.timeline, types)
    BY <1>2, LoggedEnds
<1>5. /\ type = "AI_INSIGHT_GENERATED" /\ Whole(rec) => Whole(rec2)
      /\ Told(rec.timeline, rec.status) => Told(rec2.timeline, rec2.status)
    <2>1. type = "AI_INSIGHT_GENERATED" /\ Whole(rec) => Whole(rec2)
        BY <1>2, LoggedEnds DEF Whole
    <2>2. /\ rec.timeline \in Seq(Event) /\ rec2.timeline \in Seq(Event)
          /\ Begins(rec.timeline, rec2.timeline)
        BY <1>2, LoggedRecord DEF Record
    <2> QED BY <1>3, <2>1, <2>2, ToldMore
<1> HIDE DEF rest, n, rec2
<1> SUFFICES ASSUME NEW i \in 1 .. n - 1
             PROVE  /\ rest[i].does = "save" => Saves(rec2, rest, i)
                    /\ rest[i].does = "annotate" => Annotates(rec2, rest, i)
                    /\ rest[i].does = "generate" => Generates(rec2, rest, i)
    BY <1>1 DEF Fit, rest, rec2
<1>6. i + 1 \in 1..n /\ rest[i] = todo[i + 1] /\ rest[1] = todo[2] /\ (i + 1) - 1 = i
    BY <1>1
<1>7. \A j \in 1 .. i - 1 : rest[j] = todo[j + 1]
    BY <1>1
<1>8. ASSUME rest[i].does = "save" PROVE Saves(rec2, rest, i)
    <2>1. Saves(rec, todo, i + 1)
        BY <1>1, <1>6, <1>8 DEF Fit
    <2>2. rec.status \in Resting /\ (rec.status \in Terminal => todo[i].arg \in Closing(rec.status))
        BY <1>2, <1>6, <2>1 DEF Saves
    <2>3. ~Sets(rest[1])
        <3>1. CASE i = 1
            BY <1>8, <3>1 DEF Sets
        <3>2. CASE i > 1
            BY <1>6, <2>1, <3>2 DEF Saves
        <3> QED BY <3>1, <3>2
    <2>4. \A j \in 2 .. i - 1 : ~Sets(rest[j])
        BY <1>7, <2>1 DEF Saves
    <2>5. i > 1 => rest[i - 1] = todo[i] /\ todo[i].does = "event"
        BY <1>6, <1>7, <2>1 DEF Saves
    <2>6. i = 1 /\ rec.status \in Terminal => EndsWith(rec2.timeline, Closing(rec.status))
        BY <1>4, <2>2
    <2>7. todo[i].arg \in Final /\ (i = 1 => Whole(rec2))
        BY <1>4, <1>6, <2>1 DEF Saves, Whole
    <2> QED BY <1>3, <2>2, <2>3, <2>4, <2>5, <2>6, <2>7 DEF Saves
<1>9. ASSUME rest[i].does = "annotate" PROVE Annotates(rec2, rest, i)
    <2>1. Annotates(rec, todo, i + 1)
        BY <1>1, <1>6, <1>9 DEF Fit
    <2>2. todo[1] = Logs("AI_INSIGHT_GENERATED")
        BY <1>6, <2>1 DEF Annotates
    <2>3. \A j \in 1 .. i - 1 : rest[j] = Logs("AI_INSIGHT_GENERATED")
        BY <1>6, <1>7, <2>1 DEF Annotates
    <2>4. /\ ~gone => Whole(rec2)
          /\ ~gone /\ ~overlapped => Told(rec2.timeline, rec2.status)
        BY <1>5, <2>1, <2>2 DEF Annotates, Logs
    <2> QED BY <1>3, <2>1, <2>3, <2>4 DEF Annotates
<1>10. ASSUME rest[i].does = "generate" PROVE Generates(rec2, rest, i)
    <2>1. Generates(rec, todo, i + 1)
        BY <1>1, <1>6, <1>10 DEF Fit
    <2>2. \A j \in 1 .. i - 1 : Sets(rest[j]) => rest[j] = Becomes("PLANNING")
        BY <1>6, <1>7, <2>1 DEF Generates
    <2>3. ASSUME NEW j \in 1..i, todo[j] = Becomes("PLANNING")
          PROVE  \E k \in 1 .. i - 1 : rest[k] = Becomes("PLANNING")
        <3>1. j # 1
            BY <1>2, <2>3 DEF Becomes, Sets
        <3>2. j - 1 \in 1 .. i - 1 /\ rest[j - 1] = todo[j]
            BY <1>7, <3>1
        <3> QED BY <2>3, <3>2
    <2> QED BY <1>3, <1>6, <2>1, <2>2, <2>3 DEF Generates
<1> QED BY <1>8, <1>9, <1>10

LEMMA FitAfterSetting ==
    ASSUME NEW todo \in Seq(Step), todo # <<>>, NEW rec, NEW rec2, Fit(rec, todo),
           Sets(todo[1]), rec2.status = Outcome(rec, todo[1])
    PROVE  Fit(rec2, Tail(todo))
<1> DEFINE rest == Tail(todo)
           n == Len(todo)
<1>1. /\ n \in Nat \ {0} /\ DOMAIN todo = 1..n
      /\ DOMAIN rest = 1 .. n - 1
      /\ \A i \in 1 .. n - 1 : rest[i] = todo[i + 1]
    BY Rest
<1>2. todo[1].does # "event"
    BY DEF Sets
<1> HIDE DEF rest, n
<1> SUFFICES ASSUME NEW i \in 1 .. n - 1
             PROVE  /\ rest[i].does = "save" => Saves(rec2, rest, i)
                    /\ rest[i].does = "annotate" => Annotates(rec2, rest, i)
                    /\ rest[i].does = "generate" => Generates(rec2, rest, i)
    BY <1>1 DEF Fit, rest
<1>3. i + 1 \in 1..n /\ rest[i] = todo[i + 1] /\ rest[1] = todo[2] /\ (i + 1) - 1 = i
    BY <1>1
<1>4. \A j \in 1 .. i - 1 : rest[j] = todo[j + 1]
    BY <1>1
<1>5. ASSUME rest[i].does = "save" PROVE Saves(rec2, rest, i)
    <2>1. Saves(rec, todo, i + 1)
        BY <1>1, <1>3, <1>5 DEF Fit
    <2>2. i > 1
        BY <1>2, <1>3, <2>1 DEF Saves
    <2>3. ~Sets(rest[1]) /\ \A j \in 2 .. i - 1 : ~Sets(rest[j])
        BY <1>3, <1>4, <2>1, <2>2 DEF Saves
    <2>4. rest[i - 1] = todo[i]
        BY <1>4, <2>2
    <2> QED BY <1>3, <2>1, <2>2, <2>3, <2>4 DEF Saves
<1>6. rest[i].does # "annotate"
    <2>1. ASSUME rest[i].does = "annotate" PROVE FALSE
        <3>1. Annotates(rec, todo, i + 1)
            BY <1>1, <1>3, <2>1 DEF Fit
        <3>2. todo[1] = Logs("AI_INSIGHT_GENERATED")
            BY <1>3, <3>1 DEF Annotates
        <3> QED BY <3>2 DEF Logs, Sets
    <2> QED BY <2>1
<1>7. ASSUME rest[i].does = "generate" PROVE Generates(rec2, rest, i)
    <2>1. Generates(rec, todo, i + 1)
        BY <1>1, <1>3, <1>7 DEF Fit
    <2>2. \A j \in 1 .. i - 1 : Sets(rest[j]) => rest[j] = Becomes("PLANNING")
        BY <1>3, <1>4, <2>1 DEF Generates
    <2>3. todo[1] = Becomes("PLANNING")
        BY <1>3, <2>1 DEF Generates
    <2>4. rec2.status = "PLANNING"
        BY <2>3 DEF Outcome, Becomes
    <2> QED BY <2>2, <2>4 DEF Generates
<1> QED BY <1>5, <1>6, <1>7

\* What is about to be saved, or annotated.
LEMMA SavedWhole ==
    ASSUME NEW todo \in Seq(Step), todo # <<>>, NEW rec, Fit(rec, todo),
           todo[1].does \in {"save", "annotate"}
    PROVE  /\ rec.status \in Resting
           /\ ~gone => Whole(rec)
           /\ ~gone /\ ~overlapped => Told(rec.timeline, rec.status)
<1>1. 1 \in DOMAIN todo
    BY Rest
<1>2. CASE todo[1].does = "save"
    <2>1. /\ rec.status \in Resting /\ Whole(rec)
          /\ rec.status \in Terminal => EndsWith(rec.timeline, Closing(rec.status))
        BY <1>1, <1>2 DEF Fit, Saves, Sets
    <2> QED BY <2>1, ClosedTells DEF Told
<1>3. CASE todo[1].does = "annotate"
    BY <1>1, <1>3 DEF Fit, Annotates
<1> QED BY <1>2, <1>3

LEMMA GeneratingPlans ==
    ASSUME NEW todo \in Seq(Step), todo # <<>>, NEW rec, Fit(rec, todo),
           todo[1].does = "generate"
    PROVE  rec.status = "PLANNING"
BY Rest DEF Fit, Generates

\* Who owes a status of rest goes on owing it, until it is set.
LEMMA OwesRest ==
    ASSUME NEW todo \in Seq(Step), todo # <<>>, Owes(todo), ~Owing(todo[1])
    PROVE  Owes(Tail(todo))
<1>1. PICK i \in 1 .. Len(todo) : Owing(todo[i])
    BY Rest DEF Owes
<1>2. i - 1 \in 1 .. Len(todo) - 1 /\ Tail(todo)[i - 1] = todo[i]
    BY <1>1, Rest
<1> QED BY <1>1, <1>2, Rest DEF Owes

LEMMA OwesMore ==
    ASSUME NEW todo \in Seq(Step), todo # <<>>, Owes(Tail(todo))
    PROVE  Len(todo) # 1
<1>1. DOMAIN Tail(todo) = 1 .. Len(todo) - 1
    BY Rest
<1>2. Len(todo) = 1 => DOMAIN Tail(todo) = {}
    BY <1>1
<1>3. DOMAIN Tail(todo) # {}
    BY DEF Owes
<1> QED BY <1>2, <1>3

LEMMA WorkOwesRest ==
    ASSUME NEW todo \in Seq(Step), todo # <<>>, Shape(todo),
           todo[1].does = "status", todo[1].arg \notin Resting
    PROVE  Owes(Tail(todo))
<1>1. PICK i \in 2 .. Len(todo) : Owing(todo[i])
    BY Rest DEF Shape
<1>2. i - 1 \in 1 .. Len(todo) - 1 /\ Tail(todo)[i - 1] = todo[i]
    BY <1>1, Rest
<1> QED BY <1>1, <1>2, Rest DEF Owes

LEMMA LastCall ==
    ASSUME NEW todo \in Seq(Step), todo # <<>>, Shape(todo),
           todo[1].does \in {"erase", "generate"} \union Operation
    PROVE  ~Owes(todo) /\ ~Unread(todo) /\ (Asking(todo) <=> todo[1].does \in Operation)
<1> DEFINE n == Len(todo)
<1>1. DOMAIN todo = 1..n /\ n \in Nat \ {0}
    BY Rest
<1>2. 1 = n
    BY <1>1 DEF Shape
<1> HIDE DEF n
<1>3. 1 \in DOMAIN todo /\ \A i \in DOMAIN todo : i = 1
    BY <1>1, <1>2
<1>4. ~Owes(todo) /\ ~Unread(todo)
    BY <1>3 DEF Owes, Owing, Unread, Operation
<1>5. Asking(todo) <=> todo[1].does \in Operation
    BY <1>3 DEF Asking, Reading, Operation
<1> QED BY <1>4, <1>5

----------------------------------------------------------------------------
(* What every operation keeps *)

LEMMA StagedRecord ==
    /\ Staged \in Record /\ Numbered(Staged.timeline) /\ Whole(Staged)
    /\ Staged.status \in Resting /\ Staged.status \notin Terminal
<1>1. Staged.timeline \in Seq(Event)
    BY DEF Staged, Event, EventType
<1>2. Staged \in Record
    BY <1>1 DEF Staged, Record, Status
<1>3. Numbered(Staged.timeline)
    BY DEF Staged, Numbered
<1>4. Staged.status \notin Terminal /\ Staged.status \in Resting
    BY TimelineAssumption DEF Staged, Terminal, Resting
<1>5. Whole(Staged)
    BY DEF Staged, Whole, EndsWith, Final
<1> QED BY <1>2, <1>3, <1>4, <1>5

LEMMA UnseenView ==
    /\ Unseen \in [status : Status, timeline : Seq(Event)]
    /\ Unseen.timeline = <<>> /\ Numbered(<<>>)
BY DEF Unseen, Status, Numbered

LEMMA IdleWork == Idle \in Work /\ Worked(Idle) /\ ~Owes(Idle.todo)
<1>1. Idle \in Work
    BY StagedRecord DEF Idle, Work
<1>2. Shape(<<>>) /\ ~Owes(<<>>) /\ Fit(Staged, <<>>) /\ Asked(Staged, <<>>)
    BY DEF Shape, Owes, Fit, Asked, Asking
<1>3. Begins(<<>>, Staged.timeline)
    BY StagedRecord DEF Begins, Record
<1>4. /\ Idle.todo = <<>> /\ Idle.copy = Staged /\ Idle.base = <<>>
    BY DEF Idle
<1> QED BY <1>1, <1>2, <1>3, <1>4, StagedRecord DEF Worked

\* What holds of an operation goes on holding while others work.
LEMMA WorkStays ==
    ASSUME NEW t \in Thread, NEW w \in Work, Worked(w), op'[t] = w, persisted' = persisted,
           gone => gone', overlapped => overlapped', stored \in Record, stored' \in Record,
           persisted /\ ~overlapped' => Begins(stored.timeline, stored'.timeline)
    PROVE  Worked(op[t])'
<1>1. (persisted => Fit(op[t].copy, op[t].todo))'
    BY DEF Worked, Fit, Annotates
<1>2. Asked(op[t].copy, op[t].todo)'
    <2> SUFFICES ASSUME persisted, Asking(w.todo)
                 PROVE  /\ w.copy.status \in Resting
                        /\ ~gone' /\ ~Unread(w.todo) => Whole(w.copy)
                        /\ ~gone' /\ ~overlapped' =>
                             IF Unread(w.todo) THEN Told(stored'.timeline, w.copy.status)
                             ELSE Told(w.copy.timeline, w.copy.status)
        BY DEF Asked
    <2>1. /\ w.copy.status \in Resting
          /\ ~gone /\ ~Unread(w.todo) => Whole(w.copy)
          /\ ~gone /\ ~overlapped =>
               IF Unread(w.todo) THEN Told(stored.timeline, w.copy.status)
               ELSE Told(w.copy.timeline, w.copy.status)
        BY DEF Worked, Asked
    <2>2. stored.timeline \in Seq(Event) /\ stored'.timeline \in Seq(Event)
        BY DEF Record
    <2>3. ~overlapped' /\ Told(stored.timeline, w.copy.status)
            => Told(stored'.timeline, w.copy.status)
        BY <2>2, ToldMore
    <2> QED BY <2>1, <2>3
<1>3. /\ Numbered(w.copy.timeline) /\ Begins(w.base, w.copy.timeline) /\ Shape(w.todo)
    BY DEF Worked
<1> QED BY <1>1, <1>2, <1>3 DEF Worked

LEMMA WorkKept ==
    ASSUME Inv, NEW t \in Thread, NEW w \in Work, Worked(w),
           op' = [op EXCEPT ![t] = w], persisted' = persisted,
           gone => gone', overlapped => overlapped', stored' \in Record,
           persisted /\ ~overlapped' => Begins(stored.timeline, stored'.timeline)
    PROVE  /\ op' \in [Thread -> Work] /\ \A s \in Thread : Worked(op[s])'
           /\ op'[t] = w /\ \A s \in Thread \ {t} : op'[s] = op[s]
<1>1. op \in [Thread -> Work] /\ \A s \in Thread : Worked(op[s])
    BY DEF Inv, Types
<1>2. \A s \in Thread : op'[s] = IF s = t THEN w ELSE op[s]
    BY <1>1
<1>3. stored \in Record
    BY DEF Inv, Types
<1>4. ASSUME NEW s \in Thread PROVE Worked(op[s])'
    <2>1. PICK v \in Work : v = op'[s] /\ Worked(v)
        BY <1>1, <1>2
    <2> QED BY <1>3, <2>1, WorkStays
<1> QED BY <1>1, <1>2, <1>4

LEMMA FollowedKept ==
    ASSUME Inv, stored' \in Record, Begins(stored.timeline, stored'.timeline),
           client' = client, persisted' = persisted, overlapped' = overlapped
    PROVE  (~overlapped => \A c \in Client : Followed(client[c]))'
<1> SUFFICES ASSUME ~overlapped, NEW c \in Client
             PROVE  Followed(client[c])'
    OBVIOUS
<1>1. Followed(client[c]) /\ client[c] \in Stream
    BY DEF Inv, Types
<1>2. stored.timeline \in Seq(Event) /\ stored'.timeline \in Seq(Event)
    BY DEF Inv, Types, Record
<1>3. client[c].view.timeline \in Seq(Event) /\ client[c].after \in Nat
      /\ client[c].sent \in Seq(Event)
    <2>1. client[c].after \in After \union {0} /\ client[c].sent \in Seq(Event)
        BY <1>1 DEF Stream
    <2>2. client[c].view.timeline \in Seq(Event)
        BY <1>1 DEF Stream
    <2>3. client[c].after \in After \/ client[c].after = 0
        BY <2>1
    <2>4. client[c].after \in Nat
        <3>1. After \subseteq Nat /\ 0 \in Nat
            BY TimelineAssumption
        <3> QED BY <2>3, <3>1
    <2> QED BY <2>1, <2>2, <2>4
<1>4. /\ persisted /\ client[c].pc = "wait"
           => Begins(client[c].view.timeline, stored'.timeline)
      /\ persisted /\ client[c].pc = "timeline"
           => Told(stored'.timeline, client[c].view.status)
      /\ persisted /\ client[c].pc \in {"wait", "complete"}
           => client[c].view.timeline = <<>> \/ Told(client[c].view.timeline, client[c].view.status)
    BY <1>1, <1>2, <1>3, BeginsTransitive, ToldMore DEF Followed
<1>5. ASSUME NEW i \in 1 .. Len(client[c].sent)
      PROVE  /\ client[c].after + i <= Len(stored'.timeline)
             /\ client[c].sent[i] = stored'.timeline[client[c].after + i]
    <2>1. /\ client[c].after + i <= Len(stored.timeline)
          /\ client[c].sent[i] = stored.timeline[client[c].after + i]
        BY <1>1 DEF Followed
    <2> QED BY <1>2, <1>3, <2>1 DEF Begins
<1> QED BY <1>4, <1>5 DEF Followed

LEMMA StreamedKept ==
    ASSUME Inv, client' = client, persisted' = persisted
    PROVE  \A c \in Client : Streamed(client[c])'
BY DEF Inv, Streamed

\* A handler goes on.
LEMMA ProceedsInv ==
    ASSUME Inv, NEW t \in Thread, NEW rec \in Record, NEW todo \in Seq(Step),
           Begins(Rec(t).timeline, rec.timeline), Numbered(rec.timeline),
           Shape(todo), persisted => Fit(rec, todo), Asked(rec, todo),
           \/ rec.status \in Resting \/ Owes(todo)
           \/ rec.status = Rec(t).status /\ (Owes(op[t].todo) => Owes(todo)),
           Proceeds(t, rec, todo), claim' \in Thread \union {Free},
           UNCHANGED <<inputVars, gone, asked, client, overlapped, died>>
    PROVE  Inv'
<1> DEFINE w == IF todo = <<>> THEN Idle
                ELSE [op[t] EXCEPT !.todo = todo,
                                   !.copy = IF persisted THEN rec ELSE op[t].copy]
<1>1. op[t] \in Work /\ Worked(op[t]) /\ stored \in Record /\ op \in [Thread -> Work]
    BY DEF Inv, Types
<1>2. w \in Work
    BY <1>1, IdleWork DEF Work
<1>3. Worked(w) /\ w.todo = todo
    <2>1. CASE todo = <<>>
        BY <2>1, IdleWork DEF Idle
    <2>2. CASE todo # <<>> /\ persisted
        <3>1. w.todo = todo /\ w.copy = rec /\ w.base = op[t].base
            BY <1>1, <2>2 DEF Work
        <3>2. Begins(op[t].base, rec.timeline)
            <4>1. /\ op[t].base \in Seq(Event) /\ op[t].copy.timeline \in Seq(Event)
                  /\ rec.timeline \in Seq(Event)
                BY <1>1 DEF Work, Record
            <4>2. Rec(t) = op[t].copy
                BY <2>2 DEF Rec
            <4> QED BY <1>1, <4>1, <4>2, BeginsTransitive DEF Worked
        <3> QED BY <2>2, <3>1, <3>2 DEF Worked
    <2>3. CASE todo # <<>> /\ ~persisted
        <3>1. w.todo = todo /\ w.copy = op[t].copy /\ w.base = op[t].base
            BY <1>1, <2>3 DEF Work
        <3>2. Asked(w.copy, w.todo)
            BY <2>3 DEF Asked
        <3> QED BY <1>1, <2>3, <3>1, <3>2 DEF Worked
    <2> QED BY <2>1, <2>2, <2>3
<1>4. op' = [op EXCEPT ![t] = w]
    BY DEF Proceeds
<1> HIDE DEF w
<1>5. UNCHANGED <<persisted, ready, risky>>
    BY DEF inputVars
<1>6. /\ stored' \in Record /\ Begins(stored.timeline, stored'.timeline)
      /\ Numbered(stored'.timeline)
      /\ persisted => stored' = stored
      /\ ~persisted => stored' = rec
    <2>1. stored.timeline \in Seq(Event) /\ Numbered(stored.timeline)
        BY <1>1 DEF Inv, Record
    <2> QED BY <1>1, <2>1, BeginsItself DEF Proceeds, Rec
<1>7. /\ op' \in [Thread -> Work] /\ \A s \in Thread : Worked(op[s])'
      /\ op'[t].todo = todo /\ \A s \in Thread \ {t} : op'[s] = op[s]
    BY <1>2, <1>3, <1>4, <1>5, <1>6, WorkKept
<1>8. Types'
    BY <1>5, <1>6, <1>7 DEF Inv, Types
<1>9. Owed'
    <2> SUFFICES ASSUME ~persisted, ~died, stored'.status \notin Resting
                 PROVE  \E s \in Thread : Owes(op'[s].todo)
        BY <1>5 DEF Owed
    <2>1. stored' = rec /\ Rec(t) = stored
        BY <1>6 DEF Rec
    <2>2. CASE Owes(todo)
        BY <1>7, <2>2
    <2>3. CASE rec.status = stored.status /\ (Owes(op[t].todo) => Owes(todo))
        <3>1. PICK s \in Thread : Owes(op[s].todo)
            BY <2>1, <2>3 DEF Inv, Owed
        <3> QED BY <1>7, <2>3, <3>1
    <2> QED BY <2>1, <2>2, <2>3
<1>10. (~overlapped => \A c \in Client : Followed(client[c]))'
    BY <1>5, <1>6, FollowedKept
<1>11. \A c \in Client : Streamed(client[c])'
    BY <1>5, StreamedKept
<1>12. Sound'
    BY <1>5, <1>6 DEF Inv, Sound
<1> QED BY <1>6, <1>7, <1>8, <1>9, <1>10, <1>11, <1>12 DEF Inv

\* The record keeps its timeline and its status.
LEMMA FollowedStill ==
    ASSUME Inv, stored' \in Record, stored'.timeline = stored.timeline,
           client' = client, persisted' = persisted, overlapped' = overlapped
    PROVE  (~overlapped => \A c \in Client : Followed(client[c]))'
<1>1. Begins(stored.timeline, stored'.timeline)
    BY BeginsItself DEF Inv, Types, Record
<1> QED BY <1>1, FollowedKept

\* An operation comes to its end, or dies.
LEMMA EndsInv ==
    ASSUME Inv, NEW t \in Thread, Ends(t),
           stored' \in Record, stored'.timeline = stored.timeline,
           stored'.status = stored.status,
           persisted \/ died' \/ (~Owes(op[t].todo) /\ died' = died),
           UNCHANGED <<inputVars, gone, claim, asked, client, overlapped>>, died' \in BOOLEAN
    PROVE  Inv'
<1>1. op' = [op EXCEPT ![t] = Idle]
    BY DEF Ends
<1>2. UNCHANGED <<persisted, ready, risky>>
    BY DEF inputVars
<1>3. /\ op' \in [Thread -> Work] /\ \A s \in Thread : Worked(op[s])'
      /\ \A s \in Thread \ {t} : op'[s] = op[s]
    <2>1. Begins(stored.timeline, stored'.timeline)
        BY BeginsItself DEF Inv, Types, Record
    <2> QED BY <1>1, <1>2, <2>1, IdleWork, WorkKept
<1>4. Types'
    BY <1>2, <1>3 DEF Inv, Types
<1>5. Owed'
    <2> SUFFICES ASSUME ~persisted, ~died', stored'.status \notin Resting
                 PROVE  \E s \in Thread : Owes(op'[s].todo)
        BY <1>2 DEF Owed
    <2>1. PICK s \in Thread : Owes(op[s].todo)
        BY DEF Inv, Owed
    <2>2. s # t
        BY <2>1
    <2> QED BY <1>3, <2>1, <2>2
<1>6. (~overlapped => \A c \in Client : Followed(client[c]))'
    BY <1>2, FollowedStill
<1>7. \A c \in Client : Streamed(client[c])'
    BY <1>2, StreamedKept
<1>8. Sound'
    BY <1>2 DEF Inv, Sound, Whole
<1>9. Numbered(stored.timeline)'
    BY DEF Inv
<1> QED BY <1>3, <1>4, <1>5, <1>6, <1>7, <1>8, <1>9 DEF Inv

\* A save or an insight's write replaces the row.
LEMMA StoreInv ==
    ASSUME Inv, NEW t \in Thread, AtCall(t, "save") \/ AtCall(t, "annotate"), Store(t),
           persisted => ~gone, claim' \in Thread \union {Free},
           UNCHANGED <<inputVars, gone, asked, client, died>>
    PROVE  Inv'
<1> DEFINE todo == op[t].todo
           w == IF Len(todo) = 1 THEN Idle ELSE [op[t] EXCEPT !.todo = Tail(todo)]
<1>1. op[t] \in Work /\ Worked(op[t]) /\ stored \in Record /\ op \in [Thread -> Work]
    BY DEF Inv, Types
<1>2. /\ todo \in Seq(Step) /\ todo # <<>> /\ op[t].copy \in Record
      /\ op[t].base \in Seq(Event)
    BY <1>1 DEF Work, AtCall, InFlight
<1>3. todo[1].does \in {"save", "annotate"}
    BY <1>2, Rest DEF AtCall
<1>4. ~Owing(todo[1]) /\ ~Sets(todo[1]) /\ todo[1].does # "event"
    BY <1>3 DEF Owing, Sets
<1>5. UNCHANGED <<persisted, ready, risky>>
    BY DEF inputVars
<1>6. w \in Work
    BY <1>1, <1>2, IdleWork, Rest DEF Work
<1>7. Worked(w)
    <2>1. CASE Len(todo) = 1
        BY <2>1, IdleWork
    <2>2. CASE Len(todo) # 1
        <3>1. w.todo = Tail(todo) /\ w.copy = op[t].copy /\ w.base = op[t].base
            BY <1>1, <2>2 DEF Work
        <3>2. Shape(Tail(todo))
            BY <1>1, <1>2, ShapeOfRest DEF Worked
        <3>3. persisted => Fit(op[t].copy, Tail(todo))
            BY <1>1, <1>2, <1>4, FitAfterCall DEF Worked
        <3>4. ~Asking(Tail(todo))
            BY <1>1, <1>2, <1>3, DecidedRest DEF Worked, Reading, Operation
        <3>5. Asked(w.copy, w.todo)
            BY <3>1, <3>4 DEF Asked
        <3> QED BY <1>1, <3>1, <3>2, <3>3, <3>5 DEF Worked
    <2> QED BY <2>1, <2>2
<1>8. Owes(todo) => Owes(w.todo)
    <2> SUFFICES ASSUME Owes(todo)
                 PROVE  Owes(w.todo)
        OBVIOUS
    <2>1. Owes(Tail(todo))
        BY <1>2, <1>4, OwesRest
    <2>2. Len(todo) # 1
        BY <1>2, <2>1, OwesMore
    <2> QED BY <1>1, <2>1, <2>2 DEF Work
<1>9. op' = [op EXCEPT ![t] = w]
    BY DEF Store
<1> HIDE DEF w
<1>10. persisted =>
         /\ stored' \in Record /\ stored'.timeline = op[t].copy.timeline
         /\ stored'.status = op[t].copy.status
    BY <1>1, <1>2 DEF Store, Record
<1>11. ~persisted => stored' = stored
    BY DEF Store
<1>12. stored' \in Record
    BY <1>1, <1>10, <1>11
<1>13. /\ overlapped' \in BOOLEAN /\ (~overlapped' => ~overlapped)
       /\ ~overlapped' => Begins(stored.timeline, stored'.timeline)
    <2>1. overlapped' \in BOOLEAN /\ (~overlapped' => ~overlapped)
        BY DEF Store, Inv, Types
    <2>2. ASSUME ~overlapped', persisted PROVE Begins(stored.timeline, stored'.timeline)
        <3>1. op[t].base = stored.timeline
            BY <2>2 DEF Store
        <3> QED BY <1>1, <1>10, <2>2, <3>1 DEF Worked
    <2>3. ASSUME ~persisted PROVE Begins(stored.timeline, stored'.timeline)
        BY <1>1, <1>11, <2>3, BeginsItself DEF Record
    <2> QED BY <2>1, <2>2, <2>3
<1>14. /\ op' \in [Thread -> Work] /\ \A s \in Thread : Worked(op[s])'
       /\ op'[t] = w /\ \A s \in Thread \ {t} : op'[s] = op[s]
    BY <1>5, <1>6, <1>7, <1>9, <1>12, <1>13, WorkKept
<1>15. Types'
    BY <1>5, <1>12, <1>13, <1>14 DEF Inv, Types
<1>16. Numbered(stored'.timeline)
    BY <1>1, <1>10, <1>11 DEF Inv, Worked
<1>17. Sound'
    <2> SUFFICES ASSUME persisted
                 PROVE  /\ stored'.status \in Resting /\ Whole(stored')
                        /\ ~overlapped' => Told(stored'.timeline, stored'.status)
        BY <1>5 DEF Sound
    <2>1. /\ op[t].copy.status \in Resting
          /\ ~gone => Whole(op[t].copy)
          /\ ~gone /\ ~overlapped => Told(op[t].copy.timeline, op[t].copy.status)
        BY <1>1, <1>2, <1>3, SavedWhole DEF Worked
    <2> QED BY <1>10, <1>13, <2>1 DEF Whole
<1>18. (~overlapped => \A c \in Client : Followed(client[c]))'
    <2> SUFFICES ASSUME ~overlapped'
                 PROVE  (\A c \in Client : Followed(client[c]))'
        OBVIOUS
    <2>1. overlapped' = overlapped
        BY <1>13 DEF Inv, Types
    <2> QED BY <1>5, <1>12, <1>13, <2>1, FollowedKept
<1>19. \A c \in Client : Streamed(client[c])'
    BY <1>5, StreamedKept
<1>20. Owed'
    <2> SUFFICES ASSUME ~persisted, ~died, stored'.status \notin Resting
                 PROVE  \E s \in Thread : Owes(op'[s].todo)
        BY <1>5 DEF Owed
    <2>1. PICK s \in Thread : Owes(op[s].todo)
        BY <1>11 DEF Inv, Owed
    <2> QED BY <1>8, <1>14, <2>1
<1> QED BY <1>14, <1>15, <1>16, <1>17, <1>18, <1>19, <1>20 DEF Inv

----------------------------------------------------------------------------
(* The operations *)

\* An operation comes to this while nothing is written.
LEMMA ThreadInv ==
    ASSUME Inv, NEW t \in Thread, NEW w \in Work, Worked(w), op' = [op EXCEPT ![t] = w],
           Owes(op[t].todo) => Owes(w.todo), asked' \in 0..Requests,
           UNCHANGED <<inputVars, stored, gone, claim, client, overlapped, died>>
    PROVE  Inv'
<1>1. UNCHANGED <<persisted, ready, risky>>
    BY DEF inputVars
<1>2. stored \in Record /\ Begins(stored.timeline, stored.timeline)
    BY BeginsItself DEF Inv, Types, Record
<1>3. /\ op' \in [Thread -> Work] /\ \A s \in Thread : Worked(op[s])'
      /\ op'[t] = w /\ \A s \in Thread \ {t} : op'[s] = op[s]
    BY <1>1, <1>2, WorkKept
<1>4. Types'
    BY <1>1, <1>3 DEF Inv, Types
<1>5. Owed'
    <2> SUFFICES ASSUME ~persisted, ~died, stored.status \notin Resting
                 PROVE  \E s \in Thread : Owes(op'[s].todo)
        BY <1>1 DEF Owed
    <2>1. PICK s \in Thread : Owes(op[s].todo)
        BY DEF Inv, Owed
    <2> QED BY <1>3, <2>1
<1>6. (~overlapped => \A c \in Client : Followed(client[c]))'
    BY <1>1, <1>2, FollowedStill
<1>7. \A c \in Client : Streamed(client[c])'
    BY <1>1, StreamedKept
<1>8. Sound' /\ Numbered(stored.timeline)'
    BY <1>1 DEF Inv, Sound
<1> QED BY <1>3, <1>4, <1>5, <1>6, <1>7, <1>8 DEF Inv

\* What a request has ahead of it when it arrives.
LEMMA AskedSteps ==
    ASSUME NEW operation \in Operation, NEW rec,
           NEW todo, \/ todo = <<Does("findings"), Does("timeline"), Does("plans"), Does(operation)>>
                     \/ todo = <<Does(operation)>>
    PROVE  todo \in Seq(Step) /\ Shape(todo) /\ Fit(rec, todo) /\ Asking(todo)
<1>1. /\ Does("findings") \in Step /\ Does("timeline") \in Step /\ Does("plans") \in Step
      /\ Does(operation) \in Step
    BY StepTypes DEF Call, Reading
<1>2. /\ Does("findings").does = "findings" /\ Does("timeline").does = "timeline"
      /\ Does("plans").does = "plans" /\ Does(operation).does = operation
    BY DEF Does
<1>3. /\ <<Does(operation)>> \in Seq(Step)
      /\ <<Does("findings"), Does("timeline"), Does("plans"), Does(operation)>> \in Seq(Step)
    BY <1>1
<1>4. CASE todo = <<Does(operation)>>
    <2>1. DOMAIN todo = {1} /\ Len(todo) = 1 /\ todo[1] = Does(operation)
        BY <1>4
    <2>2. \A i \in DOMAIN todo : todo[i].does \in Operation
        BY <1>2, <2>1
    <2>3. Shape(todo) /\ Asking(todo)
        BY <2>1, <2>2 DEF Shape, Asking, Reading, Operation
    <2>4. Fit(rec, todo)
        BY <2>2 DEF Fit, Operation
    <2> QED BY <1>3, <1>4, <2>3, <2>4
<1>5. CASE todo = <<Does("findings"), Does("timeline"), Does("plans"), Does(operation)>>
    <2>1. /\ DOMAIN todo = 1..4 /\ Len(todo) = 4 /\ todo[4] = Does(operation)
          /\ todo[1] = Does("findings") /\ todo[2] = Does("timeline") /\ todo[3] = Does("plans")
        BY <1>5
    <2>2. \A i \in DOMAIN todo :
            \/ i = 4 /\ todo[i].does \in Operation
            \/ todo[i].does \in {"findings", "timeline", "plans"}
        BY <1>2, <2>1
    <2>3. 4 \in DOMAIN todo
        BY <2>1
    <2>4. Shape(todo) /\ Asking(todo)
        BY <2>1, <2>2, <2>3 DEF Shape, Asking, Reading, Operation
    <2>5. Fit(rec, todo)
        BY <2>2 DEF Fit, Operation
    <2> QED BY <1>3, <1>5, <2>4, <2>5
<1> QED BY <1>4, <1>5

LEMMA AskStep == ASSUME Inv, NEW t \in Thread, Ask(t) PROVE Inv'
<1>1. PICK operation \in Operation :
        op' = [op EXCEPT ![t] =
                  IF persisted
                  THEN [todo |-> <<Does("findings"), Does("timeline"), Does("plans"),
                                   Does(operation)>>,
                        copy |-> Row(stored), base |-> <<>>]
                  ELSE [Idle EXCEPT !.todo = <<Does(operation)>>]]
    BY DEF Ask
<1>2. UNCHANGED <<inputVars, stored, gone, claim, client, overlapped, died>>
    BY DEF Ask
<1>3. asked' \in 0..Requests
    BY TimelineAssumption DEF Ask, Inv, Types
<1>4. ~Owes(op[t].todo)
    BY DEF Ask, InFlight, Owes
<1>5. <<>> \in Seq(Event) /\ Numbered(<<>>) /\ stored \in Record
    BY DEF Numbered, Inv, Types
<1>6. CASE persisted
    <2> DEFINE todo == <<Does("findings"), Does("timeline"), Does("plans"), Does(operation)>>
               w == [todo |-> todo, copy |-> Row(stored), base |-> <<>>]
    <2>1. /\ Row(stored) \in Record /\ Row(stored).timeline = <<>>
          /\ Row(stored).status = stored.status
        BY <1>5 DEF Row, Record
    <2>2. todo \in Seq(Step) /\ Shape(todo) /\ Fit(Row(stored), todo)
        BY AskedSteps
    <2>3. Unread(todo)
        <3>1. 2 \in DOMAIN todo /\ todo[2].does = "timeline"
            BY DEF Does
        <3> QED BY <3>1 DEF Unread
    <2>4. op' = [op EXCEPT ![t] = w]
        BY <1>1, <1>6
    <2> HIDE DEF todo
    <2>5. w \in Work
        BY <1>5, <2>1, <2>2 DEF Work
    <2>6. w.todo = todo /\ w.copy = Row(stored) /\ w.base = <<>>
        OBVIOUS
    <2> HIDE DEF w
    <2>7. Asked(Row(stored), todo)
        BY <1>6, <2>1, <2>3 DEF Asked, Inv, Sound
    <2>8. Begins(<<>>, <<>>)
        BY <1>5, BeginsItself
    <2>9. Worked(w)
        BY <1>5, <2>1, <2>2, <2>6, <2>7, <2>8 DEF Worked
    <2> QED BY <1>2, <1>3, <1>4, <2>4, <2>5, <2>9, ThreadInv
<1>7. CASE ~persisted
    <2> DEFINE w == [Idle EXCEPT !.todo = <<Does(operation)>>]
    <2>1. <<Does(operation)>> \in Seq(Step) /\ Shape(<<Does(operation)>>)
        BY AskedSteps
    <2>2. op' = [op EXCEPT ![t] = w]
        BY <1>1, <1>7
    <2>3. Idle \in Work /\ Worked(Idle)
        BY IdleWork
    <2>4. /\ w \in Work /\ w.todo = <<Does(operation)>> /\ w.copy = Idle.copy
          /\ w.base = Idle.base
        BY <2>1, <2>3 DEF Work
    <2> HIDE DEF w
    <2>5. Worked(w)
        BY <1>7, <2>1, <2>3, <2>4 DEF Worked, Asked
    <2> QED BY <1>2, <1>3, <1>4, <2>2, <2>4, <2>5, ThreadInv
<1> QED BY <1>6, <1>7

\* The record that a handler works on.
LEMMA Worker ==
    ASSUME Inv, NEW t \in Thread, InFlight(t)
    PROVE  /\ op[t].todo \in Seq(Step) /\ op[t].todo # <<>> /\ Shape(op[t].todo)
           /\ Rec(t) \in Record /\ Numbered(Rec(t).timeline)
           /\ Rec(t).timeline \in Seq(Event) /\ Begins(Rec(t).timeline, Rec(t).timeline)
           /\ persisted => Fit(Rec(t), op[t].todo)
           /\ Asked(Rec(t), op[t].todo)
<1>1. /\ op[t] \in Work /\ Worked(op[t]) /\ stored \in Record /\ Numbered(stored.timeline)
    BY DEF Inv, Types
<1>2. op[t].todo \in Seq(Step) /\ op[t].todo # <<>> /\ Shape(op[t].todo)
    BY <1>1 DEF Work, InFlight, Worked
<1>3. /\ Rec(t) \in Record /\ Numbered(Rec(t).timeline)
      /\ persisted => Fit(Rec(t), op[t].todo)
    BY <1>1 DEF Rec, Work, Worked
<1>4. Rec(t).timeline \in Seq(Event)
    BY <1>3 DEF Record
<1>5. Asked(Rec(t), op[t].todo)
    BY <1>1 DEF Rec, Worked, Asked
<1> QED BY <1>2, <1>3, <1>4, <1>5, BeginsItself

\* A handler passes a step that writes nothing, or begins with steps that follow.
LEMMA PassInv ==
    ASSUME Inv, NEW t \in Thread, InFlight(t), ~Owing(op[t].todo[1]), ~Sets(op[t].todo[1]),
           op[t].todo[1].does # "event", op[t].todo[1].does \notin Reading,
           Proceeds(t, Rec(t), Tail(op[t].todo)),
           claim' \in Thread \union {Free},
           UNCHANGED <<inputVars, gone, asked, client, overlapped, died>>
    PROVE  Inv'
<1> DEFINE todo == op[t].todo
<1>1. /\ todo \in Seq(Step) /\ todo # <<>> /\ Shape(todo)
      /\ Rec(t) \in Record /\ Numbered(Rec(t).timeline)
      /\ Begins(Rec(t).timeline, Rec(t).timeline)
      /\ persisted => Fit(Rec(t), todo)
    BY Worker
<1>2. Tail(todo) \in Seq(Step)
    BY <1>1, Rest
<1>3. Shape(Tail(todo))
    BY <1>1, ShapeOfRest
<1>4. persisted => Fit(Rec(t), Tail(todo))
    BY <1>1, FitAfterCall
<1>5. Owes(todo) => Owes(Tail(todo))
    BY <1>1, OwesRest
<1>6. Asked(Rec(t), Tail(todo))
    BY <1>1, DecidedRest DEF Asked
<1> QED BY <1>1, <1>2, <1>3, <1>4, <1>5, <1>6, ProceedsInv

LEMMA BeginInv ==
    ASSUME Inv, NEW t \in Thread, InFlight(t), NEW rec \in Record, NEW todo,
           rec.timeline = Rec(t).timeline, rec.status = Rec(t).status,
           Fresh(rec, todo), Owes(todo) \/ ~Owes(op[t].todo) \/ rec.status \in Resting,
           Proceeds(t, rec, todo),
           UNCHANGED <<inputVars, gone, claim, asked, client, overlapped, died>>
    PROVE  Inv'
<1>1. /\ Rec(t) \in Record /\ Numbered(Rec(t).timeline)
      /\ Begins(Rec(t).timeline, Rec(t).timeline)
    BY Worker
<1>2. todo \in Seq(Step) /\ Shape(todo) /\ Fit(rec, todo) /\ Asked(rec, todo)
    BY DEF Fresh, Asked
<1>3. claim' \in Thread \union {Free}
    BY DEF Inv, Types
<1> QED BY <1>1, <1>2, <1>3, ProceedsInv

\* What has the status of rest ahead.
LEMMA OwesAhead ==
    /\ Owes(Analyzed) /\ Owes(StaticOnly) /\ Owes(Simulating) /\ Owes(SimulationFailed)
    /\ Owes(PlanRefused) /\ Owes(VerificationFailed)
    /\ \A status \in Terminal, n \in Nat : Owes(Simulated(status, n))
    /\ \A status \in Terminal : Owes(Verified(status))
<1>1. Owes(Analyzed) /\ Owes(StaticOnly) /\ Owes(Simulating) /\ Owes(SimulationFailed)
    <2>1. Analyzed[2] = Does("branch") /\ 2 \in DOMAIN Analyzed
        BY DEF Analyzed
    <2>2. StaticOnly[1] = Judges("STATIC_ONLY") /\ 1 \in DOMAIN StaticOnly
        BY DEF StaticOnly
    <2>3. Simulating[3] = Does("simulate") /\ 3 \in DOMAIN Simulating
        BY DEF Simulating
    <2>4. SimulationFailed[1] = Judges("ERROR") /\ 1 \in DOMAIN SimulationFailed
        BY DEF SimulationFailed
    <2> QED BY <2>1, <2>2, <2>3, <2>4 DEF Owes, Owing, Does, Judges
<1>2. Owes(PlanRefused) /\ Owes(VerificationFailed)
    <2>1. PlanRefused[1] = Becomes("PLAN_REJECTED") /\ 1 \in DOMAIN PlanRefused
        BY DEF PlanRefused
    <2>2. VerificationFailed[1] = Does("restore") /\ 1 \in DOMAIN VerificationFailed
        BY DEF VerificationFailed
    <2> QED BY <2>1, <2>2 DEF Owes, Owing, Does, Becomes, Resting, Terminal
<1>3. ASSUME NEW status \in Terminal, NEW n \in Nat
      PROVE  Owes(Simulated(status, n))
    <2> DEFINE todo == Simulated(status, n)
    <2>1. todo \in Seq(Step) /\ Len(todo) \in {n + 3, n + 4} /\ todo[1] = Judges(status)
        BY SimulatedSteps
    <2>2. 1 \in DOMAIN todo
        BY <2>1
    <2> QED BY <2>1, <2>2 DEF Owes, Owing, Judges
<1>4. ASSUME NEW status \in Terminal PROVE Owes(Verified(status))
    <2>1. Verified(status)[1] = Becomes(status) /\ 1 \in DOMAIN Verified(status)
        BY DEF Verified
    <2> QED BY <2>1 DEF Owes, Owing, Becomes, Resting
<1> QED BY <1>1, <1>2, <1>3, <1>4

LEMMA FirstStep ==
    ASSUME Inv, NEW t \in Thread, InFlight(t)
    PROVE  /\ op[t].todo[1] = Head(op[t].todo) /\ op[t].todo[1] \in Step
           /\ Len(op[t].todo) \in Nat \ {0}
BY Worker, Rest

\* A statement reads what the row's tables hold at its moment.
LEMMA ReadInv ==
    ASSUME Inv, NEW t \in Thread, NEW table \in {"findings", "timeline", "plans"},
           NEW copy \in Record, Read(t, table, copy), copy.status = op[t].copy.status,
           Numbered(copy.timeline), Asked(copy, Tail(op[t].todo))
    PROVE  Inv'
<1> DEFINE todo == op[t].todo
           w == [todo |-> Tail(todo), copy |-> copy, base |-> copy.timeline]
<1>1. /\ InFlight(t) /\ todo[1].does = table /\ op' = [op EXCEPT ![t] = w]
      /\ UNCHANGED <<inputVars, stored, gone, claim, asked, client, overlapped, died>>
    BY FirstStep DEF Read, AtCall
<1>2. /\ todo \in Seq(Step) /\ todo # <<>> /\ Shape(todo) /\ copy.timeline \in Seq(Event)
    BY <1>1, Worker DEF Record
<1>3. ~Owing(todo[1]) /\ ~Sets(todo[1]) /\ todo[1].does # "event"
    BY <1>1 DEF Owing, Sets
<1>4. Tail(todo) \in Seq(Step) /\ Shape(Tail(todo)) /\ (Owes(todo) => Owes(Tail(todo)))
    BY <1>2, <1>3, Rest, ShapeOfRest, OwesRest
<1>5. persisted => Fit(copy, Tail(todo))
    <2>1. persisted => Fit(op[t].copy, todo)
        BY DEF Inv, Worked
    <2> QED BY <1>2, <1>3, <2>1, FitAfterCall
<1>6. w \in Work /\ w.todo = Tail(todo) /\ w.copy = copy /\ w.base = copy.timeline
    BY <1>2, <1>4 DEF Work
<1> HIDE DEF w
<1>7. Worked(w)
    BY <1>2, <1>4, <1>5, <1>6, BeginsItself DEF Worked
<1>8. asked' \in 0..Requests
    BY <1>1 DEF Inv, Types
<1> QED BY <1>1, <1>4, <1>6, <1>7, <1>8, ThreadInv

LEMMA ReadStep ==
    ASSUME Inv, NEW t \in Thread, ReadFindings(t) \/ ReadTimeline(t) \/ ReadPlans(t)
    PROVE  Inv'
<1> DEFINE todo == op[t].todo
           copy == op[t].copy
<1>1. /\ copy \in Record /\ Numbered(copy.timeline) /\ Asked(copy, todo)
      /\ stored \in Record /\ Numbered(stored.timeline) /\ gone \in BOOLEAN
      /\ todo \in Seq(Step)
    BY DEF Inv, Types, Work, Worked
<1>2. InFlight(t) /\ todo # <<>> /\ todo[1].does \in {"findings", "timeline", "plans"}
    BY FirstStep DEF ReadFindings, ReadTimeline, ReadPlans, Read, AtCall, InFlight
<1>3. 1 \in DOMAIN todo /\ Asking(todo)
    BY <1>1, <1>2, Rest DEF Asking, Reading
<1>4. ASSUME NEW rec \in Record, rec.timeline = copy.timeline, rec.status = copy.status,
             todo[1].does # "timeline"
      PROVE  Asked(rec, Tail(todo))
    <2>1. Unread(Tail(todo)) <=> Unread(todo)
        BY <1>1, <1>2, <1>4, UnreadRest
    <2> QED BY <1>1, <1>3, <1>4, <2>1 DEF Asked, Whole
<1>5. CASE ReadFindings(t)
    <2> DEFINE rec == [copy EXCEPT !.findings = ~gone /\ stored.findings]
    <2>1. stored.findings \in BOOLEAN
        BY <1>1 DEF Record
    <2>2. rec \in Record /\ rec.timeline = copy.timeline /\ rec.status = copy.status
        BY <1>1, <2>1 DEF Record
    <2>3. Read(t, "findings", rec) /\ todo[1].does # "timeline"
        BY <1>2, <1>5, FirstStep DEF ReadFindings, Read, AtCall
    <2> HIDE DEF rec
    <2>4. Asked(rec, Tail(todo))
        BY <1>4, <2>2, <2>3
    <2> QED BY <1>1, <2>2, <2>3, <2>4, ReadInv
<1>6. CASE ReadPlans(t)
    <2> DEFINE rec == [copy EXCEPT !.plan = ~gone /\ stored.plan]
    <2>1. stored.plan \in BOOLEAN
        BY <1>1 DEF Record
    <2>2. rec \in Record /\ rec.timeline = copy.timeline /\ rec.status = copy.status
        BY <1>1, <2>1 DEF Record
    <2>3. Read(t, "plans", rec) /\ todo[1].does # "timeline"
        BY <1>2, <1>6, FirstStep DEF ReadPlans, Read, AtCall
    <2> HIDE DEF rec
    <2>4. Asked(rec, Tail(todo))
        BY <1>4, <2>2, <2>3
    <2> QED BY <1>1, <2>2, <2>3, <2>4, ReadInv
<1>7. CASE ReadTimeline(t)
    <2> DEFINE rec == [copy EXCEPT !.timeline = Timeline]
    <2>1. Timeline \in Seq(Event) /\ Numbered(Timeline) /\ (~gone => Timeline = stored.timeline)
        BY <1>1, UnseenView DEF Timeline, Record
    <2>2. rec \in Record /\ rec.timeline = Timeline /\ rec.status = copy.status
        BY <1>1, <2>1 DEF Record
    <2>3. Read(t, "timeline", rec) /\ todo[1].does = "timeline"
        BY <1>7, FirstStep DEF ReadTimeline, Read, AtCall
    <2> HIDE DEF rec
    <2>4. Unread(todo)
        BY <1>3, <2>3 DEF Unread
    <2>5. Asked(rec, Tail(todo))
        BY <1>1, <1>3, <2>1, <2>2, <2>4 DEF Asked, Inv, Sound, Whole
    <2> QED BY <2>1, <2>2, <2>3, <2>5, ReadInv
<1> QED BY <1>5, <1>6, <1>7

LEMMA AdmitInv ==
    ASSUME Inv, NEW t \in Thread, NEW operation \in Operation, NEW allowed \in BOOLEAN,
           NEW work, Admit(t, operation, allowed, work),
           work \in Seq(Step) /\ Shape(work) /\ ~Asking(work),
           persisted => Fit(Rec(t), work)
    PROVE  Inv'
<1>1. /\ InFlight(t) /\ op[t].todo[1].does \in Operation
      /\ UNCHANGED <<inputVars, gone, claim, asked, client, overlapped, died>>
    BY FirstStep DEF Admit, AtCall
<1>2. /\ Rec(t) \in Record /\ Numbered(Rec(t).timeline)
      /\ Begins(Rec(t).timeline, Rec(t).timeline) /\ ~Owes(op[t].todo)
    BY <1>1, Worker, LastCall
<1>3. stored \in Record /\ claim \in Thread \union {Free} /\ died \in BOOLEAN
    BY DEF Inv, Types
<1>4. CASE allowed
    <2>1. Proceeds(t, Rec(t), work)
        BY <1>4 DEF Admit
    <2>2. Asked(Rec(t), work)
        BY DEF Asked
    <2> QED BY <1>1, <1>2, <1>3, <2>1, <2>2, ProceedsInv
<1>5. CASE ~allowed
    <2>1. Ends(t) /\ stored' = stored
        BY <1>5 DEF Admit
    <2> QED BY <1>1, <1>2, <1>3, <2>1, EndsInv
<1> QED BY <1>4, <1>5

LEMMA AdmitStep ==
    ASSUME Inv, NEW t \in Thread,
           AdmitRun(t) \/ AdmitPlan(t) \/ AdmitVerify(t) \/ AdmitInsight(t)
    PROVE  Inv'
<1>1. InFlight(t) /\ op[t].todo[1].does \in Operation
    BY FirstStep DEF AdmitRun, AdmitPlan, AdmitVerify, AdmitInsight, Admit, AtCall, Operation
<1>2. Rec(t) \in Record
    BY <1>1, Worker
<1>3. /\ (Rec(t).status \in {"STAGED", "ERROR"} /\ Rec(t).bundle) \in BOOLEAN
      /\ Rec(t).findings \in BOOLEAN /\ (Rec(t).plan /\ Rec(t).bundle) \in BOOLEAN
    BY <1>2 DEF Record
<1>4. /\ "run" \in Operation /\ "create_plan" \in Operation /\ "verify_plan" \in Operation
      /\ "create_insight" \in Operation
    BY DEF Operation
<1>5. CASE AdmitRun(t)
    <2>1. Fresh(Rec(t), <<Does("claim")>> \o Run)
        BY ClaimedFresh
    <2> QED BY <1>3, <1>4, <1>5, <2>1, AdmitInv DEF AdmitRun, Fresh
<1>6. CASE AdmitPlan(t)
    <2>1. Fresh(Rec(t), <<Does("claim")>> \o Plan)
        BY ClaimedFresh
    <2> QED BY <1>3, <1>4, <1>6, <2>1, AdmitInv DEF AdmitPlan, Fresh
<1>7. CASE AdmitVerify(t)
    <2>1. Fresh(Rec(t), <<Does("claim")>> \o Verify)
        BY ClaimedFresh
    <2> QED BY <1>3, <1>4, <1>7, <2>1, AdmitInv DEF AdmitVerify, Fresh
<1>8. CASE AdmitInsight(t)
    <2>1. Insight \in Seq(Step) /\ Shape(Insight) /\ ~Asking(Insight)
        BY InsightSteps
    <2>2. ASSUME persisted PROVE Fit(Rec(t), Insight)
        <3>1. Asking(op[t].todo) /\ ~Unread(op[t].todo)
            BY <1>1, Worker, LastCall
        <3>2. /\ Rec(t).status \in Resting
              /\ ~gone => Whole(Rec(t))
              /\ ~gone /\ ~overlapped => Told(Rec(t).timeline, Rec(t).status)
            BY <1>1, <2>2, <3>1, Worker DEF Asked
        <3> QED BY <3>2, InsightFresh DEF Fresh
    <2> QED BY <1>3, <1>4, <1>8, <2>1, <2>2, AdmitInv DEF AdmitInsight
<1> QED BY <1>5, <1>6, <1>7, <1>8

LEMMA ClaimStep == ASSUME Inv, NEW t \in Thread, Claim(t) PROVE Inv'
<1>1. InFlight(t) /\ op[t].todo[1].does = "claim"
    BY FirstStep DEF Claim, AtCall
<1>2. /\ ~Owing(op[t].todo[1]) /\ ~Sets(op[t].todo[1]) /\ op[t].todo[1].does # "event"
      /\ op[t].todo[1].does \notin Reading
    BY <1>1 DEF Owing, Sets, Reading, Operation
<1>3. UNCHANGED <<inputVars, gone, asked, client, overlapped, died>>
    BY DEF Claim
<1>4. claim \in Thread \union {Free} /\ stored \in Record /\ died \in BOOLEAN
    BY DEF Inv, Types
<1>5. CASE ~persisted
    <2>1. claim' = claim /\ Proceeds(t, Rec(t), Tail(op[t].todo))
        BY <1>5 DEF Claim, Rec
    <2> QED BY <1>1, <1>2, <1>3, <1>4, <2>1, PassInv
<1>6. CASE persisted /\ claim = Free /\ ~gone
    <2>1. claim' = t /\ Proceeds(t, Rec(t), Tail(op[t].todo))
        BY <1>6 DEF Claim, Rec
    <2> QED BY <1>1, <1>2, <1>3, <2>1, PassInv
<1>7. CASE persisted /\ ~(claim = Free /\ ~gone)
    <2>1. claim' = claim /\ Ends(t) /\ stored' = stored
        BY <1>7 DEF Claim
    <2> QED BY <1>3, <1>4, <1>7, <2>1, EndsInv
<1> QED BY <1>5, <1>6, <1>7

LEMMA WriteStep == ASSUME Inv, NEW t \in Thread, Write(t) PROVE Inv'
<1> DEFINE todo == op[t].todo
           step == todo[1]
           rec == Written(Rec(t), step)
<1>1. InFlight(t) /\ Writing(step) /\ step = Head(todo) /\ step \in Step
    BY FirstStep DEF Write, Writing
<1>2. /\ todo \in Seq(Step) /\ todo # <<>> /\ Shape(todo)
      /\ Rec(t) \in Record /\ Numbered(Rec(t).timeline)
      /\ persisted => Fit(Rec(t), todo)
    BY <1>1, Worker
<1>3. /\ rec \in Record /\ Begins(Rec(t).timeline, rec.timeline) /\ Numbered(rec.timeline)
      /\ Sets(step) => rec.status = Outcome(Rec(t), step)
      /\ step.does = "event" => rec = Logged(Rec(t), step.arg)
    BY <1>1, <1>2, WrittenRecord
<1>4. Tail(todo) \in Seq(Step) /\ Shape(Tail(todo))
    BY <1>2, Rest, ShapeOfRest
<1>5. /\ Proceeds(t, rec, Tail(todo))
      /\ UNCHANGED <<inputVars, gone, claim, asked, client, overlapped, died>>
    BY <1>1 DEF Write
<1>6. claim' \in Thread \union {Free}
    BY <1>5 DEF Inv, Types
<1> HIDE DEF rec
<1>7. persisted => Fit(rec, Tail(todo))
    <2>1. CASE step.does = "event"
        BY <1>2, <1>3, <2>1, FitAfterEvent
    <2>2. CASE Sets(step)
        BY <1>2, <1>3, <2>2, FitAfterSetting
    <2> QED BY <1>1, <2>1, <2>2 DEF Writing, Sets
<1>8. \/ rec.status \in Resting \/ Owes(Tail(todo))
      \/ rec.status = Rec(t).status /\ (Owes(todo) => Owes(Tail(todo)))
    <2>1. CASE step.does = "event"
        <3>1. step.arg \in EventType
            BY <1>1, <2>1 DEF Step
        <3>2. rec.status = Rec(t).status
            <4>1. Logged(Rec(t), step.arg).status = Rec(t).status
                BY <1>2, <3>1, LoggedRecord
            <4>2. rec = Logged(Rec(t), step.arg)
                BY <1>3, <2>1
            <4> QED BY <4>1, <4>2
        <3>3. ~Owing(step)
            BY <2>1 DEF Owing
        <3> QED BY <1>2, <3>2, <3>3, OwesRest
    <2>2. CASE step.does = "status" /\ step.arg \notin Resting
        BY <1>2, <2>2, WorkOwesRest
    <2>3. CASE step.does = "status" /\ step.arg \in Resting
        BY <1>3, <2>3 DEF Sets, Outcome
    <2>4. CASE step.does = "judge"
        <3>1. step.arg \in Terminal
            BY <1>1, <2>4 DEF Step
        <3> QED BY <1>3, <2>4, <3>1 DEF Sets, Outcome, Resting
    <2>5. CASE step.does = "restore"
        <3>1. Rec(t).verdict \in Terminal
            BY <1>2 DEF Record, Terminal
        <3> QED BY <1>3, <2>5, <3>1 DEF Sets, Outcome, Resting
    <2> QED BY <1>1, <2>1, <2>2, <2>3, <2>4, <2>5 DEF Writing
<1>9. Asked(rec, Tail(todo))
    <2>1. step.does \notin Reading
        BY <1>1 DEF Writing, Reading, Operation
    <2> QED BY <1>2, <2>1, DecidedRest DEF Asked
<1> QED BY <1>2, <1>3, <1>4, <1>5, <1>6, <1>7, <1>8, <1>9, ProceedsInv

\* A use of the bundle either goes on, or the operation dies.
LEMMA BundleStep ==
    ASSUME Inv, NEW t \in Thread, InFlight(t), NEW rec \in Record, NEW todo,
           rec.timeline = Rec(t).timeline, rec.status = Rec(t).status,
           Fresh(rec, todo), Owes(todo), NeedsBundle(t, rec, todo),
           UNCHANGED <<inputVars, gone, claim, asked, client, overlapped>>
    PROVE  Inv'
<1>1. CASE Rec(t).bundle
    <2>1. Proceeds(t, rec, todo) /\ died' = died
        BY <1>1 DEF NeedsBundle
    <2> QED BY <2>1, BeginInv
<1>2. CASE ~Rec(t).bundle
    <2>1. Ends(t) /\ stored' = stored /\ died' = TRUE
        BY <1>2 DEF NeedsBundle
    <2>2. stored \in Record
        BY DEF Inv, Types
    <2> QED BY <2>1, <2>2, EndsInv
<1> QED BY <1>1, <1>2

LEMMA AnalyzeStep == ASSUME Inv, NEW t \in Thread, Analyze(t) PROVE Inv'
<1> DEFINE rec == [Rec(t) EXCEPT !.findings = risky]
<1>1. InFlight(t) /\ NeedsBundle(t, rec, Analyzed)
      /\ UNCHANGED <<inputVars, gone, claim, asked, client, overlapped>>
    BY DEF Analyze, AtCall
<1>2. Rec(t) \in Record /\ risky \in BOOLEAN
    BY <1>1, Worker DEF Inv, Types
<1>3. rec \in Record /\ rec.timeline = Rec(t).timeline /\ rec.status = Rec(t).status
    BY <1>2 DEF Record
<1> HIDE DEF rec
<1> QED BY <1>1, <1>3, AnalyzedFresh, OwesAhead, BundleStep

LEMMA BranchStep == ASSUME Inv, NEW t \in Thread, Branch(t) PROVE Inv'
<1>1. InFlight(t) /\ UNCHANGED <<inputVars, gone, claim, asked, client, overlapped>>
    BY DEF Branch, AtCall
<1>2. Rec(t) \in Record
    BY <1>1, Worker
<1>3. CASE ready
    <2>1. NeedsBundle(t, Rec(t), Simulating)
        BY <1>3 DEF Branch
    <2> QED BY <1>1, <1>2, <2>1, SimulatingFresh, OwesAhead, BundleStep
<1>4. CASE ~ready
    <2>1. NeedsBundle(t, Rec(t), StaticOnly)
        BY <1>4 DEF Branch
    <2> QED BY <1>1, <1>2, <2>1, StaticOnlyFresh, OwesAhead, BundleStep
<1> QED BY <1>3, <1>4

LEMMA StateLimitationsStep == ASSUME Inv, NEW t \in Thread, StateLimitations(t) PROVE Inv'
<1>1. /\ InFlight(t) /\ op[t].todo[1].does = "limitations"
      /\ NeedsBundle(t, Rec(t), Tail(op[t].todo))
      /\ UNCHANGED <<inputVars, gone, claim, asked, client, overlapped>>
    BY FirstStep DEF StateLimitations, AtCall
<1>2. /\ ~Owing(op[t].todo[1]) /\ ~Sets(op[t].todo[1]) /\ op[t].todo[1].does # "event"
      /\ op[t].todo[1].does \notin Reading
    BY <1>1 DEF Owing, Sets, Reading, Operation
<1>3. stored \in Record /\ claim \in Thread \union {Free}
    BY DEF Inv, Types
<1>4. CASE Rec(t).bundle
    <2>1. Proceeds(t, Rec(t), Tail(op[t].todo)) /\ died' = died
        BY <1>1, <1>4 DEF NeedsBundle
    <2> QED BY <1>1, <1>2, <1>3, <2>1, PassInv
<1>5. CASE ~Rec(t).bundle
    <2>1. Ends(t) /\ stored' = stored /\ died' = TRUE
        BY <1>1, <1>5 DEF NeedsBundle
    <2> QED BY <1>1, <1>3, <2>1, EndsInv
<1> QED BY <1>4, <1>5

LEMMA SimulateStep == ASSUME Inv, NEW t \in Thread, Simulate(t) PROVE Inv'
<1>1. InFlight(t) /\ UNCHANGED <<inputVars, gone, claim, asked, client, overlapped, died>>
    BY DEF Simulate, AtCall
<1>2. Rec(t) \in Record
    BY <1>1, Worker
<1>3. CASE Proceeds(t, Rec(t), SimulationFailed)
    BY <1>1, <1>2, <1>3, SimulationFailedFresh, OwesAhead, BeginInv
<1>4. ASSUME NEW status \in Judged \union {"ERROR"}, NEW runs \in SandboxRun,
             Proceeds(t, Rec(t), Simulated(status, runs))
      PROVE  Inv'
    <2>1. SandboxRun \subseteq Nat
        BY TimelineAssumption
    <2>2. runs \in Nat /\ status \in Terminal
        BY <2>1 DEF Terminal
    <2>3. Fresh(Rec(t), Simulated(status, runs)) /\ Owes(Simulated(status, runs))
        BY <2>2, SimulatedFresh, OwesAhead
    <2> QED BY <1>1, <1>2, <1>4, <2>3, BeginInv
<1> QED BY <1>3, <1>4 DEF Simulate

LEMMA GenerateStep == ASSUME Inv, NEW t \in Thread, Generate(t) PROVE Inv'
<1>1. /\ InFlight(t) /\ op[t].todo[1].does = "generate"
      /\ UNCHANGED <<inputVars, gone, claim, asked, client, overlapped, died>>
    BY FirstStep DEF Generate, AtCall
<1>2. Rec(t) \in Record /\ op[t].todo \in Seq(Step) /\ op[t].todo # <<>>
      /\ (persisted => Fit(Rec(t), op[t].todo))
    BY <1>1, Worker
<1>3. CASE Proceeds(t, [Rec(t) EXCEPT !.plan = TRUE], Generated)
    <2> DEFINE rec == [Rec(t) EXCEPT !.plan = TRUE]
    <2>1. rec \in Record /\ rec.timeline = Rec(t).timeline /\ rec.status = Rec(t).status
        BY <1>2 DEF Record
    <2> HIDE DEF rec
    <2>2. CASE persisted
        <3>1. rec.status = "PLANNING"
            BY <1>1, <1>2, <2>1, <2>2, GeneratingPlans
        <3>2. Fresh(rec, Generated) /\ rec.status \in Resting
            BY <3>1, GeneratedFresh DEF Resting
        <3> QED BY <1>1, <1>3, <2>1, <3>2, BeginInv DEF rec
    <2>3. CASE ~persisted
        <3>1. Generated \in Seq(Step) /\ Shape(Generated) /\ Asked(rec, Generated)
            <4>1. [status |-> "PLANNING"].status = "PLANNING"
                OBVIOUS
            <4> QED BY <2>3, <4>1, GeneratedFresh DEF Fresh, Asked
        <3>2. ~Owes(op[t].todo)
            BY <1>1, Worker, LastCall
        <3>3. Rec(t).timeline \in Seq(Event) /\ Begins(Rec(t).timeline, rec.timeline)
              /\ Numbered(rec.timeline) /\ claim \in Thread \union {Free}
            BY <1>1, <2>1, Worker DEF Inv, Types
        <3> QED BY <1>1, <1>3, <2>1, <2>3, <3>1, <3>2, <3>3, ProceedsInv DEF rec
    <2> QED BY <2>2, <2>3
<1>4. CASE Proceeds(t, Rec(t), PlanRefused)
    BY <1>1, <1>2, <1>4, PlanRefusedFresh, OwesAhead, BeginInv
<1> QED BY <1>3, <1>4 DEF Generate

LEMMA ExamineStep == ASSUME Inv, NEW t \in Thread, Examine(t) PROVE Inv'
<1>1. InFlight(t) /\ UNCHANGED <<inputVars, gone, claim, asked, client, overlapped, died>>
    BY DEF Examine, AtCall
<1>2. Rec(t) \in Record
    BY <1>1, Worker
<1>3. CASE Proceeds(t, Rec(t), VerificationFailed)
    BY <1>1, <1>2, <1>3, VerificationFailedFresh, OwesAhead, BeginInv
<1>4. ASSUME NEW status \in {"VERIFIED_PLAN", "PLAN_REJECTED"},
             Proceeds(t, Rec(t), Verified(status))
      PROVE  Inv'
    <2>1. status \in Terminal
        BY DEF Terminal
    <2>2. Fresh(Rec(t), Verified(status)) /\ Owes(Verified(status))
        BY <2>1, VerifiedFresh, OwesAhead
    <2> QED BY <1>1, <1>2, <1>4, <2>2, BeginInv
<1> QED BY <1>3, <1>4 DEF Examine

LEMMA CommitStep ==
    ASSUME Inv, NEW t \in Thread, Commit(t) \/ CommitRefused(t) \/ Annotate(t)
    PROVE  Inv'
<1>1. stored \in Record /\ claim \in Thread \union {Free} /\ died \in BOOLEAN
    BY DEF Inv, Types
<1>2. CASE Commit(t)
    BY <1>1, <1>2, StoreInv DEF Commit
<1>3. CASE CommitRefused(t)
    BY <1>1, <1>3, EndsInv DEF CommitRefused
<1>4. CASE Annotate(t)
    <2>1. CASE persisted /\ gone
        BY <1>1, <1>4, <2>1, EndsInv DEF Annotate
    <2>2. CASE ~(persisted /\ gone)
        BY <1>1, <1>4, <2>2, StoreInv DEF Annotate
    <2> QED BY <2>1, <2>2
<1> QED BY <1>2, <1>3, <1>4

LEMMA EraseBundleStep == ASSUME Inv, NEW t \in Thread, EraseBundle(t) PROVE Inv'
<1>1. InFlight(t) /\ op[t].todo[1].does = "erase"
    BY FirstStep DEF EraseBundle, AtCall
<1>2. ~Owes(op[t].todo)
    BY <1>1, Worker, LastCall
<1>3. /\ stored' \in Record /\ stored'.timeline = stored.timeline
      /\ stored'.status = stored.status
    BY DEF EraseBundle, Inv, Types, Record
<1>4. Ends(t) /\ died \in BOOLEAN
    BY DEF EraseBundle, Ends, Inv, Types
<1> QED BY <1>2, <1>3, <1>4, EndsInv DEF EraseBundle

LEMMA DeleteStep == ASSUME Inv, Delete PROVE Inv'
<1>1. UNCHANGED <<persisted, ready, risky, op, asked, client, overlapped, died>>
    BY DEF Delete, inputVars
<1>2. /\ stored' \in Record /\ stored'.timeline = stored.timeline
      /\ stored'.status = stored.status
    BY DEF Delete, Inv, Types, Record
<1>3. Types'
    BY <1>1, <1>2 DEF Delete, Inv, Types
<1>4. ASSUME NEW t \in Thread PROVE Worked(op[t])'
    <2>1. stored \in Record /\ Begins(stored.timeline, stored'.timeline)
        BY <1>2, BeginsItself DEF Inv, Types, Record
    <2>2. PICK w \in Work : w = op'[t] /\ Worked(w)
        BY <1>1 DEF Inv, Types
    <2>3. gone => gone'
        BY DEF Delete
    <2> QED BY <1>1, <1>2, <2>1, <2>2, <2>3, WorkStays
<1>5. Owed'
    BY <1>1, <1>2 DEF Inv, Owed
<1>6. (~overlapped => \A c \in Client : Followed(client[c]))'
    BY <1>1, <1>2, FollowedStill
<1>7. \A c \in Client : Streamed(client[c])'
    BY <1>1, StreamedKept
<1>8. Numbered(stored.timeline)' /\ Sound'
    BY <1>1, <1>2 DEF Inv, Sound, Whole
<1> QED BY <1>3, <1>4, <1>5, <1>6, <1>7, <1>8 DEF Inv

LEMMA OperateStep == ASSUME Inv, NEW t \in Thread, Operate(t) PROVE Inv'
BY AskStep, ReadStep, AdmitStep, ClaimStep, WriteStep, GenerateStep, ExamineStep, AnalyzeStep, BranchStep,
   StateLimitationsStep, SimulateStep, CommitStep, EraseBundleStep DEF Operate

----------------------------------------------------------------------------
(* The generators *)

LEMMA UnchangedWorks ==
    ASSUME Inv, NEW t \in Thread, UNCHANGED <<persisted, stored, gone, op, overlapped>>
    PROVE  Worked(op[t])'
<1>1. stored \in Record /\ Begins(stored.timeline, stored.timeline)
    BY BeginsItself DEF Inv, Types, Record
<1>2. PICK w \in Work : w = op'[t] /\ Worked(w)
    BY DEF Inv, Types
<1> QED BY <1>1, <1>2, WorkStays

LEMMA GeneratorKept ==
    ASSUME Inv, NEW c \in Client, NEW s \in Stream, client' = [client EXCEPT ![c] = s],
           Streamed(s), ~overlapped => Followed(s),
           UNCHANGED <<inputVars, stored, gone, claim, op, asked, overlapped, died>>
    PROVE  Inv'
<1>1. UNCHANGED <<persisted, ready, risky>>
    BY DEF inputVars
<1>2. client \in [Client -> Stream]
    BY DEF Inv, Types
<1>3. client' \in [Client -> Stream]
    BY <1>2
<1>4. \A d \in Client : client'[d] = IF d = c THEN s ELSE client[d]
    BY <1>2
<1>5. Types'
    BY <1>1, <1>3 DEF Inv, Types
<1>6. \A d \in Client : Streamed(client[d])'
    BY <1>1, <1>4 DEF Inv, Streamed
<1>7. (~overlapped => \A d \in Client : Followed(client[d]))'
    BY <1>1, <1>4 DEF Inv, Followed
<1>8. ASSUME NEW t \in Thread PROVE Worked(op[t])'
    BY <1>1, UnchangedWorks
<1>9. Owed'
    BY <1>1 DEF Inv, Owed
<1>10. Numbered(stored.timeline)' /\ Sound'
    BY <1>1 DEF Inv, Sound
<1> QED BY <1>5, <1>6, <1>7, <1>8, <1>9, <1>10 DEF Inv

LEMMA StreamIs ==
    ASSUME Inv, NEW c \in Client
    PROVE  /\ client[c] \in Stream /\ client[c].after \in Nat
           /\ client[c].view \in [status : Status, timeline : Seq(Event)]
           /\ client[c].sent \in Seq(Event) /\ client[c].view.timeline \in Seq(Event)
           /\ Streamed(client[c]) /\ (~overlapped => Followed(client[c]))
           /\ client[c].cursor \in Nat
<1>1. /\ client[c] \in Stream /\ Streamed(client[c])
      /\ (~overlapped => Followed(client[c]))
    BY DEF Inv, Types
<1>2. client[c].view \in [status : Status, timeline : Seq(Event)]
      /\ client[c].sent \in Seq(Event) /\ client[c].cursor \in Nat
    BY <1>1 DEF Stream
<1>3. client[c].view.timeline \in Seq(Event)
    BY <1>2
<1>4. client[c].after \in Nat
    <2>1. client[c].after \in After \/ client[c].after = 0
        BY <1>1 DEF Stream
    <2>2. After \subseteq Nat /\ 0 \in Nat
        BY TimelineAssumption
    <2> QED BY <2>1, <2>2
<1> QED BY <1>1, <1>2, <1>3, <1>4

LEMMA ConnectStep == ASSUME Inv, NEW c \in Client, Connect(c) PROVE Inv'
<1>1. PICK after \in After :
        client' = [client EXCEPT ![c] = [Closed EXCEPT !.pc = "hydrate", !.after = after,
                                                       !.cursor = after]]
    BY DEF Connect
<1> DEFINE s == [Closed EXCEPT !.pc = "hydrate", !.after = after, !.cursor = after]
<1>2. After \subseteq Nat
    BY TimelineAssumption
<1>3. /\ s.pc = "hydrate" /\ s.after = after /\ s.cursor = after /\ s.view = Unseen
      /\ s.sent = <<>> /\ s \in Stream
    <2>1. after \in Nat /\ after \in After \union {0}
        BY <1>2
    <2>2. <<>> \in Seq(Event)
        OBVIOUS
    <2> QED BY <2>1, <2>2, UnseenView DEF Closed, Stream
<1> HIDE DEF s
<1>4. Streamed(s) /\ Followed(s)
    BY <1>2, <1>3, UnseenView DEF Streamed, Followed
<1>5. client' = [client EXCEPT ![c] = s]
    BY <1>1 DEF s
<1> QED BY <1>3, <1>4, <1>5, GeneratorKept DEF Connect

\* Only where the stream stands, and what it knows of its analysis, changes.
LEMMA ViewKept ==
    ASSUME Inv, NEW c \in Client,
           NEW pc \in {"closed", "hydrate", "timeline", "wait", "complete", "broken"},
           NEW view \in [status : Status, timeline : Seq(Event)],
           client' = [client EXCEPT ![c] = [client[c] EXCEPT !.pc = pc, !.view = view]],
           Numbered(view.timeline),
           persisted /\ pc \in {"wait", "complete"} => view.timeline = <<>> \/ Whole(view),
           persisted /\ pc = "complete" => view.status \in Terminal,
           persisted /\ ~overlapped /\ pc = "timeline" => Told(stored.timeline, view.status),
           persisted /\ ~overlapped /\ pc = "wait" => Begins(view.timeline, stored.timeline),
           persisted /\ ~overlapped /\ pc \in {"wait", "complete"} =>
               view.timeline = <<>> \/ Told(view.timeline, view.status),
           UNCHANGED <<inputVars, stored, gone, claim, op, asked, overlapped, died>>
    PROVE  Inv'
<1> DEFINE s == [client[c] EXCEPT !.pc = pc, !.view = view]
<1>1. client[c] \in Stream /\ Streamed(client[c]) /\ (~overlapped => Followed(client[c]))
    BY StreamIs
<1>2. /\ s \in Stream /\ s.pc = pc /\ s.after = client[c].after
      /\ s.cursor = client[c].cursor /\ s.view = view /\ s.sent = client[c].sent
    BY <1>1 DEF Stream
<1> HIDE DEF s
<1>3. Streamed(s)
    BY <1>1, <1>2 DEF Streamed
<1>4. ~overlapped => Followed(s)
    BY <1>1, <1>2 DEF Followed
<1>5. client' = [client EXCEPT ![c] = s]
    BY DEF s
<1> QED BY <1>2, <1>3, <1>4, <1>5, GeneratorKept

LEMMA HydrateStep == ASSUME Inv, NEW c \in Client, Hydrate(c) PROVE Inv'
<1> DEFINE old == client[c]
<1>1. /\ old \in Stream /\ Streamed(old) /\ old.view \in [status : Status, timeline : Seq(Event)]
      /\ old.pc = "hydrate" /\ stored \in Record /\ Sound
    BY StreamIs DEF Hydrate, At, Inv, Types
<1>2. UNCHANGED <<inputVars, stored, gone, claim, op, asked, overlapped, died>>
    BY DEF Hydrate
<1>3. /\ Numbered(old.view.timeline) /\ stored.status \in Status
    BY <1>1 DEF Streamed, Record
<1>4. CASE gone
    <2>1. [old EXCEPT !.pc = "broken"] = [old EXCEPT !.pc = "broken", !.view = old.view]
        BY <1>1 DEF Stream
    <2>2. client' = [client EXCEPT ![c] = [old EXCEPT !.pc = "broken", !.view = old.view]]
        BY <1>4, <2>1 DEF Hydrate
    <2> QED BY <1>1, <1>2, <1>3, <2>2, ViewKept, ZenonT(60)
<1>5. CASE ~gone /\ persisted
    <2> DEFINE view == [Unseen EXCEPT !.status = stored.status]
    <2>1. client' = [client EXCEPT ![c] = [old EXCEPT !.pc = "timeline", !.view = view]]
        BY <1>5 DEF Hydrate
    <2>2. /\ view \in [status : Status, timeline : Seq(Event)] /\ view.timeline = <<>>
          /\ view.status = stored.status
        BY <1>3, UnseenView
    <2> HIDE DEF view
    <2>3. ~overlapped => Told(stored.timeline, view.status)
        BY <1>1, <1>5, <2>2 DEF Sound
    <2>4. Numbered(view.timeline)
        BY <2>2, UnseenView
    <2> HIDE DEF old
    <2>5. client' = [client EXCEPT ![c] = [client[c] EXCEPT !.pc = "timeline", !.view = view]]
        BY <2>1 DEF old
    <2> QED BY <1>2, <2>2, <2>3, <2>4, <2>5, ViewKept, ZenonT(60)
<1>6. CASE ~gone /\ ~persisted
    <2>1. [old EXCEPT !.pc = "wait"] = [old EXCEPT !.pc = "wait", !.view = old.view]
        BY <1>1 DEF Stream
    <2>2. client' = [client EXCEPT ![c] = [old EXCEPT !.pc = "wait", !.view = old.view]]
        BY <1>6, <2>1 DEF Hydrate
    <2> QED BY <1>1, <1>2, <1>3, <1>6, <2>2, ViewKept, ZenonT(60)
<1> QED BY <1>4, <1>5, <1>6

LEMMA HydrateTimelineStep == ASSUME Inv, NEW c \in Client, HydrateTimeline(c) PROVE Inv'
<1> DEFINE old == client[c]
           view == [status |-> old.view.status, timeline |-> Timeline]
<1>1. /\ old.view \in [status : Status, timeline : Seq(Event)] /\ old.pc = "timeline"
      /\ (~overlapped => Followed(old))
      /\ stored.timeline \in Seq(Event) /\ Numbered(stored.timeline) /\ Sound
    BY StreamIs DEF HydrateTimeline, At, Inv, Types, Record
<1>2. client' = [client EXCEPT ![c] = [old EXCEPT !.pc = "wait", !.view = view]]
    BY DEF HydrateTimeline
<1>3. UNCHANGED <<inputVars, stored, gone, claim, op, asked, overlapped, died>>
    BY DEF HydrateTimeline
<1>4. /\ Timeline \in Seq(Event) /\ Numbered(Timeline)
      /\ Timeline = <<>> \/ Timeline = stored.timeline
    BY <1>1, UnseenView DEF Timeline
<1>5. /\ view \in [status : Status, timeline : Seq(Event)] /\ view.timeline = Timeline
      /\ view.status = old.view.status
    BY <1>1, <1>4
<1> HIDE DEF view
<1>6. persisted => view.timeline = <<>> \/ Whole(view)
    BY <1>1, <1>4, <1>5 DEF Sound, Whole
<1>7. persisted /\ ~overlapped => view.timeline = <<>> \/ Told(view.timeline, view.status)
    BY <1>1, <1>4, <1>5 DEF Followed
<1>8. Begins(view.timeline, stored.timeline)
    <2>1. Begins(<<>>, stored.timeline)
        BY <1>1 DEF Begins
    <2> QED BY <1>1, <1>4, <1>5, <2>1, BeginsItself
<1> QED BY <1>2, <1>3, <1>4, <1>5, <1>6, <1>7, <1>8, ViewKept

\* Where a turn leaves the stream.
LEMMA TurnIs ==
    ASSUME Inv, NEW c \in Client, At(c, "wait")
    PROVE  LET s == TurnEnds(c)
           IN  /\ s \in Stream /\ s.after = client[c].after /\ s.cursor = client[c].cursor
               /\ s.sent = client[c].sent /\ s.pc \in {"complete", "hydrate"}
               /\ Streamed(s) /\ (~overlapped => Followed(s))
<1> DEFINE old == client[c]
           s == TurnEnds(c)
<1>1. /\ old \in Stream /\ Streamed(old) /\ (~overlapped => Followed(old)) /\ old.pc = "wait"
    BY StreamIs DEF At
<1>2. CASE View(c).status \in Terminal
    <2>1. s = [old EXCEPT !.pc = "complete"]
        BY <1>2 DEF TurnEnds
    <2>2. /\ s \in Stream /\ s.after = old.after /\ s.cursor = old.cursor
          /\ s.sent = old.sent /\ s.pc = "complete" /\ s.view = old.view
        BY <1>1, <2>1 DEF Stream
    <2>3. persisted => old.view.status \in Terminal
        BY <1>2 DEF View
    <2> HIDE DEF s
    <2>4. Streamed(s) /\ (~overlapped => Followed(s))
        BY <1>1, <2>2, <2>3 DEF Streamed, Followed
    <2> QED BY <2>2, <2>4 DEF s
<1>3. CASE View(c).status \notin Terminal
    <2>1. s = [old EXCEPT !.pc = "hydrate", !.view = Unseen]
        BY <1>3 DEF TurnEnds
    <2>2. /\ s \in Stream /\ s.after = old.after /\ s.cursor = old.cursor
          /\ s.sent = old.sent /\ s.pc = "hydrate" /\ s.view = Unseen
        BY <1>1, <2>1, UnseenView DEF Stream
    <2> HIDE DEF s
    <2>3. Streamed(s) /\ (~overlapped => Followed(s))
        BY <1>1, <2>2, UnseenView DEF Streamed, Followed
    <2> QED BY <2>2, <2>3 DEF s
<1> QED BY <1>2, <1>3

LEMMA HeartbeatStep == ASSUME Inv, NEW c \in Client, Heartbeat(c) PROVE Inv'
<1> DEFINE s == TurnEnds(c)
<1>1. At(c, "wait") /\ client' = [client EXCEPT ![c] = s]
    BY DEF Heartbeat
<1> HIDE DEF s
<1>2. s \in Stream /\ Streamed(s) /\ (~overlapped => Followed(s))
    BY <1>1, TurnIs DEF s
<1> QED BY <1>1, <1>2, GeneratorKept DEF Heartbeat

\* What a turn sends, and where it leaves the cursor.
LEMMA NewEvents ==
    ASSUME Inv, NEW c \in Client
    PROVE  LET timeline == View(c).timeline
               cursor == client[c].cursor
               last == IF New(c) = <<>> THEN cursor ELSE New(c)[Len(New(c))].sequence
           IN  /\ New(c) \in Seq(Event)
               /\ last \in Nat /\ last = cursor + Len(New(c))
               /\ \A i \in 1 .. Len(New(c)) :
                    /\ cursor + i <= Len(timeline)
                    /\ New(c)[i] = timeline[cursor + i]
                    /\ New(c)[i].sequence = cursor + i
<1> DEFINE timeline == View(c).timeline
           cursor == client[c].cursor
           n == Len(timeline)
           last == IF New(c) = <<>> THEN cursor ELSE New(c)[Len(New(c))].sequence
<1>1. timeline \in Seq(Event) /\ Numbered(timeline)
    BY StreamIs DEF View, Inv, Types, Record, Streamed
<1>2. cursor \in Nat /\ n \in Nat /\ DOMAIN timeline = 1..n
    BY <1>1, StreamIs
<1>3. New(c) = SubSeq(timeline, cursor + 1, n)
    BY DEF New
<1> HIDE DEF timeline, cursor, n
<1>4. CASE n <= cursor
    <2>1. New(c) = <<>>
        BY <1>2, <1>3, <1>4, SubSeqEmpty
    <2> QED BY <1>2, <2>1 DEF timeline, cursor
<1>5. CASE n > cursor
    <2>1. \A i \in cursor + 1 .. n : timeline[i] \in Event
        BY <1>1, <1>2, ElementOfSeq DEF n
    <2>2. /\ New(c) \in Seq(Event) /\ Len(New(c)) = n - (cursor + 1) + 1
          /\ \A i \in 1 .. n - (cursor + 1) + 1 : New(c)[i] = timeline[(cursor + 1) + i - 1]
        <3>1. cursor + 1 \in Int /\ n \in Int /\ cursor + 1 <= n
            BY <1>2, <1>5
        <3> QED BY <1>3, <2>1, <3>1, SubSeqProperties
    <2>3. Len(New(c)) = n - cursor /\ New(c) # <<>>
        BY <1>2, <1>5, <2>2
    <2>4. ASSUME NEW i \in 1 .. n - cursor
          PROVE  /\ cursor + i <= n
                 /\ New(c)[i] = timeline[cursor + i]
                 /\ New(c)[i].sequence = cursor + i
        <3>1. i \in 1 .. n - (cursor + 1) + 1 /\ (cursor + 1) + i - 1 = cursor + i
              /\ cursor + i \in 1..n
            BY <1>2
        <3>2. New(c)[i] = timeline[(cursor + 1) + i - 1]
            BY <2>2, <3>1
        <3>3. New(c)[i] = timeline[cursor + i]
            BY <3>1, <3>2
        <3>4. timeline[cursor + i].sequence = cursor + i
            BY <1>1, <1>2, <3>1 DEF Numbered
        <3> QED BY <3>1, <3>3, <3>4
    <2>5. last = n
        <3>1. n - cursor \in 1 .. n - cursor /\ cursor + (n - cursor) = n
            BY <1>2, <1>5
        <3> QED BY <2>3, <2>4, <3>1
    <2>6. /\ New(c) \in Seq(Event) /\ last \in Nat /\ last = cursor + Len(New(c))
          /\ \A i \in 1 .. Len(New(c)) :
               /\ cursor + i <= n
               /\ New(c)[i] = timeline[cursor + i]
               /\ New(c)[i].sequence = cursor + i
        <3>1. cursor + (n - cursor) = n
            BY <1>2
        <3> HIDE DEF last
        <3> QED BY <1>2, <2>2, <2>3, <2>4, <2>5, <3>1
    <2> QED BY <2>6 DEF timeline, cursor, n
<1> QED BY <1>2, <1>4, <1>5

LEMMA DeliverStep == ASSUME Inv, NEW c \in Client, Deliver(c) PROVE Inv'
<1> DEFINE timeline == View(c).timeline
           old == client[c]
           new == New(c)
           last == IF new = <<>> THEN old.cursor ELSE new[Len(new)].sequence
           turn == TurnEnds(c)
           s == [turn EXCEPT !.sent = old.sent \o new, !.cursor = last]
<1>1. client' = [client EXCEPT ![c] = s]
    BY DEF Deliver
<1>2. /\ old \in Stream /\ old.after \in Nat /\ old.sent \in Seq(Event)
      /\ Streamed(old) /\ (~overlapped => Followed(old)) /\ old.cursor \in Nat
      /\ old.pc = "wait"
    BY StreamIs DEF Deliver, At
<1>3. /\ new \in Seq(Event)
      /\ last \in Nat /\ last = old.cursor + Len(new)
      /\ \A i \in 1 .. Len(new) :
           /\ old.cursor + i <= Len(timeline)
           /\ new[i] = timeline[old.cursor + i]
           /\ new[i].sequence = old.cursor + i
    BY NewEvents
<1>0. /\ turn \in Stream /\ turn.after = old.after /\ turn.pc \in {"complete", "hydrate"}
      /\ Streamed(turn) /\ (~overlapped => Followed(turn))
    BY TurnIs DEF Deliver
<1> HIDE DEF new, last, turn, timeline, old
<1>4. /\ old.sent \o new \in Seq(Event)
      /\ Len(old.sent \o new) = Len(old.sent) + Len(new)
      /\ \A i \in 1 .. Len(old.sent) : (old.sent \o new)[i] = old.sent[i]
      /\ \A i \in 1 .. Len(new) : (old.sent \o new)[Len(old.sent) + i] = new[i]
    BY <1>2, <1>3, Joined
<1>6. /\ s \in Stream /\ s.pc = turn.pc /\ s.after = old.after /\ s.cursor = last
      /\ s.view = turn.view /\ s.sent = old.sent \o new
    BY <1>0, <1>2, <1>3, <1>4 DEF Stream
<1> HIDE DEF s
<1>7. old.cursor = old.after + Len(old.sent)
    BY <1>2 DEF Streamed
<1>8. Len(old.sent) \in Nat /\ Len(new) \in Nat
    BY <1>2, <1>3
<1>9. ASSUME NEW i \in 1 .. Len(s.sent), i \notin 1 .. Len(old.sent)
      PROVE  /\ old.after + i <= Len(timeline)
             /\ s.sent[i] = timeline[old.after + i]
             /\ s.sent[i].sequence = old.after + i
    <2> DEFINE j == i - Len(old.sent)
    <2>1. j \in 1 .. Len(new) /\ Len(old.sent) + j = i /\ old.cursor + j = old.after + i
        BY <1>2, <1>4, <1>6, <1>7, <1>8, <1>9
    <2> HIDE DEF j
    <2>2. s.sent[i] = new[j]
        BY <1>4, <1>6, <2>1
    <2> QED BY <1>3, <2>1, <2>2
<1>10. \A i \in 1 .. Len(old.sent) : s.sent[i] = old.sent[i]
    BY <1>4, <1>6
<1>11. Streamed(s)
    <2>1. s.cursor = s.after + Len(s.sent)
        BY <1>2, <1>3, <1>4, <1>6, <1>7, <1>8
    <2>2. \A i \in 1 .. Len(s.sent) : s.sent[i].sequence = s.after + i
        BY <1>2, <1>6, <1>9, <1>10 DEF Streamed
    <2> QED BY <1>0, <1>6, <2>1, <2>2 DEF Streamed
<1>12. ASSUME ~overlapped PROVE Followed(s)
    <2>1. Followed(old)
        BY <1>2, <1>12
    <2>2. Begins(timeline, stored.timeline)
        <3>1. CASE persisted
            BY <1>2, <2>1, <3>1 DEF Followed, timeline, View, old
        <3>2. CASE ~persisted
            BY <3>2, BeginsItself DEF timeline, View, Inv, Types, Record
        <3> QED BY <3>1, <3>2
    <2>3. stored.timeline \in Seq(Event) /\ timeline \in Seq(Event)
        BY StreamIs DEF timeline, View, Inv, Types, Record
    <2>4. ASSUME NEW i \in 1 .. Len(s.sent)
          PROVE  s.after + i <= Len(stored.timeline) /\ s.sent[i] = stored.timeline[s.after + i]
        <3>1. CASE i \in 1 .. Len(old.sent)
            BY <1>6, <1>10, <2>1, <3>1 DEF Followed
        <3>2. CASE i \notin 1 .. Len(old.sent)
            <4>1. old.after + i <= Len(timeline) /\ s.sent[i] = timeline[old.after + i]
                BY <1>9, <3>2
            <4>2. old.after + i \in 1 .. Len(timeline)
                BY <1>2, <2>3, <4>1
            <4> QED BY <1>6, <2>2, <2>3, <4>1, <4>2 DEF Begins
        <3> QED BY <3>1, <3>2
    <2>5. s.pc \in {"complete", "hydrate"} /\ Followed(turn)
        BY <1>0, <1>6, <1>12
    <2> QED BY <1>6, <2>4, <2>5 DEF Followed
<1>13. client' = [client EXCEPT ![c] = s]
    BY <1>1 DEF s, old
<1> QED BY <1>6, <1>11, <1>12, <1>13, GeneratorKept DEF Deliver

----------------------------------------------------------------------------
(* The theorems *)

LEMMA PlannedRecord ==
    ASSUME NEW status \in Judged
    PROVE  /\ Planned(status) \in Record /\ Numbered(Planned(status).timeline)
           /\ Planned(status).status = "PLANNING" /\ Whole(Planned(status))
<1> DEFINE done == <<"BUNDLE_STAGED", "STATIC_ANALYSIS_STARTED", "STATIC_ANALYSIS_COMPLETED",
                     "SANDBOX_STARTED", "SANDBOX_RUN", "ANALYSIS_COMPLETED",
                     "PLAN_GENERATION_STARTED", "PLAN_GENERATED">>
           timeline == [i \in 1 .. Len(done) |-> [sequence |-> i, type |-> done[i]]]
<1>1. done \in Seq(EventType) /\ Len(done) = 8
    BY DEF EventType
<1>2. /\ \A i \in 1..8 : done[i] \in EventType
      /\ done[8] = "PLAN_GENERATED"
    BY <1>1, ElementOfSeq
<1> HIDE DEF done
<1>3. \A i \in 1..8 : [sequence |-> i, type |-> done[i]] \in Event
    BY <1>2 DEF Event
<1>4. timeline \in Seq(Event) /\ Numbered(timeline)
    BY <1>1, <1>3 DEF Numbered
<1>5. Planned(status) =
        [status |-> "PLANNING", verdict |-> status, findings |-> TRUE, plan |-> TRUE,
         bundle |-> TRUE, timeline |-> timeline]
    BY DEF Planned, done
<1>6. EndsWith(timeline, Final)
    <2>1. DOMAIN timeline = 1..8 /\ Len(timeline) = 8 /\ timeline[8].type = "PLAN_GENERATED"
        BY <1>1, <1>2
    <2> HIDE DEF timeline
    <2> QED BY <2>1 DEF EndsWith, Final
<1> HIDE DEF timeline
<1> QED BY <1>4, <1>5, <1>6 DEF Record, Status, Whole

LEMMA InitInv == Init => Inv
<1> SUFFICES ASSUME Init PROVE Inv
    OBVIOUS
<1>1. /\ stored \in Record /\ Numbered(stored.timeline) /\ Whole(stored)
      /\ stored.status \in {"STAGED", "PLANNING"}
    <2>1. CASE stored = Staged
        BY <2>1, StagedRecord DEF Staged
    <2>2. CASE stored \in {Planned(status) : status \in Judged}
        BY <2>2, PlannedRecord
    <2> QED BY <2>1, <2>2 DEF Init
<1>2. stored.status \in Resting /\ stored.status \notin Terminal
    BY <1>1, TimelineAssumption DEF Resting, Terminal
<1>3. \A t \in Thread : op[t] = Idle
    BY DEF Init
<1>4. op \in [Thread -> Work] /\ \A t \in Thread : Worked(op[t])
    BY <1>3, IdleWork DEF Init
<1>5. /\ Closed.pc = "closed" /\ Closed.after = 0 /\ Closed.cursor = 0
      /\ Closed.view = Unseen /\ Closed.sent = <<>> /\ Closed \in Stream
    <2>1. <<>> \in Seq(Event)
        OBVIOUS
    <2> QED BY <2>1, UnseenView DEF Closed, Stream
<1>6. Streamed(Closed) /\ Followed(Closed)
    BY <1>5, UnseenView DEF Streamed, Followed
<1>7. \A c \in Client : client[c] = Closed
    BY DEF Init
<1>8. client \in [Client -> Stream] /\ \A c \in Client : Streamed(client[c]) /\ Followed(client[c])
    BY <1>5, <1>6, <1>7 DEF Init
<1>9. Types
    <2>1. asked \in 0..Requests
        BY TimelineAssumption DEF Init
    <2> QED BY <1>1, <1>4, <1>8, <2>1 DEF Init, Types
<1> QED BY <1>1, <1>2, <1>4, <1>8, <1>9 DEF Inv, Sound, Told, Owed

LEMMA NextInv == Inv /\ [Next]_vars => Inv'
<1> SUFFICES ASSUME Inv, [Next]_vars PROVE Inv'
    OBVIOUS
<1>1. CASE UNCHANGED vars
    <2>1. \A t \in Thread : Worked(op[t])'
        BY <1>1, UnchangedWorks DEF vars, inputVars
    <2> QED BY <1>1, <2>1 DEF vars, inputVars, Inv, Types, Sound, Streamed, Followed, Owed
<1>2. ASSUME NEW t \in Thread, Operate(t) PROVE Inv'
    BY <1>2, OperateStep
<1>3. ASSUME NEW c \in Client, Connect(c) \/ Generator(c) PROVE Inv'
    BY <1>3, ConnectStep, HydrateStep, HydrateTimelineStep, DeliverStep, HeartbeatStep DEF Generator
<1>4. CASE Delete
    BY <1>4, DeleteStep
<1> QED BY <1>1, <1>2, <1>3, <1>4 DEF Next

\* The inductive invariant of the streams.
THEOREM StreamInvariant == Spec => []Inv
<1> QED BY InitInv, NextInv, PTL DEF Spec

LEMMA InvTypes == Inv => TypeOK
<1> SUFFICES ASSUME Inv PROVE TypeOK
    OBVIOUS
<1>1. \A t \in Thread : op[t].copy \in Record /\ op[t].base \in Seq(Event)
    BY DEF Inv, Types, Work
<1>2. \A c \in Client :
        /\ client[c].pc \in {"closed", "hydrate", "timeline", "wait", "complete", "broken"}
        /\ client[c].after \in After \union {0} /\ client[c].cursor \in Nat
        /\ client[c].view \in [status : Status, timeline : Seq(Event)]
        /\ client[c].sent \in Seq(Event)
    BY DEF Inv, Types, Stream
<1> QED BY <1>1, <1>2 DEF TypeOK, Inv, Types

\* The types of the streams' specification.
THEOREM StreamTypes == Spec => []TypeOK
<1> QED BY InvTypes, StreamInvariant, PTL

LEMMA InvFaithful == Inv => StreamFaithful
<1> SUFFICES ASSUME Inv, NEW c \in Client
             PROVE  LET sent == client[c].sent
                        after == client[c].after
                    IN  /\ client[c].cursor = after + Len(sent)
                        /\ \A i \in DOMAIN sent : sent[i].sequence = after + i
                        /\ ~overlapped /\ sent # <<>> =>
                             sent = SubSeq(stored.timeline, after + 1, client[c].cursor)
    BY DEF StreamFaithful
<1> DEFINE sent == client[c].sent
           after == client[c].after
           cursor == client[c].cursor
<1>1. /\ sent \in Seq(Event) /\ after \in Nat /\ Len(sent) \in Nat
      /\ DOMAIN sent = 1 .. Len(sent)
    BY StreamIs
<1>2. /\ cursor = after + Len(sent)
      /\ \A i \in 1 .. Len(sent) : sent[i].sequence = after + i
    BY StreamIs DEF Streamed
<1>3. ASSUME ~overlapped, sent # <<>>
      PROVE  sent = SubSeq(stored.timeline, after + 1, cursor)
    <2> DEFINE timeline == stored.timeline
    <2>1. /\ \A i \in 1 .. Len(sent) :
               after + i <= Len(timeline) /\ sent[i] = timeline[after + i]
        BY <1>3, StreamIs DEF Followed
    <2>2. timeline \in Seq(Event) /\ Len(timeline) \in Nat
        BY DEF Inv, Types, Record
    <2> HIDE DEF sent, after, cursor, timeline
    <2>3. Len(sent) >= 1
        BY <1>1, <1>3
    <2>4. ASSUME NEW k \in after + 1 .. cursor PROVE timeline[k] \in Event
        <3>1. k - after \in 1 .. Len(sent) /\ after + (k - after) = k
            BY <1>1, <1>2
        <3>2. k \in 1 .. Len(timeline)
            BY <1>1, <2>1, <2>2, <3>1
        <3> QED BY <2>2, <3>2, ElementOfSeq
    <2>5. LET part == SubSeq(timeline, after + 1, cursor)
          IN  /\ part \in Seq(Event) /\ Len(part) = Len(sent)
              /\ \A i \in 1 .. Len(sent) : part[i] = timeline[after + i]
        <3> DEFINE part == SubSeq(timeline, after + 1, cursor)
        <3>1. after + 1 \in Int /\ cursor \in Int /\ after + 1 <= cursor
            BY <1>1, <1>2, <2>3
        <3>2. /\ part \in Seq(Event) /\ Len(part) = cursor - (after + 1) + 1
              /\ \A i \in 1 .. cursor - (after + 1) + 1 : part[i] = timeline[(after + 1) + i - 1]
            BY <2>4, <3>1, SubSeqProperties
        <3>3. cursor - (after + 1) + 1 = Len(sent)
            BY <1>1, <1>2
        <3>4. \A i \in 1 .. Len(sent) : (after + 1) + i - 1 = after + i
            BY <1>1
        <3> HIDE DEF part
        <3>5. \A i \in 1 .. Len(sent) : part[i] = timeline[after + i]
            BY <3>2, <3>3, <3>4
        <3> QED BY <3>2, <3>3, <3>5 DEF part
    <2> QED BY <1>1, <2>1, <2>5, SeqEqual DEF timeline
<1> QED BY <1>1, <1>2, <1>3

\* A stream sends consecutive numbers and, until a save has replaced a newer row, the
\* analysis's own events: none is left out, and none sent twice.
THEOREM StreamIsFaithful == Spec => []StreamFaithful
<1> QED BY InvFaithful, StreamInvariant, PTL

\* With persistence a stream completes only with a timeline that goes to the end of an
\* operation, and that tells of its status unless a save has replaced a newer row, although
\* the two are read one after the other.
THEOREM CompletesAfterLastEvent == Spec => []CompleteAfterLastEvent
<1>1. Inv => CompleteAfterLastEvent
    BY DEF Inv, CompleteAfterLastEvent, Streamed, Followed, Whole, Told, At
<1> QED BY <1>1, StreamInvariant, PTL

\* When nobody works on an analysis it rests, unless an operation died; with persistence
\* nobody ever sees another status.
THEOREM AnalysisSettles == Spec => []Settled
<1>1. Inv => Settled
    <2> SUFFICES ASSUME Inv, persisted \/ (~died /\ \A t \in Thread : ~InFlight(t))
                 PROVE  stored.status \in Terminal \union {"STAGED", "PLANNING"}
        BY DEF Settled
    <2>1. CASE persisted
        BY <2>1 DEF Inv, Sound, Resting
    <2>2. CASE ~persisted
        <3>1. \A t \in Thread : ~Owes(op[t].todo)
            <4>1. ~Owes(<<>>)
                BY DEF Owes
            <4> QED BY <2>2, <4>1 DEF InFlight
        <3> QED BY <2>2, <3>1 DEF Inv, Owed, Resting
    <2> QED BY <2>1, <2>2
<1> QED BY <1>1, StreamInvariant, PTL

----------------------------------------------------------------------------
(* Results keep the lease *)

HasWork(todo) == \E i \in DOMAIN todo : todo[i].does \in Working

\* An operation between its claim and the save of its result.
Holding(w) == w.todo # <<>> /\ Head(w.todo).does # "claim" /\ HasWork(w.todo)

\* A claim comes first and before some work, and a save comes after all of it.
Leased(todo) ==
    \A i \in DOMAIN todo :
        /\ todo[i].does = "claim" => i = 1 /\ HasWork(todo)
        /\ todo[i].does \in {"save", "annotate"} =>
             \A j \in i + 1 .. Len(todo) : todo[j].does \notin Working

\* The inductive invariant: operations keep the order of claim, work and save; while the
\* analysis is there, only the one whose token is in the row is between them.
LeaseInv ==
    persisted =>
        /\ \A t \in Thread : Leased(op[t].todo)
        /\ gone => claim = Free
        /\ ~gone => \A t \in Thread : Holding(op[t]) => claim = t

LEMMA HoldersAre == \A t \in Thread : t \in Holders <=> Holding(op[t])
BY DEF Holders, Holding, HasWork, InFlight, AtCall

LEMMA LeasedWork ==
    /\ Leased(<<>>) /\ ~HasWork(<<>>)
    /\ Leased(Analyzed) /\ Leased(StaticOnly) /\ Leased(Simulating)
    /\ Leased(SimulationFailed) /\ Leased(Generated) /\ Leased(PlanRefused)
    /\ \A status : Leased(Verified(status))
    /\ Leased(VerificationFailed)
    /\ Leased(Insight) /\ ~HasWork(Insight)
<1> USE DEF Leased, HasWork, Working, Becomes, Logs, Judges, Does
<1>1. Leased(<<>>) /\ ~HasWork(<<>>)
    OBVIOUS
<1>2. Leased(Analyzed)
    BY DEF Analyzed
<1>3. Leased(StaticOnly)
    BY DEF StaticOnly, Save, Erase
<1>4. Leased(Simulating)
    BY DEF Simulating
<1>5. Leased(SimulationFailed)
    BY DEF SimulationFailed, Save
<1>6. Leased(Generated)
    BY DEF Generated, Save
<1>7. Leased(PlanRefused)
    BY DEF PlanRefused, Save
<1>8. \A status : Leased(Verified(status))
    BY DEF Verified, Save, Erase
<1>9. Leased(VerificationFailed)
    BY DEF VerificationFailed, Save
<1>10. Leased(Insight) /\ ~HasWork(Insight)
    BY DEF Insight
<1> QED BY <1>1, <1>2, <1>3, <1>4, <1>5, <1>6, <1>7, <1>8, <1>9, <1>10

LEMMA SimulatedLeased ==
    ASSUME NEW status \in Terminal, NEW n \in Nat
    PROVE  Leased(Simulated(status, n))
<1> DEFINE todo == Simulated(status, n)
<1>1. /\ todo \in Seq(Step) /\ Len(todo) \in {n + 3, n + 4}
      /\ todo[1] = Judges(status)
      /\ \A i \in 2 .. n + 1 : todo[i] = Logs("SANDBOX_RUN")
      /\ todo[n + 2] = Logs("ANALYSIS_COMPLETED")
      /\ todo[n + 3] = Save
      /\ Len(todo) = n + 4 => todo[n + 4] = Erase
    BY SimulatedSteps
<1> HIDE DEF todo
<1>2. DOMAIN todo = 1 .. Len(todo)
    BY <1>1
<1>3. /\ \A i \in 1 .. n + 2 : todo[i].does \in {"judge", "event"}
      /\ todo[n + 3].does = "save"
      /\ Len(todo) = n + 4 => todo[n + 4].does = "erase"
    <2>1. \A i \in 1 .. n + 2 : i = 1 \/ i \in 2 .. n + 1 \/ i = n + 2
        OBVIOUS
    <2> QED BY <1>1, <2>1 DEF Judges, Logs, Does, Save, Erase
<1>4. SUFFICES ASSUME NEW i \in DOMAIN todo
               PROVE  /\ todo[i].does # "claim"
                      /\ todo[i].does \in {"save", "annotate"} =>
                           \A j \in i + 1 .. Len(todo) : todo[j].does \notin Working
    BY DEF Leased, todo
<1>5. i \in 1 .. n + 2 \/ i = n + 3 \/ (i = n + 4 /\ Len(todo) = n + 4)
    <2> DEFINE last == Len(todo)
    <2>1. (last = n + 3 \/ last = n + 4) /\ i \in 1 .. last
        BY <1>1, <1>2
    <2> HIDE DEF last
    <2>2. i \in 1 .. n + 2 \/ i = n + 3 \/ (i = n + 4 /\ last = n + 4)
        BY <2>1
    <2> QED BY <2>2 DEF last
<1>6. \A j \in n + 4 .. Len(todo) : todo[j].does \notin Working
    BY <1>1, <1>3 DEF Working
<1> QED BY <1>3, <1>5, <1>6

LEMMA ClaimedNonEmpty ==
    /\ <<Does("claim")>> \o Run # <<>> /\ <<Does("claim")>> \o Plan # <<>>
    /\ <<Does("claim")>> \o Verify # <<>>
<1>1. /\ Does("claim") \in Step /\ Does("analyze") \in Step /\ Does("generate") \in Step
      /\ Does("verify") \in Step
      /\ Becomes("ANALYZING") \in Step /\ Becomes("PLANNING") \in Step
      /\ Becomes("VERIFYING_PLAN") \in Step
      /\ Logs("STATIC_ANALYSIS_STARTED") \in Step /\ Logs("PLAN_GENERATION_STARTED") \in Step
      /\ Logs("PLAN_VERIFICATION_STARTED") \in Step
    BY StepTypes DEF EventType, Call, Status
<1>2. /\ <<Does("claim")>> \o Run = <<Does("claim"), Becomes("ANALYZING"),
                                      Logs("STATIC_ANALYSIS_STARTED"), Does("analyze")>>
      /\ <<Does("claim")>> \o Plan = <<Does("claim"), Becomes("PLANNING"),
                                       Logs("PLAN_GENERATION_STARTED"), Does("generate")>>
      /\ <<Does("claim")>> \o Verify = <<Does("claim"), Becomes("VERIFYING_PLAN"),
                                         Logs("PLAN_VERIFICATION_STARTED"), Does("verify")>>
    BY <1>1, Prepended DEF Run, Plan, Verify
<1> QED BY <1>2

LEMMA ClaimedLeased ==
    /\ Leased(<<Does("claim")>> \o Run) /\ Head(<<Does("claim")>> \o Run).does = "claim"
    /\ Leased(<<Does("claim")>> \o Plan) /\ Head(<<Does("claim")>> \o Plan).does = "claim"
    /\ Leased(<<Does("claim")>> \o Verify)
    /\ Head(<<Does("claim")>> \o Verify).does = "claim"
<1>1. ASSUME NEW a \in Step, NEW b \in Step, NEW c \in Step,
             NEW call \in {"analyze", "generate", "verify"},
             a.does = "claim", b.does = "status", c.does = "event"
      PROVE  /\ Leased(<<a, b, c, Does(call)>>)
             /\ Head(<<a, b, c, Does(call)>>).does = "claim"
    <2> DEFINE todo == <<a, b, c, Does(call)>>
    <2>1. HasWork(todo)
        <3>1. 4 \in DOMAIN todo /\ todo[4].does \in Working
            BY DEF Does, Working
        <3> QED BY <3>1 DEF HasWork
    <2>2. /\ DOMAIN todo = 1 .. 4
          /\ todo[1] = a /\ todo[2] = b /\ todo[3] = c /\ todo[4] = Does(call)
          /\ Head(todo) = a
        OBVIOUS
    <2>3. Does(call).does = call
        BY DEF Does
    <2> HIDE DEF todo
    <2>4. /\ \A i \in 2 .. 4 : todo[i].does # "claim"
          /\ \A i \in 1 .. 4 : todo[i].does \notin {"save", "annotate"}
        <3>1. \A i \in 1 .. 4 : i = 1 \/ i = 2 \/ i = 3 \/ i = 4
            OBVIOUS
        <3>2. /\ todo[1].does = "claim" /\ todo[2].does = "status"
              /\ todo[3].does = "event"
              /\ todo[4].does \in {"analyze", "generate", "verify"}
            BY <1>1, <2>2, <2>3
        <3> QED BY <3>1, <3>2
    <2>5. \A i \in 1 .. 4 : i # 1 => i \in 2 .. 4
        OBVIOUS
    <2>6. Leased(todo)
        BY <2>1, <2>2, <2>4, <2>5 DEF Leased
    <2> QED BY <1>1, <2>2, <2>6 DEF todo
<1>2. /\ Does("claim") \in Step /\ Does("analyze") \in Step /\ Does("generate") \in Step
      /\ Does("verify") \in Step
      /\ Becomes("ANALYZING") \in Step /\ Becomes("PLANNING") \in Step
      /\ Becomes("VERIFYING_PLAN") \in Step
      /\ Logs("STATIC_ANALYSIS_STARTED") \in Step /\ Logs("PLAN_GENERATION_STARTED") \in Step
      /\ Logs("PLAN_VERIFICATION_STARTED") \in Step
    BY StepTypes DEF EventType, Call, Status
<1>3. /\ <<Does("claim")>> \o Run = <<Does("claim"), Becomes("ANALYZING"),
                                      Logs("STATIC_ANALYSIS_STARTED"), Does("analyze")>>
      /\ <<Does("claim")>> \o Plan = <<Does("claim"), Becomes("PLANNING"),
                                       Logs("PLAN_GENERATION_STARTED"), Does("generate")>>
      /\ <<Does("claim")>> \o Verify = <<Does("claim"), Becomes("VERIFYING_PLAN"),
                                         Logs("PLAN_VERIFICATION_STARTED"), Does("verify")>>
    BY <1>2, Prepended DEF Run, Plan, Verify
<1>4. /\ Does("claim").does = "claim"
      /\ \A status : Becomes(status).does = "status"
      /\ \A type : Logs(type).does = "event"
    BY DEF Does, Becomes, Logs
<1>5. /\ Leased(<<Does("claim")>> \o Run)
      /\ Head(<<Does("claim")>> \o Run).does = "claim"
    <2> DEFINE b == Becomes("ANALYZING")
               c == Logs("STATIC_ANALYSIS_STARTED")
    <2>1. /\ Leased(<<Does("claim"), b, c, Does("analyze")>>)
          /\ Head(<<Does("claim"), b, c, Does("analyze")>>).does = "claim"
        <3>1. /\ b \in Step /\ b.does = "status" /\ c \in Step /\ c.does = "event"
              /\ Does("claim") \in Step /\ Does("claim").does = "claim"
            BY <1>2, <1>4
        <3> HIDE DEF b, c
        <3> QED BY <1>1, <3>1
    <2> QED BY <1>3, <2>1
<1>6. /\ Leased(<<Does("claim")>> \o Plan)
      /\ Head(<<Does("claim")>> \o Plan).does = "claim"
    <2> DEFINE b == Becomes("PLANNING")
               c == Logs("PLAN_GENERATION_STARTED")
    <2>1. /\ Leased(<<Does("claim"), b, c, Does("generate")>>)
          /\ Head(<<Does("claim"), b, c, Does("generate")>>).does = "claim"
        <3>1. /\ b \in Step /\ b.does = "status" /\ c \in Step /\ c.does = "event"
              /\ Does("claim") \in Step /\ Does("claim").does = "claim"
            BY <1>2, <1>4
        <3> HIDE DEF b, c
        <3> QED BY <1>1, <3>1
    <2> QED BY <1>3, <2>1
<1>7. /\ Leased(<<Does("claim")>> \o Verify)
      /\ Head(<<Does("claim")>> \o Verify).does = "claim"
    <2> DEFINE b == Becomes("VERIFYING_PLAN")
               c == Logs("PLAN_VERIFICATION_STARTED")
    <2>1. /\ Leased(<<Does("claim"), b, c, Does("verify")>>)
          /\ Head(<<Does("claim"), b, c, Does("verify")>>).does = "claim"
        <3>1. /\ b \in Step /\ b.does = "status" /\ c \in Step /\ c.does = "event"
              /\ Does("claim") \in Step /\ Does("claim").does = "claim"
            BY <1>2, <1>4
        <3> HIDE DEF b, c
        <3> QED BY <1>1, <3>1
    <2> QED BY <1>3, <2>1
<1> QED BY <1>5, <1>6, <1>7

\* What is left of an operation is in order too; after a claim there is work, after a
\* save or an annotation none.
LEMMA LeasedRest ==
    ASSUME NEW todo \in Seq(Step), todo # <<>>, Leased(todo)
    PROVE  /\ Leased(Tail(todo))
           /\ HasWork(Tail(todo)) => HasWork(todo)
           /\ Head(todo).does = "claim" =>
                HasWork(Tail(todo)) /\ Tail(todo) # <<>> /\ Head(Tail(todo)).does # "claim"
           /\ Head(todo).does \in {"save", "annotate"} => ~HasWork(Tail(todo))
<1> DEFINE rest == Tail(todo)
           n == Len(todo)
<1>1. /\ n \in Nat \ {0} /\ Head(todo) = todo[1] /\ DOMAIN todo = 1 .. n
      /\ rest \in Seq(Step) /\ Len(rest) = n - 1 /\ DOMAIN rest = 1 .. n - 1
      /\ \A i \in 1 .. n - 1 : rest[i] = todo[i + 1]
    BY Rest
<1>2. \A i \in 1 .. n - 1 : i + 1 \in 1 .. n /\ i + 1 # 1
    BY <1>1
<1>3. \A i \in 1 .. n : i # 1 => i - 1 \in 1 .. n - 1 /\ rest[i - 1] = todo[i]
    BY <1>1
<1> HIDE DEF rest, n
<1>4. \A i \in 1 .. n - 1 : rest[i].does # "claim"
    BY <1>1, <1>2 DEF Leased
<1>5. \A i \in 1 .. n - 1 : rest[i].does \in {"save", "annotate"} =>
          \A j \in i + 1 .. n - 1 : rest[j].does \notin Working
    <2> SUFFICES ASSUME NEW i \in 1 .. n - 1, rest[i].does \in {"save", "annotate"},
                        NEW j \in i + 1 .. n - 1
                 PROVE  rest[j].does \notin Working
        OBVIOUS
    <2>1. /\ rest[j] = todo[j + 1] /\ rest[i] = todo[i + 1]
          /\ i + 1 \in 1 .. n /\ j + 1 \in (i + 1) + 1 .. n
        BY <1>1
    <2> QED BY <1>1, <2>1 DEF Leased, n
<1>6. Leased(rest)
    BY <1>1, <1>4, <1>5 DEF Leased
<1>7. HasWork(rest) => HasWork(todo)
    BY <1>1, <1>2 DEF HasWork
<1>8. ASSUME Head(todo).does = "claim"
      PROVE  HasWork(rest) /\ rest # <<>> /\ Head(rest).does # "claim"
    <2>1. PICK i \in 1 .. n : todo[i].does \in Working
        <3>1. 1 \in 1 .. n
            BY <1>1
        <3> QED BY <1>1, <1>8, <3>1 DEF Leased, HasWork
    <2>2. i # 1
        BY <1>1, <1>8, <2>1 DEF Working
    <2>3. i - 1 \in DOMAIN rest /\ rest[i - 1].does \in Working
        BY <1>1, <1>3, <2>1, <2>2
    <2>4. rest # <<>> /\ 1 \in 1 .. n - 1
        BY <1>1, <2>3
    <2>5. Head(rest) = rest[1]
        BY <1>1, <2>4
    <2> QED BY <1>4, <2>3, <2>4, <2>5 DEF HasWork
<1>9. ASSUME Head(todo).does \in {"save", "annotate"}
      PROVE  ~HasWork(rest)
    <2>1. 1 \in 1 .. n /\ \A j \in 1 + 1 .. n : todo[j].does \notin Working
        BY <1>1, <1>9 DEF Leased, n
    <2>2. \A j \in 1 .. n - 1 : j + 1 \in 1 + 1 .. n
        BY <1>1
    <2> QED BY <1>1, <2>1, <2>2 DEF HasWork
<1> QED BY <1>6, <1>7, <1>8, <1>9 DEF rest

\* What a step has to do: keep the invariant, and be a step of the lease or none.
Keeps == LeaseInv' /\ (Lease!LeaseNext \/ UNCHANGED Lease!leaseVars)

\* The lease sees no bundle.
Masked(rec) == [rec EXCEPT !.bundle = TRUE]

\* A step of one operation that touches neither the claim nor the row: its operation goes
\* on, or it leaves with the claim behind it.
LEMMA WorkKeeps ==
    ASSUME Inv, LeaseInv, persisted, NEW t \in Thread, NEW w,
           op' = [op EXCEPT ![t] = w],
           Leased(w.todo), Holding(w) => Holding(op[t]),
           UNCHANGED <<persisted, gone, claim>>, Masked(stored') = Masked(stored)
    PROVE  Keeps
<1>1. op \in [Thread -> Work] /\ claim \in Thread \union {Free}
    BY DEF Inv, Types
<1>2. op'[t] = w /\ \A u \in Thread \ {t} : op'[u] = op[u]
    BY <1>1
<1>3. LeaseInv'
    BY <1>2 DEF LeaseInv
<1>4. \A u \in Thread : u \in Holders' <=> Holding(op'[u])
    BY DEF Holders, Holding, HasWork, InFlight, AtCall
<1>5. Holders \subseteq Thread /\ Holders' \subseteq Thread
    BY DEF Holders
<1>6. CASE Holding(w) <=> Holding(op[t])
    <2>1. Holders' = Holders
        BY <1>2, <1>4, <1>5, <1>6, HoldersAre
    <2>2. UNCHANGED Lease!leaseVars
        BY <2>1 DEF Lease!leaseVars, Masked
    <2> QED BY <1>3, <2>2 DEF Keeps
<1>7. CASE ~Holding(w) /\ Holding(op[t])
    <2>1. Holders' = Holders \ {t} /\ t \in Holders
        BY <1>2, <1>4, <1>5, <1>7, HoldersAre
    <2>2. t # Free /\ t # None
        BY TimelineAssumption DEF Free, None
    <2>3. Lease!Leave({t})
        BY <1>1, <2>1, <2>2 DEF Lease!Leave, Masked
    <2>4. Lease!LeaseNext
        BY <2>3 DEF Lease!LeaseNext
    <2> QED BY <1>3, <2>4 DEF Keeps
<1> QED BY <1>6, <1>7

\* An operation that has got past its claim proceeds.
LEMMA ProceedsKeeps ==
    ASSUME Inv, LeaseInv, persisted, NEW t \in Thread, NEW rec, NEW todo,
           InFlight(t), Head(op[t].todo).does # "claim",
           Leased(todo), HasWork(todo) => HasWork(op[t].todo),
           Proceeds(t, rec, todo), UNCHANGED <<persisted, gone, claim>>
    PROVE  Keeps
<1> DEFINE w == IF todo = <<>> THEN Idle
                ELSE [op[t] EXCEPT !.todo = todo,
                                   !.copy = IF persisted THEN rec ELSE op[t].copy]
<1>1. op \in [Thread -> Work] /\ op[t] \in Work
    BY DEF Inv, Types
<1>2. op' = [op EXCEPT ![t] = w] /\ stored' = stored
    BY <1>1 DEF Proceeds
<1>3. w.todo = todo
    BY <1>1 DEF Work, Idle
<1> HIDE DEF w
<1>4. Holding(w) => Holding(op[t])
    BY <1>3 DEF Holding, InFlight
<1> QED BY <1>2, <1>3, <1>4, WorkKeeps

LEMMA EndsKeeps ==
    ASSUME Inv, LeaseInv, persisted, NEW t \in Thread, Ends(t),
           UNCHANGED <<persisted, gone, claim>>, Masked(stored') = Masked(stored)
    PROVE  Keeps
<1>1. Leased(Idle.todo) /\ ~Holding(Idle)
    BY LeasedWork DEF Idle, Holding
<1> QED BY <1>1, WorkKeeps DEF Ends

\* An operation in the middle of its work goes on with other work.
LEMMA BeginKeeps ==
    ASSUME Inv, LeaseInv, persisted, NEW t \in Thread, NEW rec, NEW todo,
           InFlight(t), Head(op[t].todo).does \in Working, Leased(todo),
           Proceeds(t, rec, todo), UNCHANGED <<persisted, gone, claim>>
    PROVE  Keeps
<1>1. 1 \in DOMAIN op[t].todo /\ Head(op[t].todo) = op[t].todo[1]
    BY Worker, Rest
<1>2. HasWork(op[t].todo) /\ Head(op[t].todo).does # "claim"
    BY <1>1 DEF HasWork, Working
<1> QED BY <1>2, ProceedsKeeps

\* An operation takes its next step.
LEMMA PassKeeps ==
    ASSUME Inv, LeaseInv, persisted, NEW t \in Thread, NEW rec,
           InFlight(t), Head(op[t].todo).does # "claim",
           Proceeds(t, rec, Tail(op[t].todo)), UNCHANGED <<persisted, gone, claim>>
    PROVE  Keeps
<1>1. /\ Leased(Tail(op[t].todo))
      /\ HasWork(Tail(op[t].todo)) => HasWork(op[t].todo)
    BY Worker, LeasedRest DEF LeaseInv
<1> QED BY <1>1, ProceedsKeeps

\* Who still reads, or has not decided, does no work.
LEMMA AskKeeps ==
    ASSUME Inv, LeaseInv, persisted, NEW t \in Thread, Ask(t)
    PROVE  Keeps
<1>1. PICK operation \in Operation :
        op' = [op EXCEPT ![t] =
                  [todo |-> <<Does("findings"), Does("timeline"), Does("plans"),
                              Does(operation)>>,
                   copy |-> Row(stored), base |-> <<>>]]
    BY DEF Ask
<1> DEFINE todo == <<Does("findings"), Does("timeline"), Does("plans"), Does(operation)>>
           w == [todo |-> todo, copy |-> Row(stored), base |-> <<>>]
<1>2. todo # <<>> /\ DOMAIN todo = 1..4 /\ Len(todo) = 4
    OBVIOUS
<1>3. \A i \in 1..4 : todo[i].does \in {"findings", "timeline", "plans"} \union Operation
    BY DEF Does
<1>4. w.todo = todo
    OBVIOUS
<1>5. op' = [op EXCEPT ![t] = w]
    BY <1>1
<1> HIDE DEF w, todo
<1>6. Leased(w.todo) /\ ~Holding(w)
    BY <1>2, <1>3, <1>4 DEF Leased, Holding, HasWork, Working, Operation
<1> QED BY <1>5, <1>6, WorkKeeps DEF Ask, inputVars

LEMMA ReadKeeps ==
    ASSUME Inv, LeaseInv, persisted, NEW t \in Thread,
           ReadFindings(t) \/ ReadTimeline(t) \/ ReadPlans(t)
    PROVE  Keeps
<1>1. PICK w : /\ op' = [op EXCEPT ![t] = w] /\ w.todo = Tail(op[t].todo)
               /\ InFlight(t) /\ Head(op[t].todo).does \in {"findings", "timeline", "plans"}
               /\ UNCHANGED <<persisted, stored, gone, claim>>
    BY DEF ReadFindings, ReadTimeline, ReadPlans, Read, AtCall, inputVars
<1>2. /\ Leased(Tail(op[t].todo))
      /\ HasWork(Tail(op[t].todo)) => HasWork(op[t].todo)
    BY <1>1, Worker, LeasedRest DEF LeaseInv
<1>3. Holding(w) => Holding(op[t])
    BY <1>1, <1>2 DEF Holding, InFlight
<1> QED BY <1>1, <1>2, <1>3, WorkKeeps

LEMMA AdmitKeeps ==
    ASSUME Inv, LeaseInv, persisted, NEW t \in Thread,
           AdmitRun(t) \/ AdmitPlan(t) \/ AdmitVerify(t) \/ AdmitInsight(t)
    PROVE  Keeps
<1>1. ASSUME NEW operation, NEW allowed, NEW work, Admit(t, operation, allowed, work),
             work # <<>>, Leased(work), Head(work).does = "claim" \/ ~HasWork(work)
      PROVE  Keeps
    <2>1. UNCHANGED <<persisted, gone, claim>>
        BY <1>1 DEF Admit, inputVars
    <2>2. CASE allowed
        <3> DEFINE w == [op[t] EXCEPT !.todo = work,
                                      !.copy = IF persisted THEN Rec(t) ELSE op[t].copy]
        <3>1. Proceeds(t, Rec(t), work)
            BY <1>1, <2>2 DEF Admit
        <3>2. op \in [Thread -> Work] /\ op[t] \in Work
            BY DEF Inv, Types
        <3>3. op' = [op EXCEPT ![t] = w] /\ stored' = stored
            BY <1>1, <3>1, <3>2 DEF Proceeds
        <3>4. w.todo = work
            BY <3>2 DEF Work
        <3> HIDE DEF w
        <3>5. ~Holding(w)
            BY <1>1, <3>4 DEF Holding
        <3> QED BY <1>1, <2>1, <3>3, <3>4, <3>5, WorkKeeps
    <2>3. CASE ~allowed
        <3>1. Ends(t) /\ stored' = stored
            BY <1>1, <2>3 DEF Admit
        <3> QED BY <2>1, <3>1, EndsKeeps
    <2> QED BY <2>2, <2>3
<1>2. /\ <<Does("claim")>> \o Run # <<>> /\ <<Does("claim")>> \o Plan # <<>>
      /\ <<Does("claim")>> \o Verify # <<>> /\ Insight # <<>>
    <2>1. Insight # <<>>
        BY DEF Insight
    <2> QED BY <2>1, ClaimedNonEmpty
<1>3. CASE AdmitRun(t)
    BY <1>1, <1>2, <1>3, ClaimedLeased DEF AdmitRun
<1>4. CASE AdmitPlan(t)
    BY <1>1, <1>2, <1>4, ClaimedLeased DEF AdmitPlan
<1>5. CASE AdmitVerify(t)
    BY <1>1, <1>2, <1>5, ClaimedLeased DEF AdmitVerify
<1>6. CASE AdmitInsight(t)
    BY <1>1, <1>2, <1>6, LeasedWork DEF AdmitInsight
<1> QED BY <1>3, <1>4, <1>5, <1>6

\* A claim is granted where nobody is between claim and save.
LEMMA ClaimKeeps ==
    ASSUME Inv, LeaseInv, persisted, NEW t \in Thread, Claim(t)
    PROVE  Keeps
<1>1. /\ InFlight(t) /\ Head(op[t].todo).does = "claim"
      /\ UNCHANGED <<persisted, gone>>
    BY DEF Claim, AtCall, inputVars
<1>2. CASE claim = Free /\ ~gone
    <2> DEFINE rest == Tail(op[t].todo)
               w == [op[t] EXCEPT !.todo = rest,
                                  !.copy = IF persisted THEN op[t].copy ELSE op[t].copy]
    <2>1. /\ Leased(rest) /\ HasWork(rest) /\ rest # <<>> /\ Head(rest).does # "claim"
        BY <1>1, Worker, LeasedRest DEF LeaseInv
    <2>2. op \in [Thread -> Work] /\ op[t] \in Work
        BY DEF Inv, Types
    <2>3. claim' = t /\ op' = [op EXCEPT ![t] = w] /\ stored' = stored
        BY <1>2, <2>1, <2>2 DEF Claim, Proceeds
    <2>4. w.todo = rest
        BY <2>2 DEF Work
    <2> HIDE DEF w, rest
    <2>5. op'[t] = w /\ \A u \in Thread \ {t} : op'[u] = op[u]
        BY <2>2, <2>3
    <2>6. t # Free
        BY TimelineAssumption DEF Free
    <2>7. \A u \in Thread : ~Holding(op[u])
        BY <1>2, TimelineAssumption DEF LeaseInv, Free
    <2>8. Holding(w) /\ Leased(w.todo)
        BY <2>1, <2>4 DEF Holding
    <2>9. LeaseInv'
        BY <1>1, <1>2, <2>3, <2>5, <2>7, <2>8 DEF LeaseInv
    <2>10. \A u \in Thread : u \in Holders' <=> Holding(op'[u])
        BY DEF Holders, Holding, HasWork, InFlight, AtCall
    <2>11. Holders = {} /\ Holders' = {t}
        <3>1. Holders \subseteq Thread /\ Holders' \subseteq Thread
            BY DEF Holders
        <3> QED BY <2>5, <2>7, <2>8, <2>10, <3>1, HoldersAre
    <2>12. Lease!Acquire(t)
        BY <1>1, <1>2, <2>3, <2>11 DEF Lease!Acquire
    <2>13. Lease!LeaseNext
        BY <2>12 DEF Lease!LeaseNext
    <2> QED BY <2>9, <2>13 DEF Keeps
<1>3. CASE ~(claim = Free /\ ~gone)
    <2>1. claim' = claim /\ Ends(t) /\ stored' = stored
        BY <1>3 DEF Claim
    <2> QED BY <1>1, <2>1, EndsKeeps
<1> QED BY <1>2, <1>3

\* What an operation goes on with after the row has taken its copy.
LEMMA StoredThen ==
    ASSUME Inv, LeaseInv, persisted, NEW t \in Thread, InFlight(t), Store(t),
           Head(op[t].todo).does \in {"save", "annotate"}
    PROVE  \E w : /\ op' = [op EXCEPT ![t] = w]
                  /\ Leased(w.todo) /\ ~Holding(w)
<1> DEFINE rest == Tail(op[t].todo)
           w == IF Len(op[t].todo) = 1 THEN Idle ELSE [op[t] EXCEPT !.todo = rest]
<1>1. op \in [Thread -> Work] /\ op[t] \in Work
    BY DEF Inv, Types
<1>2. op' = [op EXCEPT ![t] = w]
    BY <1>1 DEF Store
<1>3. Leased(rest) /\ ~HasWork(rest)
    BY Worker, LeasedRest DEF LeaseInv
<1>4. w.todo = <<>> \/ w.todo = rest
    BY <1>1 DEF Work, Idle
<1> HIDE DEF w, rest
<1>5. Leased(w.todo) /\ ~Holding(w)
    BY <1>3, <1>4, LeasedWork DEF Holding
<1> QED BY <1>2, <1>5

LEMMA StoredContent ==
    ASSUME Inv, persisted, NEW t \in Thread, Store(t)
    PROVE  Masked(stored') \in Record
<1>1. op[t].copy \in Record /\ stored \in Record
    BY DEF Inv, Types, Work
<1>2. stored' = [op[t].copy EXCEPT !.bundle = stored.bundle]
    BY DEF Store
<1> QED BY <1>1, <1>2 DEF Masked, Record

\* The save of a result: its operation is the only one between claim and save.
LEMMA CommitKeeps ==
    ASSUME Inv, LeaseInv, persisted, NEW t \in Thread, Commit(t)
    PROVE  Keeps
<1>1. /\ InFlight(t) /\ Head(op[t].todo).does = "save" /\ ~gone /\ Store(t)
      /\ claim' = Free /\ UNCHANGED <<persisted, gone>>
    BY DEF Commit, AtCall, inputVars
<1>2. 1 \in DOMAIN op[t].todo /\ Head(op[t].todo) = op[t].todo[1]
    BY <1>1, Worker, Rest
<1>3. Holding(op[t])
    BY <1>1, <1>2 DEF Holding, InFlight, HasWork, Working
<1>4. claim = t /\ \A u \in Thread \ {t} : ~Holding(op[u])
    BY <1>1, <1>3 DEF LeaseInv
<1>5. PICK w : op' = [op EXCEPT ![t] = w] /\ Leased(w.todo) /\ ~Holding(w)
    BY <1>1, StoredThen
<1>6. op \in [Thread -> Work]
    BY DEF Inv, Types
<1>7. op'[t] = w /\ \A u \in Thread \ {t} : op'[u] = op[u]
    BY <1>5, <1>6
<1>8. LeaseInv'
    BY <1>1, <1>4, <1>5, <1>7 DEF LeaseInv
<1>9. \A u \in Thread : u \in Holders' <=> Holding(op'[u])
    BY DEF Holders, Holding, HasWork, InFlight, AtCall
<1>10. Holders = {t} /\ Holders' = {}
    <2>1. Holders \subseteq Thread /\ Holders' \subseteq Thread
        BY DEF Holders
    <2> QED BY <1>3, <1>4, <1>5, <1>7, <1>9, <2>1, HoldersAre
<1>11. Masked(stored') \in Record
    BY <1>1, StoredContent
<1>12. Lease!Publish(t)
    BY <1>1, <1>4, <1>10, <1>11 DEF Lease!Publish, Masked
<1>13. Lease!LeaseNext
    BY <1>12 DEF Lease!LeaseNext
<1> QED BY <1>8, <1>13 DEF Keeps

\* An insight is a note: nobody's work begins or ends.
LEMMA AnnotateKeeps ==
    ASSUME Inv, LeaseInv, persisted, NEW t \in Thread, Annotate(t)
    PROVE  Keeps
<1>1. /\ InFlight(t) /\ Head(op[t].todo).does = "annotate"
      /\ UNCHANGED <<persisted, gone, claim>>
    BY DEF Annotate, AtCall, inputVars
<1>2. CASE gone
    BY <1>1, <1>2, EndsKeeps DEF Annotate
<1>3. CASE ~gone
    <2>1. Store(t)
        BY <1>3 DEF Annotate
    <2>2. PICK w : op' = [op EXCEPT ![t] = w] /\ Leased(w.todo) /\ ~Holding(w)
        BY <1>1, <2>1, StoredThen
    <2>3. op \in [Thread -> Work]
        BY DEF Inv, Types
    <2>4. op'[t] = w /\ \A u \in Thread \ {t} : op'[u] = op[u]
        BY <2>2, <2>3
    <2>5. ~Holding(op[t])
        <3>1. /\ op[t].todo \in Seq(Step) /\ op[t].todo # <<>> /\ Leased(op[t].todo)
            BY <1>1, Worker DEF LeaseInv
        <3>2. /\ DOMAIN op[t].todo = 1 .. Len(op[t].todo) /\ Len(op[t].todo) \in Nat \ {0}
              /\ op[t].todo[1].does = "annotate"
            BY <1>1, <3>1, Rest
        <3>3. \A j \in 1 + 1 .. Len(op[t].todo) : op[t].todo[j].does \notin Working
            BY <3>1, <3>2 DEF Leased
        <3>4. \A j \in 1 .. Len(op[t].todo) : j = 1 \/ j \in 1 + 1 .. Len(op[t].todo)
            BY <3>2
        <3> QED BY <3>2, <3>3, <3>4 DEF Holding, HasWork, Working
    <2>6. LeaseInv'
        BY <1>1, <2>2, <2>4 DEF LeaseInv
    <2>7. \A u \in Thread : u \in Holders' <=> Holding(op'[u])
        BY DEF Holders, Holding, HasWork, InFlight, AtCall
    <2>8. Holders' = Holders
        <3>1. Holders \subseteq Thread /\ Holders' \subseteq Thread
            BY DEF Holders
        <3> QED BY <2>2, <2>4, <2>5, <2>7, <3>1, HoldersAre
    <2>9. Masked(stored') \in Record
        BY <2>1, StoredContent
    <2>10. Lease!Note
        BY <1>1, <1>3, <2>8, <2>9 DEF Lease!Note, Masked
    <2>11. Lease!LeaseNext
        BY <2>10 DEF Lease!LeaseNext
    <2> QED BY <2>6, <2>11 DEF Keeps
<1> QED BY <1>2, <1>3

LEMMA BundleKeeps ==
    ASSUME Inv, LeaseInv, persisted, NEW t \in Thread, NEW rec, NEW todo, InFlight(t),
           Head(op[t].todo).does \in Working, Leased(todo),
           NeedsBundle(t, rec, todo), UNCHANGED <<persisted, gone, claim>>
    PROVE  Keeps
<1>1. CASE Rec(t).bundle
    BY <1>1, BeginKeeps DEF NeedsBundle
<1>2. CASE ~Rec(t).bundle
    BY <1>2, EndsKeeps DEF NeedsBundle
<1> QED BY <1>1, <1>2

LEMMA OperateKeeps ==
    ASSUME Inv, LeaseInv, persisted, NEW t \in Thread, Operate(t)
    PROVE  Keeps
<1> USE DEF AtCall, inputVars
<1>0. CASE Ask(t)
    BY <1>0, AskKeeps
<1>14. CASE ReadFindings(t) \/ ReadTimeline(t) \/ ReadPlans(t)
    BY <1>14, ReadKeeps
<1>1. CASE AdmitRun(t) \/ AdmitPlan(t) \/ AdmitVerify(t) \/ AdmitInsight(t)
    BY <1>1, AdmitKeeps
<1>2. CASE Claim(t)
    BY <1>2, ClaimKeeps
<1>3. CASE Write(t)
    BY <1>3, PassKeeps DEF Write
<1>4. CASE Generate(t)
    BY <1>4, BeginKeeps, LeasedWork DEF Generate, Working
<1>5. CASE Examine(t)
    BY <1>5, BeginKeeps, LeasedWork DEF Examine, Working
<1>6. CASE Analyze(t)
    <2> DEFINE rec == [Rec(t) EXCEPT !.findings = risky]
    <2>1. /\ InFlight(t) /\ Head(op[t].todo).does \in Working
          /\ NeedsBundle(t, rec, Analyzed)
          /\ UNCHANGED <<persisted, gone, claim>>
        BY <1>6 DEF Analyze, Working
    <2> HIDE DEF rec
    <2> QED BY <2>1, BundleKeeps, LeasedWork
<1>7. CASE Branch(t)
    <2> DEFINE todo == IF ready THEN Simulating ELSE StaticOnly
    <2>1. /\ InFlight(t) /\ Head(op[t].todo).does \in Working
          /\ NeedsBundle(t, Rec(t), todo)
          /\ UNCHANGED <<persisted, gone, claim>>
        BY <1>7 DEF Branch, Working
    <2>2. Leased(todo)
        BY LeasedWork
    <2> HIDE DEF todo
    <2> QED BY <2>1, <2>2, BundleKeeps
<1>8. CASE StateLimitations(t)
    <2>1. /\ InFlight(t) /\ Head(op[t].todo).does # "claim"
          /\ NeedsBundle(t, Rec(t), Tail(op[t].todo))
          /\ UNCHANGED <<persisted, gone, claim>>
        BY <1>8 DEF StateLimitations
    <2>2. CASE Rec(t).bundle
        BY <2>1, <2>2, PassKeeps DEF NeedsBundle
    <2>3. CASE ~Rec(t).bundle
        BY <2>1, <2>3, EndsKeeps DEF NeedsBundle
    <2> QED BY <2>2, <2>3
<1>9. CASE Simulate(t)
    <2>1. \A status \in Judged \union {"ERROR"}, runs \in SandboxRun :
              Leased(Simulated(status, runs))
        BY TimelineAssumption, SimulatedLeased DEF Terminal
    <2> QED BY <1>9, <2>1, BeginKeeps, LeasedWork DEF Simulate, Working
<1>10. CASE Commit(t)
    BY <1>10, CommitKeeps
<1>11. CASE CommitRefused(t)
    BY <1>11, EndsKeeps DEF CommitRefused
<1>12. CASE Annotate(t)
    BY <1>12, AnnotateKeeps
<1>13. CASE EraseBundle(t)
    <2>1. Masked(stored') = Masked(stored)
        BY <1>13 DEF EraseBundle, Masked, Inv, Types, Record
    <2> QED BY <1>13, <2>1, EndsKeeps DEF EraseBundle, Ends
<1> QED BY <1>0, <1>1, <1>2, <1>3, <1>4, <1>5, <1>6, <1>7, <1>8, <1>9, <1>10, <1>11, <1>12,
           <1>13, <1>14 DEF Operate

\* A deletion or an expiry closes the lease, whoever is at work.
LEMMA DeleteKeeps == ASSUME LeaseInv, persisted, Delete PROVE Keeps
<1>1. UNCHANGED <<persisted, op>> /\ claim' = Free /\ gone' = TRUE /\ ~gone
    BY DEF Delete, inputVars
<1>2. LeaseInv'
    BY <1>1 DEF LeaseInv
<1>3. Holders' = Holders
    BY <1>1 DEF Holders, InFlight, AtCall
<1>4. Lease!Close
    BY <1>1, <1>3 DEF Lease!Close
<1>5. Lease!LeaseNext
    BY <1>4 DEF Lease!LeaseNext
<1> QED BY <1>2, <1>5 DEF Keeps

LEMMA UnchangedKeeps ==
    ASSUME LeaseInv, UNCHANGED <<persisted, stored, gone, claim, op>>
    PROVE  Keeps
<1>1. LeaseInv'
    BY DEF LeaseInv
<1>2. Holders' = Holders
    BY DEF Holders, InFlight, AtCall
<1>3. UNCHANGED Lease!leaseVars
    BY <1>2 DEF Lease!leaseVars
<1> QED BY <1>1, <1>3 DEF Keeps

LEMMA LeaseInvInit == Init => LeaseInv
<1> SUFFICES ASSUME Init PROVE LeaseInv
    OBVIOUS
<1>1. gone = FALSE /\ \A t \in Thread : op[t] = Idle
    BY DEF Init
<1>2. Leased(Idle.todo) /\ ~Holding(Idle)
    BY LeasedWork DEF Idle, Holding
<1> QED BY <1>1, <1>2 DEF LeaseInv

LEMMA NextKeeps ==
    ASSUME Inv, LeaseInv, persisted, [Next]_vars
    PROVE  Keeps
<1>1. CASE UNCHANGED vars
    BY <1>1, UnchangedKeeps DEF vars, inputVars
<1>2. ASSUME NEW t \in Thread, Operate(t) PROVE Keeps
    BY <1>2, OperateKeeps
<1>3. ASSUME NEW c \in Client, Connect(c) \/ Generator(c) PROVE Keeps
    <2>1. UNCHANGED <<persisted, stored, gone, claim, op>>
        BY <1>3 DEF Connect, Generator, Hydrate, HydrateTimeline, Deliver, Heartbeat, inputVars
    <2> QED BY <2>1, UnchangedKeeps
<1>4. CASE Delete
    BY <1>4, DeleteKeeps
<1> QED BY <1>1, <1>2, <1>3, <1>4 DEF Next

LEMMA PersistedKept == ASSUME [Next]_vars PROVE persisted' = persisted
BY DEF Next, vars, inputVars, Operate, Generator, Ask, Read, ReadFindings, ReadTimeline,
       ReadPlans, Admit, AdmitRun, AdmitPlan, AdmitVerify, AdmitInsight, Claim, Write,
       Generate, Examine, Analyze, Branch, StateLimitations, Simulate, Commit, CommitRefused,
       Annotate, EraseBundle, Connect, Hydrate, HydrateTimeline, Deliver, Heartbeat, Delete

\* With a database each step of the operations and streams is a step of the abstract lease
\* or leaves it alone: nobody saves a result without holding the claim, although a save
\* does not ask for it.
THEOREM ResultsAreLeased == Spec => ResultsKeepLease
<1>1. Inv /\ LeaseInv /\ [Next]_vars => LeaseInv'
    BY NextKeeps, PersistedKept DEF Keeps, LeaseInv
<1>2. Inv /\ LeaseInv /\ [Next]_vars
        => [persisted => Lease!LeaseNext \/ UNCHANGED Lease!leaseVars]_vars
    BY NextKeeps DEF Keeps
<1> QED BY <1>1, <1>2, LeaseInvInit, StreamInvariant, PTL DEF Spec, ResultsKeepLease
=============================================================================
