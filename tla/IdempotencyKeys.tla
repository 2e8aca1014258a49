--------------------------- MODULE IdempotencyKeys ---------------------------
(***************************************************************************)
(* One idempotency key of one owner and operation: the requests that bear  *)
(* it, its row in rollbackready_idempotency, and the operation behind it.  *)
(*                                                                         *)
(* Each step is one transaction on the row, or one part of the operation   *)
(* that may end it.  A request may be lost anywhere: its process stops,    *)
(* its client's disconnection cancels it, or the transaction that should   *)
(* finish or abort the key fails and the exception escapes.                *)
(***************************************************************************)
EXTENDS Naturals, FiniteSets

CONSTANT Request            \* requests with this key, retries included

VARIABLES
    operation,  \* what the key is used for
    row,        \* the row of the key; response is the number of an effect
    request,    \* where each request is, how it was answered, with which effect
    effects,    \* how often the operation has taken effect
    gone,       \* the analysis of the latest effect has been deleted
    excuses     \* history: how often another effect became possible, and was known to be

vars == <<operation, row, request, effects, gone, excuses>>

Operation == {"create", "run", "plan", "verify"}

Row == [state : {"ABSENT", "IN_PROGRESS", "COMPLETE"}, response : Nat, expired : BOOLEAN]

Absent == [state |-> "ABSENT", response |-> 0, expired |-> FALSE]
New == [state |-> "IN_PROGRESS", response |-> 0, expired |-> FALSE]

Call == [pc : {"arriving", "select", "admit", "invoke", "committed", "finish", "abort", "end"},
         outcome : {"none", "fresh", "replayed", "in_progress", "error", "lost"},
         answer : Nat]

\* A stored response is that of a completed request.
TypeOK ==
    /\ operation \in Operation
    /\ row \in Row
    /\ row.state = "COMPLETE" <=> row.response # 0
    /\ request \in [Request -> Call]
    /\ effects \in Nat
    /\ gone \in BOOLEAN
    /\ excuses \in Nat

Init ==
    /\ operation \in Operation
    /\ row = Absent
    /\ request = [r \in Request |-> [pc |-> "arriving", outcome |-> "none", answer |-> 0]]
    /\ effects = 0
    /\ gone = FALSE
    /\ excuses = 0

At(r, pc) == request[r].pc = pc

Goto(r, pc) == request' = [request EXCEPT ![r].pc = pc]

Answered(r, outcome, answer) ==
    request' = [request EXCEPT ![r] = [pc |-> "end", outcome |-> outcome, answer |-> answer]]

\* The request was told NEW and has not finished or aborted the key.
Executing(r) == request[r].pc \in {"admit", "invoke", "committed", "finish", "abort"}

----------------------------------------------------------------------------
(* begin_idempotency: an insert that does nothing on conflict, then a locking read *)

Insert(r) ==
    /\ At(r, "arriving")
    /\ IF row.state = "ABSENT"
       THEN row' = New /\ Goto(r, "admit")
       ELSE UNCHANGED row /\ Goto(r, "select")
    /\ UNCHANGED <<operation, effects, gone, excuses>>

\* An abort in between took the row away.
Disappeared(r) ==
    /\ At(r, "select")
    /\ row.state = "ABSENT"
    /\ Answered(r, "error", 0)
    /\ UNCHANGED <<operation, row, effects, gone, excuses>>

\* Mutant: the expired response stays in the row.
TakeOverKeepingResponse(r) ==
    /\ At(r, "select")
    /\ row.state # "ABSENT" /\ row.expired
    /\ row' = [row EXCEPT !.state = "IN_PROGRESS", !.expired = FALSE]
    /\ Goto(r, "admit")
    /\ UNCHANGED <<operation, effects, gone, excuses>>

\* Mutant: the expired key keeps its state.
TakeOverKeepingState(r) ==
    /\ At(r, "select")
    /\ row.state # "ABSENT" /\ row.expired
    /\ row' = [row EXCEPT !.expired = FALSE]
    /\ Goto(r, "admit")
    /\ UNCHANGED <<operation, effects, gone, excuses>>

TakeOver(r) ==
    /\ At(r, "select")
    /\ row.state # "ABSENT" /\ row.expired
    /\ row' = New
    /\ Goto(r, "admit")
    /\ UNCHANGED <<operation, effects, gone, excuses>>

Replay(r) ==
    /\ At(r, "select")
    /\ row.state = "COMPLETE" /\ ~row.expired
    /\ Answered(r, "replayed", row.response)
    /\ UNCHANGED <<operation, row, effects, gone, excuses>>

\* Mutant: a key in progress is not refused.
AdmitAnyway(r) ==
    /\ At(r, "select")
    /\ row.state = "IN_PROGRESS" /\ ~row.expired
    /\ Goto(r, "admit")
    /\ UNCHANGED <<operation, row, effects, gone, excuses>>

Refuse(r) ==
    /\ At(r, "select")
    /\ row.state = "IN_PROGRESS" /\ ~row.expired
    /\ Answered(r, "in_progress", 0)
    /\ UNCHANGED <<operation, row, effects, gone, excuses>>

----------------------------------------------------------------------------
(* The operation *)

Admit(r) ==
    /\ At(r, "admit")
    /\ Goto(r, "invoke")
    /\ UNCHANGED <<operation, row, effects, gone, excuses>>

\* Mutant: the quota is checked outside the try.
QuotaExceededUncaught(r) ==
    /\ At(r, "admit") /\ operation # "run"
    /\ Answered(r, "error", 0)
    /\ UNCHANGED <<operation, row, effects, gone, excuses>>

\* Runs are not rate limited.
QuotaExceeded(r) ==
    /\ At(r, "admit") /\ operation # "run"
    /\ Goto(r, "abort")
    /\ UNCHANGED <<operation, row, effects, gone, excuses>>

\* Only a creation can still take effect when the analysis is gone: it makes another.
Commit(r) ==
    /\ At(r, "invoke")
    /\ gone => operation = "create"
    /\ effects' = effects + 1
    /\ gone' = FALSE
    /\ request' = [request EXCEPT ![r] = [pc |-> "committed", outcome |-> "none",
                                          answer |-> effects + 1]]
    /\ UNCHANGED <<operation, row, excuses>>

OperationFails(r) ==
    /\ At(r, "invoke")
    /\ Goto(r, "abort")
    /\ UNCHANGED <<operation, row, effects, gone, excuses>>

Return(r) ==
    /\ At(r, "committed")
    /\ Goto(r, "finish")
    /\ UNCHANGED <<operation, row, effects, gone, excuses>>

\* A run stores that its simulation failed, and a planning that no plan passed the policy,
\* and then they raise; a run and a verification delete the archive after their commit,
\* and that may raise.
FailsAfterCommit(r) ==
    /\ At(r, "committed") /\ operation \in {"run", "plan", "verify"}
    /\ Goto(r, "abort")
    /\ excuses' = excuses + 1
    /\ UNCHANGED <<operation, row, effects, gone>>

----------------------------------------------------------------------------
(* finish_idempotency and abort_idempotency touch a row in progress only *)

Finish(r) ==
    /\ At(r, "finish")
    /\ row' = IF row.state = "IN_PROGRESS"
              THEN [row EXCEPT !.state = "COMPLETE", !.response = request[r].answer]
              ELSE row
    /\ Answered(r, "fresh", request[r].answer)
    /\ UNCHANGED <<operation, effects, gone, excuses>>

Abort(r) ==
    /\ At(r, "abort")
    /\ row' = IF row.state = "IN_PROGRESS" THEN Absent ELSE row
    /\ Answered(r, "error", 0)
    /\ UNCHANGED <<operation, effects, gone, excuses>>

----------------------------------------------------------------------------
(* The environment *)

\* Mutant: a failure to finish the key is handled as one of the operation.
FinishFailureAborts(r) ==
    /\ Executing(r)
    /\ IF At(r, "finish")
       THEN Goto(r, "abort")
       ELSE Answered(r, "lost", request[r].answer)
    /\ UNCHANGED <<operation, row, effects, gone, excuses>>

Lose(r) ==
    /\ Executing(r)
    /\ Answered(r, "lost", request[r].answer)
    /\ UNCHANGED <<operation, row, effects, gone, excuses>>

\* Twenty-four hours after it was claimed.  No operation works that long: the sandbox
\* has a total time limit of minutes.
Expire ==
    /\ row.state # "ABSENT" /\ ~row.expired
    /\ \A r \in Request : ~Executing(r)
    /\ row' = [row EXCEPT !.expired = TRUE]
    /\ excuses' = excuses + 1
    /\ UNCHANGED <<operation, request, effects, gone>>

\* The owner deletes the analysis; its keys are left alone.
DeleteAnalysis ==
    /\ effects > 0 /\ ~gone
    /\ gone' = TRUE
    /\ UNCHANGED <<operation, row, request, effects, excuses>>

----------------------------------------------------------------------------

Proceed(r) ==
    \/ Insert(r) \/ Disappeared(r) \/ TakeOver(r) \/ Replay(r) \/ Refuse(r)
    \/ Admit(r) \/ QuotaExceeded(r) \/ Commit(r) \/ OperationFails(r)
    \/ Return(r) \/ FailsAfterCommit(r) \/ Finish(r) \/ Abort(r)

Next ==
    \/ \E r \in Request : Proceed(r) \/ Lose(r)
    \/ Expire
    \/ DeleteAnalysis

Spec == Init /\ [][Next]_vars

\* Every call returns or raises, and a day passes; nobody has to delete anything.
FairSpec == Spec /\ (\A r \in Request : WF_vars(Proceed(r))) /\ WF_vars(Expire)

----------------------------------------------------------------------------
(* Properties *)

\* The operation behind a key is never carried out by two requests at a time.
OneExecution == \A r, s \in Request : Executing(r) /\ Executing(s) => r = s

\* Each time the operation takes effect again, either a request failed after its commit,
\* so that its client was told of an error, or the key expired: neither allows for two
\* more effects, and none comes of a process that stopped or a database call that failed,
\* at whatever moment.
NoSilentRepeat == effects <= 1 + excuses

\* A stored response that is replayed is that of the latest effect.
ReplayIsCurrent ==
    [][\A r \in Request :
         request'[r].outcome = "replayed" /\ request[r].outcome # "replayed" =>
             request'[r].answer = effects /\ effects > 0]_vars

\* A key is in progress only while a request is working under it, or because a request
\* was lost: no answer, whatever it is, leaves it locked for a day.
KeyNotLeaked ==
    row.state = "IN_PROGRESS" =>
        \E r \in Request : Executing(r) \/ request[r].outcome = "lost"
=============================================================================
