------------------------ MODULE IdempotencyKeysProofs ------------------------
(***************************************************************************)
(* Theorems about IdempotencyKeys for every set of requests, finite or     *)
(* not, checked by TLAPS.                                                  *)
(***************************************************************************)
EXTENDS IdempotencyKeys, TLAPS

\* Whoever executes holds the row, alone, and has an answer to store once it committed.
Held ==
    /\ \A r \in Request : Executing(r) => row.state = "IN_PROGRESS" /\ ~row.expired
    /\ OneExecution
    /\ \A r \in Request : request[r].pc \in {"committed", "finish"} => request[r].answer # 0

\* An effect uses up an excuse, or the one the first effect does not need.  While the row
\* can be claimed, or whoever claimed it has not committed, one is left.
Spent ==
    /\ effects <= 1 + excuses
    /\ \/ row.state = "ABSENT" \/ row.expired
       \/ \E r \in Request : request[r].pc \in {"admit", "invoke", "abort"}
       => effects <= excuses

Inv == TypeOK /\ Held /\ Spent

USE DEF Row, Absent, New, Call, At, Goto, Answered, Executing

LEMMA InvInit == Init => Inv
<1> SUFFICES ASSUME Init PROVE Inv
    OBVIOUS
<1>1. TypeOK
    BY DEF Init, TypeOK
<1>2. \A r \in Request : request[r].pc = "arriving"
    BY DEF Init
<1>3. Held /\ Spent
    BY <1>2 DEF Init, Held, Spent, OneExecution
<1> QED BY <1>1, <1>3 DEF Inv

\* The steps that only begin, refuse or answer a request.
LEMMA BeginStep ==
    ASSUME Inv, NEW r \in Request,
           Insert(r) \/ Disappeared(r) \/ TakeOver(r) \/ Replay(r) \/ Refuse(r)
    PROVE  Inv'
<1> USE DEF Inv, TypeOK, Held, Spent, OneExecution
<1>1. CASE Insert(r)
    <2>1. CASE row.state = "ABSENT"
        <3>1. request' = [request EXCEPT ![r].pc = "admit"] /\ row' = New
            BY <1>1, <2>1 DEF Insert
        <3>2. TypeOK'
            BY <1>1, <3>1 DEF Insert
        <3>3. Held'
            BY <1>1, <2>1, <3>1 DEF Insert
        <3>4. Spent'
            BY <1>1, <2>1, <3>1 DEF Insert
        <3> QED BY <3>2, <3>3, <3>4
    <2>2. CASE row.state # "ABSENT"
        BY <1>1, <2>2 DEF Insert
    <2> QED BY <2>1, <2>2
<1>2. CASE Disappeared(r)
    BY <1>2 DEF Disappeared
<1>3. CASE TakeOver(r)
    BY <1>3 DEF TakeOver
<1>4. CASE Replay(r)
    BY <1>4 DEF Replay
<1>5. CASE Refuse(r)
    BY <1>5 DEF Refuse
<1> QED BY <1>1, <1>2, <1>3, <1>4, <1>5

LEMMA OperationStep ==
    ASSUME Inv, NEW r \in Request,
           Admit(r) \/ QuotaExceeded(r) \/ Commit(r) \/ OperationFails(r) \/ Return(r)
               \/ FailsAfterCommit(r)
    PROVE  Inv'
<1> USE DEF Inv, TypeOK, Held, Spent, OneExecution
<1>1. CASE Admit(r)
    BY <1>1 DEF Admit
<1>2. CASE QuotaExceeded(r)
    BY <1>2 DEF QuotaExceeded
<1>3. CASE Commit(r)
    <2>1. TypeOK'
        <3> DEFINE call == [pc |-> "committed", outcome |-> "none", answer |-> effects + 1]
        <3>1. effects + 1 \in Nat
            OBVIOUS
        <3>2. call \in Call
            BY <3>1
        <3> HIDE DEF call
        <3>3. [request EXCEPT ![r] = call] \in [Request -> Call]
            BY <3>2
        <3>4. request' = [request EXCEPT ![r] = call]
            BY <1>3 DEF Commit, call
        <3> QED BY <1>3, <3>1, <3>3, <3>4 DEF Commit
    <2>2. Held'
        BY <1>3, <2>1 DEF Commit
    <2>3. Spent'
        BY <1>3, <2>1 DEF Commit
    <2> QED BY <2>1, <2>2, <2>3
<1>4. CASE OperationFails(r)
    BY <1>4 DEF OperationFails
<1>5. CASE Return(r)
    BY <1>5 DEF Return
<1>6. CASE FailsAfterCommit(r)
    <2>1. TypeOK'
        BY <1>6 DEF FailsAfterCommit
    <2>2. Held'
        BY <1>6 DEF FailsAfterCommit
    <2>3. effects <= 1 + excuses /\ excuses' = excuses + 1 /\ effects' = effects
        BY <1>6 DEF FailsAfterCommit
    <2>4. Spent'
        BY <2>3
    <2> QED BY <2>1, <2>2, <2>4
<1> QED BY <1>1, <1>2, <1>3, <1>4, <1>5, <1>6

LEMMA EndStep ==
    ASSUME Inv, NEW r \in Request, Finish(r) \/ Abort(r) \/ Lose(r)
    PROVE  Inv'
<1> USE DEF Inv, TypeOK, Held, Spent, OneExecution
<1>1. CASE Finish(r)
    BY <1>1 DEF Finish
<1>2. CASE Abort(r)
    BY <1>2 DEF Abort
<1>3. CASE Lose(r)
    BY <1>3 DEF Lose
<1> QED BY <1>1, <1>2, <1>3

LEMMA InvStep == Inv /\ [Next]_vars => Inv'
<1> SUFFICES ASSUME Inv, [Next]_vars PROVE Inv'
    OBVIOUS
<1>1. ASSUME NEW r \in Request, Proceed(r) \/ Lose(r) PROVE Inv'
    BY <1>1, BeginStep, OperationStep, EndStep DEF Proceed
<1>2. CASE Expire
    <2> USE DEF Inv, TypeOK, Held, Spent, OneExecution
    <2>1. excuses' = excuses + 1 /\ UNCHANGED <<operation, request, effects, gone>>
        BY <1>2 DEF Expire
    <2>2. /\ row' \in Row /\ row'.state = row.state /\ row'.response = row.response
          /\ \A r \in Request : ~Executing(r)
        BY <1>2 DEF Expire
    <2>3. excuses' \in Nat
        BY <2>1
    <2>4. TypeOK'
        BY <2>1, <2>2, <2>3
    <2>5. Held'
        BY <2>1, <2>2
    <2>6. Spent'
        BY <2>1
    <2> QED BY <2>4, <2>5, <2>6
<1>3. CASE DeleteAnalysis
    BY <1>3 DEF DeleteAnalysis, Inv, TypeOK, Held, Spent, OneExecution
<1>4. CASE UNCHANGED vars
    BY <1>4 DEF vars, Inv, TypeOK, Held, Spent, OneExecution
<1> QED BY <1>1, <1>2, <1>3, <1>4 DEF Next

LEMMA AlwaysInv == Spec => []Inv
BY InvInit, InvStep, PTL DEF Spec

\* begin, finish and abort keep the operation behind a key to one request at a time,
\* however many requests there are and whichever are lost.
THEOREM KeyIsExclusive == Spec => []OneExecution
<1>1. Inv => OneExecution
    BY DEF Inv, Held
<1> QED BY <1>1, AlwaysInv, PTL

\* A process that stops and a database call that fails never make an operation take
\* effect once more: every effect but one has a failure its client was told of, or an
\* expiry of the key, to itself.
THEOREM NoRepeatWithoutExcuse == Spec => []NoSilentRepeat
<1>1. Inv => NoSilentRepeat
    BY DEF Inv, TypeOK, Spent, NoSilentRepeat
<1> QED BY <1>1, AlwaysInv, PTL

----------------------------------------------------------------------------
(* Types, leaks and replays *)

\* The key, its requests and the history keep their types, and a response is stored
\* exactly in a completed row (finish_idempotency, abort_idempotency, the takeover).
THEOREM KeysTypeCorrect == Spec => []TypeOK
<1>1. Inv => TypeOK
    BY DEF Inv
<1> QED BY <1>1, AlwaysInv, PTL

\* A request is found lost only at its end, so that it stays the reason for a locked key.
LostAtEnd == \A r \in Request : request[r].outcome = "lost" => At(r, "end")

Unleaked == LostAtEnd /\ KeyNotLeaked

LEMMA UnleakedStep ==
    ASSUME Inv, Unleaked, [Next]_vars
    PROVE  Unleaked'
<1> USE DEF Inv, TypeOK, Unleaked, LostAtEnd, KeyNotLeaked
<1>1. ASSUME NEW r \in Request, Proceed(r) \/ Lose(r) PROVE Unleaked'
    <2>1. \A s \in Request \ {r} : request'[s] = request[s]
        BY <1>1 DEF Proceed, Insert, Disappeared, TakeOver, Replay, Refuse, Admit,
            QuotaExceeded, Commit, OperationFails, Return, FailsAfterCommit, Finish, Abort, Lose
    <2>2. /\ ~At(r, "end")
          /\ request'[r].outcome = "lost" => At(r, "end")'
        BY <1>1 DEF Proceed, Insert, Disappeared, TakeOver, Replay, Refuse, Admit,
            QuotaExceeded, Commit, OperationFails, Return, FailsAfterCommit, Finish, Abort, Lose
    <2>3. LostAtEnd'
        BY <2>1, <2>2
    <2>4. row'.state = "IN_PROGRESS" =>
             \/ Executing(r)' \/ request'[r].outcome = "lost"
             \/ row.state = "IN_PROGRESS" /\ ~Executing(r)
        <3>1. CASE Insert(r) \/ Disappeared(r) \/ TakeOver(r) \/ Replay(r) \/ Refuse(r)
            BY <3>1 DEF Insert, Disappeared, TakeOver, Replay, Refuse
        <3>2. CASE \/ Admit(r) \/ QuotaExceeded(r) \/ Commit(r)
                   \/ OperationFails(r) \/ Return(r) \/ FailsAfterCommit(r)
            BY <3>2 DEF Admit, QuotaExceeded, Commit, OperationFails, Return, FailsAfterCommit
        <3>3. CASE Finish(r)
            BY <3>3 DEF Finish
        <3>4. CASE Abort(r)
            BY <3>4 DEF Abort
        <3>5. CASE Lose(r)
            BY <3>5 DEF Lose
        <3> QED BY <1>1, <3>1, <3>2, <3>3, <3>4, <3>5 DEF Proceed
    <2>5. KeyNotLeaked'
        BY <2>1, <2>2, <2>4
    <2> QED BY <2>3, <2>5
<1>2. CASE Expire
    BY <1>2 DEF Expire
<1>3. CASE DeleteAnalysis
    BY <1>3 DEF DeleteAnalysis
<1>4. CASE UNCHANGED vars
    BY <1>4 DEF vars
<1> QED BY <1>1, <1>2, <1>3, <1>4 DEF Next

\* However many requests there are, no answer leaves the key in progress: it is so only
\* under a request at work or lost.
THEOREM NoKeyIsLeaked == Spec => []KeyNotLeaked
<1>1. Init => Unleaked
    BY DEF Init, Unleaked, LostAtEnd, KeyNotLeaked
<1>2. Unleaked => KeyNotLeaked
    BY DEF Unleaked
<1>3. Spec => []Unleaked
    BY <1>1, UnleakedStep, AlwaysInv, PTL DEF Spec
<1> QED BY <1>2, <1>3, PTL

\* The latest effect is the one a request is about to store, or has stored.
Current ==
    /\ \A r \in Request : request[r].pc \in {"committed", "finish"} => request[r].answer = effects
    /\ row.state = "COMPLETE" => row.response = effects /\ effects > 0

LEMMA CurrentStep ==
    ASSUME Inv, Current, [Next]_vars
    PROVE  Current'
<1> USE DEF Inv, TypeOK, Held, OneExecution, Current
<1>1. ASSUME NEW r \in Request,
             Insert(r) \/ Disappeared(r) \/ TakeOver(r) \/ Replay(r) \/ Refuse(r)
      PROVE  Current'
    BY <1>1 DEF Insert, Disappeared, TakeOver, Replay, Refuse
<1>2. ASSUME NEW r \in Request,
             Admit(r) \/ QuotaExceeded(r) \/ OperationFails(r) \/ Return(r) \/ FailsAfterCommit(r)
      PROVE  Current'
    BY <1>2 DEF Admit, QuotaExceeded, OperationFails, Return, FailsAfterCommit
<1>3. ASSUME NEW r \in Request, Commit(r) PROVE Current'
    <2>1. row.state = "IN_PROGRESS" /\ row' = row
        BY <1>3 DEF Commit
    <2>2. \A s \in Request \ {r} : ~Executing(s) /\ request'[s] = request[s]
        BY <1>3 DEF Commit
    <2>3. request'[r].answer = effects' /\ request'[r].pc = "committed"
        BY <1>3 DEF Commit
    <2> QED BY <2>1, <2>2, <2>3
<1>4. ASSUME NEW r \in Request, Finish(r) \/ Abort(r) \/ Lose(r) PROVE Current'
    <2>1. /\ effects' = effects
          /\ \A s \in Request \ {r} : request'[s] = request[s]
          /\ request'[r].pc = "end"
        BY <1>4 DEF Finish, Abort, Lose
    <2>2. CASE Finish(r)
        <3>1. request[r].answer = effects /\ effects > 0
            BY <2>2 DEF Finish
        <3> QED BY <2>1, <2>2, <3>1 DEF Finish
    <2>3. CASE Abort(r) \/ Lose(r)
        BY <2>1, <2>3 DEF Abort, Lose
    <2> QED BY <1>4, <2>2, <2>3
<1>5. CASE Expire
    BY <1>5 DEF Expire
<1>6. CASE DeleteAnalysis
    BY <1>6 DEF DeleteAnalysis
<1>7. CASE UNCHANGED vars
    BY <1>7 DEF vars
<1> QED BY <1>1, <1>2, <1>3, <1>4, <1>5, <1>6, <1>7 DEF Next, Proceed

\* Whatever expired, was taken over or failed before: a replayed response is that of the
\* latest effect.
THEOREM ReplaysAreCurrent == Spec => ReplayIsCurrent
<1> DEFINE Fresh == \A r \in Request :
                       request'[r].outcome = "replayed" /\ request[r].outcome # "replayed" =>
                           request'[r].answer = effects /\ effects > 0
<1>1. Init => Current
    BY DEF Init, Current
<1>2. Spec => []Current
    BY <1>1, CurrentStep, AlwaysInv, PTL DEF Spec
<1>3. ASSUME Inv, Current, [Next]_vars PROVE [Fresh]_vars
    <2>1. SUFFICES ASSUME Next, NEW r \in Request,
                          request'[r].outcome = "replayed", request[r].outcome # "replayed"
                   PROVE  request'[r].answer = effects /\ effects > 0
        BY <1>3
    <2>2. PICK s \in Request : Proceed(s) \/ Lose(s)
        BY <2>1 DEF Next, Expire, DeleteAnalysis
    <2>3. Replay(r)
        BY <1>3, <2>1, <2>2 DEF Proceed, Insert, Disappeared, TakeOver, Replay, Refuse, Admit,
            QuotaExceeded, Commit, OperationFails, Return, FailsAfterCommit, Finish, Abort,
            Lose, Inv, TypeOK
    <2> QED BY <1>3, <2>3 DEF Replay, Current, Inv, TypeOK
<1> QED BY <1>2, <1>3, AlwaysInv, PTL DEF Spec, ReplayIsCurrent
=============================================================================
