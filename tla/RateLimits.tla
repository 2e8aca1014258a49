----------------------------- MODULE RateLimits -----------------------------
(***************************************************************************)
(* One quota of one account: check_rate_limit (service.py:822-867).        *)
(*                                                                         *)
(* With persistence all processes count in one row per aligned window      *)
(* (consume_rate_limit, persistence.py:651-683); a request reads its clock *)
(* before it reaches the database.  Without it a process slides a window   *)
(* over the times it has admitted.  Privileged accounts bypass both.       *)
(*                                                                         *)
(* Time is counted in ticks, several to the second: the database's windows *)
(* and every Retry-After are in whole seconds, the clocks are not.         *)
(***************************************************************************)
EXTENDS Integers, Sequences, FiniteSets

CONSTANTS
    Thread,    \* threads that serve requests of the account, in all processes
    Limit,     \* limit
    Window,    \* window_seconds
    Tick,      \* ticks in a second
    Horizon    \* bound: seconds until the clock stops

ASSUME RateAssumption ==
    /\ IsFiniteSet(Thread) /\ Thread # {}
    /\ Limit \in Nat \ {0}
    /\ Window \in Nat \ {0}
    /\ Tick \in Nat \ {0}
    /\ Horizon \in Nat

VARIABLES
    persisted,   \* do the requests count in the database?
    now,         \* the time, which the processes agree on
    stamp,       \* the time a request has read and not yet counted
    count,       \* the row of each window; 0 where there is none
    entries,     \* the process's deque of admission times
    admitted,    \* history: the admissions, by the time they have read and a number
    advice       \* history: when the latest refused request may come again, which window
                 \* refused it, and whether its statement ran after that window

vars == <<persisted, now, stamp, count, entries, admitted, advice>>

None == -1

NoAdvice == [until |-> None, window |-> 0, late |-> FALSE]

Time == 0 .. Horizon * Tick

\* int(now.timestamp()), and below the number of the aligned window it falls into.
Epoch(time) == time \div Tick

\* Mutant: every second is a window of its own.
WindowOfSecond(time) == Epoch(time)

WindowOf(time) == Epoch(time) \div Window

TypeOK ==
    /\ persisted \in BOOLEAN
    /\ now \in Time
    /\ stamp \in [Thread -> Time \union {None}]
    /\ \A t \in Thread : stamp[t] <= now
    /\ count \in [0..Horizon -> 0..Limit]
    /\ entries \in Seq(Time)
    /\ admitted \subseteq [at : Time, nth : Nat]
    /\ advice \in [until : Nat \union {None}, window : 0..Horizon, late : BOOLEAN]

Init ==
    /\ persisted \in BOOLEAN
    /\ now = 0
    /\ stamp = [t \in Thread |-> None]
    /\ count = [w \in 0..Horizon |-> 0]
    /\ entries = <<>>
    /\ admitted = {}
    /\ advice = NoAdvice

Pass ==
    /\ now + 1 \in Time
    /\ now' = now + 1
    /\ UNCHANGED <<persisted, stamp, count, entries, admitted, advice>>

----------------------------------------------------------------------------
\* The service's lock is taken, or the statement run, later.
ReadClock(t) ==
    /\ stamp[t] = None
    /\ stamp' = [stamp EXCEPT ![t] = now]
    /\ UNCHANGED <<persisted, now, count, entries, admitted, advice>>

----------------------------------------------------------------------------
(* The fixed window in the database *)

\* Mutant: the row is compared after it has been counted up.
RoomInclusive(w) == count[w] <= Limit

Room(w) == count[w] < Limit

\* What is left of the window, in seconds.
Remaining(time) == Window - (Epoch(time) - WindowOf(time) * Window)

\* One statement inserts the row or counts it up.
Consume(t) ==
    /\ persisted
    /\ stamp[t] # None
    /\ Room(WindowOf(stamp[t]))
    /\ LET w == WindowOf(stamp[t])
       IN  /\ count' = [count EXCEPT ![w] = @ + 1]
           /\ admitted' = admitted \union {[at |-> stamp[t], nth |-> count[w] + 1]}
    /\ stamp' = [stamp EXCEPT ![t] = None]
    /\ advice' = NoAdvice
    /\ UNCHANGED <<persisted, now, entries>>

\* The advice is worked out from the time that was read, and given when the statement has
\* run, be it in the next window.
Refuse(t) ==
    /\ persisted
    /\ stamp[t] # None
    /\ ~Room(WindowOf(stamp[t]))
    /\ advice' = [until |-> now + Remaining(stamp[t]) * Tick,
                  window |-> WindowOf(stamp[t]),
                  late |-> WindowOf(now) # WindowOf(stamp[t])]
    /\ stamp' = [stamp EXCEPT ![t] = None]
    /\ UNCHANGED <<persisted, now, count, entries, admitted>>

----------------------------------------------------------------------------
(* The sliding window in memory, under the service's lock *)

\* Old entries are taken from the front, as far as they are old.
Young(time) ==
    LET Old(i) == entries[i] <= time - Window * Tick
        first == CHOOSE i \in 1 .. Len(entries) + 1 :
                     /\ \A j \in 1 .. i - 1 : Old(j)
                     /\ i <= Len(entries) => ~Old(i)
    IN  SubSeq(entries, first, Len(entries))

\* Mutant: one more than the limit.
AdmitLocallyInclusive(t) ==
    /\ ~persisted
    /\ stamp[t] # None
    /\ Len(Young(stamp[t])) <= Limit
    /\ entries' = Append(Young(stamp[t]), stamp[t])
    /\ admitted' = admitted \union {[at |-> stamp[t], nth |-> Cardinality(admitted) + 1]}
    /\ stamp' = [stamp EXCEPT ![t] = None]
    /\ advice' = NoAdvice
    /\ UNCHANGED <<persisted, now, count>>

AdmitLocally(t) ==
    /\ ~persisted
    /\ stamp[t] # None
    /\ Len(Young(stamp[t])) < Limit
    /\ entries' = Append(Young(stamp[t]), stamp[t])
    /\ admitted' = admitted \union {[at |-> stamp[t], nth |-> Cardinality(admitted) + 1]}
    /\ stamp' = [stamp EXCEPT ![t] = None]
    /\ advice' = NoAdvice
    /\ UNCHANGED <<persisted, now, count>>

\* Mutant: the seconds are rounded down.
PatienceRoundedDown(oldest, time) == (oldest + Window * Tick - time) \div Tick

\* int(entries[0] + window_seconds - now) + 1
Patience(oldest, time) == (oldest + Window * Tick - time) \div Tick + 1

RefuseLocally(t) ==
    /\ ~persisted
    /\ stamp[t] # None
    /\ Len(Young(stamp[t])) >= Limit
    /\ entries' = Young(stamp[t])
    /\ advice' = [NoAdvice EXCEPT !.until = now + Patience(entries'[1], stamp[t]) * Tick]
    /\ stamp' = [stamp EXCEPT ![t] = None]
    /\ UNCHANGED <<persisted, now, count, admitted>>

----------------------------------------------------------------------------
Next ==
    \/ Pass
    \/ \E t \in Thread :
         \/ ReadClock(t)
         \/ Consume(t) \/ Refuse(t)
         \/ AdmitLocally(t) \/ RefuseLocally(t)

Spec == Init /\ [][Next]_vars

----------------------------------------------------------------------------
(* Properties *)

\* Admissions that read the clock within a window's length of a time.
From(time) == {a \in admitted : time <= a.at /\ a.at < time + Window * Tick}

\* The database's windows do not slide: around the end of one the account gets more than
\* its limit within a window's length, but never more than twice the limit, from all
\* processes together and however late their statements run.
DatabaseQuota ==
    persisted => \A time \in Time : Cardinality(From(time)) <= 2 * Limit

\* In memory the window slides: a stretch of a window's length holds no more admissions
\* than the limit, but for those that were overtaken between the clock and the lock.
MemoryQuota ==
    ~persisted =>
        \A time \in Time : Cardinality(From(time)) <= Limit + Cardinality(Thread) - 1

\* Would a request that reads the clock now, and is counted at once, be admitted?
Admissible == IF persisted THEN Room(WindowOf(now)) ELSE Len(Young(now)) < Limit

\* Who is told to retry after some seconds, waits them out, and is not overtaken by
\* another admission, is admitted; except in the database, when the statement that refused
\* it ran after its window: then the next window may be full already.  Even so the wait
\* always ends after the window that refused.
RetryAfterEnough ==
    advice.until # None /\ now >= advice.until =>
        /\ Admissible \/ advice.late
        /\ persisted => WindowOf(now) > advice.window
=============================================================================
