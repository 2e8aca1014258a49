-------------------------- MODULE RateLimitsProofs --------------------------
(***************************************************************************)
(* For any limit, window, resolution of the clock and number of threads:   *)
(* the quotas of the database and of a process's memory, and that the      *)
(* advice of both to come again later is good, as far as it came in time.  *)
(***************************************************************************)
EXTENDS RateLimits, FiniteSetTheorems, WellFoundedInduction, TLAPS

----------------------------------------------------------------------------
(* The inductive invariant *)

\* The admissions of a window are numbered through, up to the count of its row.
Numbered ==
    persisted =>
        /\ \A a \in admitted : a.nth \in 1 .. count[WindowOf(a.at)]
        /\ \A a, b \in admitted : WindowOf(a.at) = WindowOf(b.at) /\ a.nth = b.nth => a = b

\* No row is ahead of the clock.
NotAhead == \A w \in 0..Horizon : count[w] > 0 => w <= WindowOf(now)

\* Who comes when advised finds another window than the one that refused, and it has no row
\* unless the advice came late; or the oldest entry old.
AdviceHolds ==
    advice.until # None =>
        IF persisted
        THEN /\ advice.window < WindowOf(advice.until)
             /\ ~advice.late =>
                  \A w \in 0..Horizon : WindowOf(advice.until) <= w => count[w] = 0
        ELSE /\ entries # <<>>
             /\ entries[1] + Window * Tick <= advice.until

Within(x, time) == time <= x /\ x < time + Window * Tick

Kept(s, time) == {i \in DOMAIN s : Within(s[i], time)}

Pending(time) == {t \in Thread : stamp[t] # None /\ Within(stamp[t], time)}

\* The admissions of a stretch are in the deque.  A time read after the stretch may drop
\* them; the stretch is over then, and only what threads have read in it can be added.
Counted ==
    ~persisted => \A time \in Time :
        \/ Cardinality(From(time)) <= Cardinality(Kept(entries, time))
        \/ /\ now >= time + Window * Tick
           /\ Cardinality(From(time)) + Cardinality(Pending(time))
                <= Limit + Cardinality(Thread) - 1

Inv ==
    /\ TypeOK
    /\ IsFiniteSet(admitted)
    /\ Numbered
    /\ NotAhead
    /\ Len(entries) <= Limit
    /\ AdviceHolds
    /\ Counted

----------------------------------------------------------------------------
(* Windows *)

LEMMA NoAdviceType == NoAdvice \in [until : Nat \union {None}, window : 0..Horizon, late : BOOLEAN]
BY RateAssumption DEF NoAdvice

LEMMA Quotient ==
    ASSUME NEW x \in Nat, NEW d \in Nat \ {0}
    PROVE  /\ x \div d \in Nat
           /\ d * (x \div d) <= x
           /\ x < d * (x \div d) + d
OBVIOUS

LEMMA QuotientBelow ==
    ASSUME NEW x \in Nat, NEW d \in Nat \ {0}, NEW q \in Nat, x < d * q
    PROVE  x \div d < q
OBVIOUS

LEMMA QuotientMonotonic ==
    ASSUME NEW x \in Nat, NEW y \in Nat, x <= y, NEW d \in Nat \ {0}
    PROVE  x \div d <= y \div d
OBVIOUS

LEMMA WindowsFollowTime ==
    ASSUME NEW x \in Nat, NEW y \in Nat, x <= y
    PROVE  /\ WindowOf(x) \in Nat
           /\ WindowOf(y) \in Nat
           /\ WindowOf(x) <= WindowOf(y)
<1>1. Epoch(x) \in Nat /\ Epoch(y) \in Nat
  BY Quotient, RateAssumption DEF Epoch
<1>2. Epoch(x) <= Epoch(y)
  BY QuotientMonotonic, RateAssumption DEF Epoch
<1>3. QED
  BY <1>1, <1>2, Quotient, QuotientMonotonic, RateAssumption DEF WindowOf

LEMMA TimeIsNat == /\ Time \subseteq Nat
                   /\ Window * Tick \in Nat \ {0}
<1>1. Horizon * Tick \in Nat
  BY RateAssumption
<1>2. QED
  BY <1>1, RateAssumption DEF Time

\* A window that the clock can reach has a row.
LEMMA WindowInRange ==
    ASSUME NEW x \in Time
    PROVE  WindowOf(x) \in 0..Horizon
<1>1. x \in Nat /\ x < Tick * (Horizon + 1)
  BY RateAssumption DEF Time
<1>2. Epoch(x) \in Nat /\ Epoch(x) < Horizon + 1
  BY <1>1, Quotient, QuotientBelow, RateAssumption DEF Epoch
<1>3. WindowOf(x) \in Nat
  BY <1>2, Quotient, RateAssumption DEF WindowOf
<1>4. Epoch(x) < Window * (Horizon + 1)
  BY <1>2, RateAssumption
<1>5. WindowOf(x) < Horizon + 1
  BY <1>2, <1>4, QuotientBelow, RateAssumption DEF WindowOf
<1>6. QED
  BY <1>3, <1>5, RateAssumption

\* A stretch of a window's length touches two windows at most.
LEMMA TwoWindows ==
    ASSUME NEW x \in Nat, NEW y \in Nat, x <= y, y < x + Window * Tick
    PROVE  WindowOf(y) \in {WindowOf(x), WindowOf(x) + 1}
<1> DEFINE e == Epoch(x)
           w == WindowOf(x)
<1>1. e \in Nat /\ w \in Nat /\ x < Tick * e + Tick /\ e < Window * w + Window
  BY Quotient, RateAssumption DEF Epoch, WindowOf
<1>2. y < Tick * (e + 1 + Window)
  BY <1>1, RateAssumption
<1>3. Epoch(y) \in Nat /\ Epoch(y) < e + 1 + Window
  <2>1. e + 1 + Window \in Nat
    BY <1>1, RateAssumption
  <2>2. QED
    BY <2>1, <1>2, Quotient, QuotientBelow, RateAssumption DEF Epoch
<1>4. Epoch(y) < Window * (w + 2)
  BY <1>1, <1>3, RateAssumption
<1>5. WindowOf(y) < w + 2
  BY <1>1, <1>3, <1>4, QuotientBelow, RateAssumption DEF WindowOf
<1>6. QED
  BY <1>1, <1>5, WindowsFollowTime

\* Waiting out what remains of a window leads behind it.
LEMMA RemainingLeadsBehind ==
    ASSUME NEW x \in Nat, NEW y \in Nat, x <= y
    PROVE  /\ y + Remaining(x) * Tick \in Nat
           /\ WindowOf(x) < WindowOf(y + Remaining(x) * Tick)
<1> DEFINE e == Epoch(x)
           w == WindowOf(x)
           later == y + Remaining(x) * Tick
<1>1. e \in Nat /\ w \in Nat /\ Tick * e <= x /\ Window * w <= e /\ e < Window * w + Window
  BY Quotient, RateAssumption DEF Epoch, WindowOf
<1>2. Remaining(x) \in Nat /\ e + Remaining(x) = Window * (w + 1)
  BY <1>1, RateAssumption DEF Remaining
<1>3. later \in Nat /\ Tick * (e + Remaining(x)) <= later
  BY <1>1, <1>2, RateAssumption
<1>4. Tick * (Window * (w + 1)) <= later
  BY <1>2, <1>3
<1>5. Window * (w + 1) \in Nat
  BY <1>1, RateAssumption
<1>6. Window * (w + 1) <= Epoch(later)
  <2>1. CASE Epoch(later) < Window * (w + 1)
    <3>1. Epoch(later) \in Nat /\ later < Tick * Epoch(later) + Tick
      BY <1>3, Quotient, RateAssumption DEF Epoch
    <3>2. Tick * (Epoch(later) + 1) <= Tick * (Window * (w + 1))
      BY <2>1, <3>1, <1>5, RateAssumption
    <3>3. QED
      BY <3>1, <3>2, <1>3, <1>4, <1>5, RateAssumption
  <2>2. QED
    BY <2>1, <1>3, <1>5, Quotient, RateAssumption DEF Epoch
<1>7. w + 1 <= WindowOf(later)
  <2>1. Epoch(later) \in Nat
    BY <1>3, Quotient, RateAssumption DEF Epoch
  <2>2. WindowOf(later) \in Nat /\ Epoch(later) < Window * WindowOf(later) + Window
    BY <2>1, Quotient, RateAssumption DEF WindowOf
  <2>3. Window * (w + 1) < Window * (WindowOf(later) + 1)
    BY <1>5, <1>6, <2>1, <2>2, RateAssumption
  <2>4. QED
    BY <1>1, <2>2, <2>3, RateAssumption
<1>8. QED
  BY <1>1, <1>2, <1>3, <1>7, WindowsFollowTime
----------------------------------------------------------------------------
(* The deque *)

LEMMA LeastNatural ==
    ASSUME NEW S \in SUBSET Nat, S # {}
    PROVE  \E n \in S : \A m \in S : n <= m
<1> DEFINE R == OpToRel(<, Nat)
<1>1. IsWellFoundedOn(R, Nat)
    BY NatLessThanWellFounded
<1>2. \A m, n \in Nat : m < n => <<m, n>> \in R
    BY DEF OpToRel
<1> HIDE DEF R
<1>3. PICK n \in S : \A m \in S : ~(<<m, n>> \in R)
    BY <1>1, WFMin
<1>4. \A m \in S : ~(m < n)
    BY <1>2, <1>3
<1> QED BY <1>4

\* What is left of the deque is its end: only old entries are taken, from the front.
LEMMA YoungIsEnd ==
    ASSUME entries \in Seq(Time), NEW x \in Time
    PROVE  \E f \in 1 .. Len(entries) + 1 :
              /\ \A j \in 1 .. f - 1 : entries[j] <= x - Window * Tick
              /\ f <= Len(entries) => ~(entries[f] <= x - Window * Tick)
              /\ Young(x) \in Seq(Time)
              /\ Len(Young(x)) = Len(entries) + 1 - f
              /\ \A i \in 1 .. Len(Young(x)) : Young(x)[i] = entries[f + i - 1]
<1> DEFINE Old(i) == entries[i] <= x - Window * Tick
           First(i) == /\ \A j \in 1 .. i - 1 : Old(j)
                       /\ i <= Len(entries) => ~Old(i)
           f == CHOOSE i \in 1 .. Len(entries) + 1 : First(i)
<1>1. \E i \in 1 .. Len(entries) + 1 : First(i)
  <2>1. DEFINE S == {i \in 1 .. Len(entries) + 1 : i <= Len(entries) => ~Old(i)}
  <2>2. Len(entries) + 1 \in S /\ S \in SUBSET Nat
    OBVIOUS
  <2>3. PICK n \in S : \A m \in S : n <= m
    BY <2>2, LeastNatural
  <2>4. \A j \in 1 .. n - 1 : Old(j)
    BY <2>3
  <2>5. QED
    BY <2>3, <2>4
<1>2. f \in 1 .. Len(entries) + 1 /\ First(f)
  BY <1>1
<1>3. Young(x) = SubSeq(entries, f, Len(entries))
  BY DEF Young
<1>4. /\ Young(x) \in Seq(Time)
      /\ Len(Young(x)) = Len(entries) + 1 - f
      /\ \A i \in 1 .. Len(Young(x)) : Young(x)[i] = entries[f + i - 1]
  <2> HIDE DEF f
  <2>1. QED
    BY <1>2, <1>3
<1>5. QED
  BY <1>2, <1>4

\* What is left begins with an entry that is not old.
LEMMA YoungIsSuffix ==
    ASSUME entries \in Seq(Time), NEW x \in Time
    PROVE  /\ Young(x) \in Seq(Time)
           /\ Len(Young(x)) <= Len(entries)
           /\ Young(x) # <<>> => Young(x)[1] \in Time /\ Young(x)[1] > x - Window * Tick
           /\ entries # <<>> /\ entries[1] <= x - Window * Tick => Len(Young(x)) < Len(entries)
<1>1. PICK f \in 1 .. Len(entries) + 1 :
          /\ f <= Len(entries) => ~(entries[f] <= x - Window * Tick)
          /\ Young(x) \in Seq(Time)
          /\ Len(Young(x)) = Len(entries) + 1 - f
          /\ \A i \in 1 .. Len(Young(x)) : Young(x)[i] = entries[f + i - 1]
  BY YoungIsEnd
<1>2. ASSUME Young(x) # <<>> PROVE Young(x)[1] \in Time /\ Young(x)[1] > x - Window * Tick
  <2>1. 1 \in 1 .. Len(Young(x)) /\ f \in 1 .. Len(entries)
    BY <1>1, <1>2
  <2>2. Young(x)[1] = entries[f] /\ entries[f] \in Time
    BY <1>1, <2>1
  <2>3. entries[f] \in Nat /\ x \in Nat /\ Window * Tick \in Nat
    BY <2>2, TimeIsNat
  <2>4. QED
    BY <1>1, <2>1, <2>2, <2>3
<1>3. entries # <<>> /\ entries[1] <= x - Window * Tick => f # 1
  BY <1>1
<1>4. QED
  BY <1>1, <1>2, <1>3

\* How many of a sequence of times fall into a stretch.
LEMMA KeptCount ==
    ASSUME NEW s \in Seq(Time), NEW time
    PROVE  /\ IsFiniteSet(Kept(s, time))
           /\ Cardinality(Kept(s, time)) \in Nat
           /\ Cardinality(Kept(s, time)) <= Len(s)
<1>1. Kept(s, time) \subseteq 1 .. Len(s) /\ Len(s) \in Nat
  BY DEF Kept
<1>2. IsFiniteSet(1 .. Len(s)) /\ Cardinality(1 .. Len(s)) = Len(s)
  <2> DEFINE n == Len(s)
  <2>1. n \in Nat
    OBVIOUS
  <2> HIDE DEF n
  <2>2. IsFiniteSet(1 .. n) /\ Cardinality(1 .. n) = IF 1 > n THEN 0 ELSE n - 1 + 1
    BY <2>1, FS_Interval
  <2>3. IsFiniteSet(1 .. n) /\ Cardinality(1 .. n) = n
    BY <2>1, <2>2
  <2>4. QED
    BY <2>3 DEF n
<1>3. QED
  BY <1>1, <1>2, FS_Subset, FS_CardinalityType

LEMMA KeptAppend ==
    ASSUME NEW s \in Seq(Time), NEW x \in Time, NEW time
    PROVE  Cardinality(Kept(Append(s, x), time))
             = Cardinality(Kept(s, time)) + (IF Within(x, time) THEN 1 ELSE 0)
<1> DEFINE n == Len(s) + 1
<1>1. /\ n \in Nat /\ DOMAIN Append(s, x) = (1 .. Len(s)) \union {n}
      /\ \A i \in 1 .. Len(s) : Append(s, x)[i] = s[i]
      /\ Append(s, x)[n] = x
      /\ n \notin 1 .. Len(s)
  OBVIOUS
<1>2. DOMAIN s = 1 .. Len(s)
  OBVIOUS
<1>3. n \notin Kept(s, time)
  BY <1>1, <1>2 DEF Kept
<1> HIDE DEF n
<1>4. Kept(Append(s, x), time)
        = IF Within(x, time) THEN Kept(s, time) \union {n} ELSE Kept(s, time)
  BY <1>1, <1>2 DEF Kept
<1>5. IsFiniteSet(Kept(s, time)) /\ Cardinality(Kept(s, time)) \in Nat
  BY KeptCount
<1>6. Cardinality(Kept(s, time) \union {n}) = Cardinality(Kept(s, time)) + 1
  BY <1>3, <1>5, FS_AddElement
<1>7. QED
  BY <1>4, <1>5, <1>6

\* A time read before the end of a stretch drops nothing of it.
LEMMA KeptYoung ==
    ASSUME entries \in Seq(Time), NEW x \in Time, NEW time \in Time, x < time + Window * Tick
    PROVE  Cardinality(Kept(entries, time)) <= Cardinality(Kept(Young(x), time))
<1>1. PICK f \in 1 .. Len(entries) + 1 :
          /\ \A j \in 1 .. f - 1 : entries[j] <= x - Window * Tick
          /\ Young(x) \in Seq(Time)
          /\ Len(Young(x)) = Len(entries) + 1 - f
          /\ \A i \in 1 .. Len(Young(x)) : Young(x)[i] = entries[f + i - 1]
  BY YoungIsEnd
<1> DEFINE shift == [i \in Kept(entries, time) |-> i - f + 1]
<1>2. ASSUME NEW i \in Kept(entries, time)
      PROVE  i \in Int /\ i - f + 1 \in Kept(Young(x), time)
  <2>1. i \in 1 .. Len(entries) /\ entries[i] \in Time /\ Within(entries[i], time)
    BY DEF Kept
  <2>2. entries[i] \in Nat /\ x \in Nat /\ time \in Nat /\ Window * Tick \in Nat
    BY <2>1, TimeIsNat
  <2>3. ~(entries[i] <= x - Window * Tick)
    BY <2>1, <2>2 DEF Within
  <2>4. ~(i \in 1 .. f - 1)
    BY <1>1, <2>3
  <2>5. i - f + 1 \in 1 .. Len(Young(x)) /\ f + (i - f + 1) - 1 = i
    BY <1>1, <2>1, <2>4
  <2>6. Young(x)[i - f + 1] = entries[i]
    BY <1>1, <2>5
  <2>7. QED
    BY <1>1, <2>1, <2>5, <2>6 DEF Kept
<1>3. shift \in Injection(Kept(entries, time), Kept(Young(x), time))
  <2>1. \A i, j \in Kept(entries, time) : shift[i] = shift[j] => i = j
    BY <1>2
  <2>2. QED
    BY <1>2, <2>1 DEF Injection, IsInjective
<1>4. QED
  BY <1>1, <1>3, KeptCount, FS_Injection

----------------------------------------------------------------------------
LEMMA InitInv == Init => Inv
<1>1. SUFFICES ASSUME Init PROVE Inv
  OBVIOUS
<1>2. Horizon * Tick \in Nat
  BY RateAssumption
<1>3. TypeOK
  BY <1>1, <1>2, NoAdviceType, RateAssumption DEF Init, TypeOK, Time, None
<1>4. Counted
  <2>1. SUFFICES ASSUME NEW time \in Time
                 PROVE  Cardinality(From(time)) <= Cardinality(Kept(entries, time))
    BY DEF Counted
  <2>2. From(time) = {} /\ Kept(entries, time) = {}
    BY <1>1 DEF Init, From, Kept
  <2>3. QED
    BY <2>2, FS_EmptySet
<1>5. QED
  BY <1>1, <1>3, <1>4, FS_EmptySet, RateAssumption
     DEF Init, Inv, Numbered, NotAhead, AdviceHolds, NoAdvice

\* Time passes: no row gets ahead, and no advice goes bad.
LEMMA PassInv == Inv /\ Pass => Inv'
<1>1. SUFFICES ASSUME Inv, Pass PROVE Inv'
  OBVIOUS
<1>2. now \in Nat /\ now' \in Time /\ now <= now'
  BY <1>1, TimeIsNat DEF Inv, TypeOK, Pass
<1>3. WindowOf(now) \in Nat /\ WindowOf(now') \in Nat /\ WindowOf(now) <= WindowOf(now')
  BY <1>2, TimeIsNat, WindowsFollowTime
<1>4. NotAhead'
  <2>1. SUFFICES ASSUME NEW w \in 0..Horizon, count[w] > 0 PROVE w <= WindowOf(now')
    BY <1>1 DEF NotAhead, Pass
  <2>2. w <= WindowOf(now)
    BY <1>1, <2>1 DEF Inv, NotAhead
  <2>3. QED
    BY <1>3, <2>2, RateAssumption
<1>5. TypeOK'
  <2>1. ASSUME NEW t \in Thread PROVE stamp'[t] <= now'
    <3>1. stamp'[t] = stamp[t] /\ stamp[t] \in Time \union {None} /\ stamp[t] <= now
      BY <1>1 DEF Inv, TypeOK, Pass
    <3>2. CASE stamp[t] = None
      BY <1>2, <3>1, <3>2, TimeIsNat DEF None
    <3>3. CASE stamp[t] \in Time
      <4>1. stamp[t] \in Nat /\ now' \in Nat
        BY <1>2, <3>3, TimeIsNat
      <4>2. QED
        BY <1>2, <3>1, <4>1
    <3>4. QED
      BY <3>1, <3>2, <3>3
  <2>2. QED
    BY <1>1, <1>2, <2>1 DEF Inv, TypeOK, Pass
<1>6. Numbered' /\ AdviceHolds'
  BY <1>1 DEF Inv, Numbered, AdviceHolds, Pass
<1>7. Counted'
  <2>1. SUFFICES ASSUME ~persisted, NEW time \in Time
                 PROVE  \/ Cardinality(From(time)) <= Cardinality(Kept(entries, time))
                        \/ /\ now' >= time + Window * Tick
                           /\ Cardinality(From(time)) + Cardinality(Pending(time))
                                <= Limit + Cardinality(Thread) - 1
    BY <1>1 DEF Counted, From, Kept, Within, Pending, Pass
  <2>2. time \in Nat /\ Window * Tick \in Nat /\ now' \in Nat
    BY <1>2, TimeIsNat
  <2>3. QED
    BY <1>1, <1>2, <2>1, <2>2 DEF Inv, Counted
<1>8. QED
  BY <1>1, <1>4, <1>5, <1>6, <1>7 DEF Inv, Pass

LEMMA ReadClockInv == ASSUME NEW t \in Thread PROVE Inv /\ ReadClock(t) => Inv'
<1>1. SUFFICES ASSUME Inv, ReadClock(t) PROVE Inv'
  OBVIOUS
<1>2. TypeOK'
  BY <1>1, TimeIsNat DEF Inv, TypeOK, ReadClock
<1>3. Numbered' /\ NotAhead' /\ AdviceHolds'
  BY <1>1 DEF Inv, Numbered, NotAhead, AdviceHolds, ReadClock
<1>4. Counted'
  <2>1. SUFFICES ASSUME ~persisted, NEW time \in Time
                 PROVE  \/ Cardinality(From(time)) <= Cardinality(Kept(entries, time))
                        \/ /\ now >= time + Window * Tick
                           /\ Cardinality(From(time)) + Cardinality(Pending(time)')
                                <= Limit + Cardinality(Thread) - 1
    BY <1>1 DEF Counted, From, Kept, Within, ReadClock
  <2>2. ASSUME now >= time + Window * Tick PROVE Pending(time)' = Pending(time)
    <3>1. ~Within(now, time)
      <4>1. time \in Nat /\ Window * Tick \in Nat /\ now \in Nat
        BY <1>1, TimeIsNat DEF Inv, TypeOK
      <4>2. QED
        BY <2>2, <4>1 DEF Within
    <3>2. \A s \in Thread : stamp'[s] = IF s = t THEN now ELSE stamp[s]
      BY <1>1 DEF Inv, TypeOK, ReadClock
    <3>3. stamp[t] = None
      BY <1>1 DEF ReadClock
    <3>4. QED
      BY <3>1, <3>2, <3>3 DEF Pending, Within
  <2>3. QED
    BY <1>1, <2>1, <2>2 DEF Inv, Counted
<1>5. QED
  BY <1>1, <1>2, <1>3, <1>4 DEF Inv, ReadClock

\* What a thread about to be counted has read.
LEMMA StampRead ==
    ASSUME Inv, NEW t \in Thread, stamp[t] # None
    PROVE  stamp[t] \in Time /\ stamp[t] \in Nat /\ now \in Nat /\ stamp[t] <= now
BY TimeIsNat DEF Inv, TypeOK

----------------------------------------------------------------------------
(* The steps of the database *)

LEMMA ConsumeInv == ASSUME NEW t \in Thread PROVE Inv /\ Consume(t) => Inv'
<1>1. SUFFICES ASSUME Inv, Consume(t) PROVE Inv'
  OBVIOUS
<1> DEFINE w == WindowOf(stamp[t])
           one == [at |-> stamp[t], nth |-> count[w] + 1]
<1>2. /\ persisted /\ Room(w)
      /\ count' = [count EXCEPT ![w] = @ + 1]
      /\ admitted' = admitted \union {one}
      /\ stamp' = [stamp EXCEPT ![t] = None]
      /\ advice' = NoAdvice
      /\ UNCHANGED <<persisted, now, entries>>
  BY <1>1 DEF Consume
<1>3. stamp[t] \in Time /\ stamp[t] \in Nat /\ now \in Nat /\ stamp[t] <= now
  BY <1>1, StampRead DEF Consume
<1>4. w \in 0..Horizon /\ count[w] \in 0..Limit /\ count[w] < Limit
  BY <1>1, <1>2, <1>3, WindowInRange DEF Room, Inv, TypeOK
<1>5. count' \in [0..Horizon -> 0..Limit]
  BY <1>1, <1>2, <1>4, RateAssumption DEF Inv, TypeOK
<1>6. \A v \in 0..Horizon : count'[v] = IF v = w THEN count[v] + 1 ELSE count[v]
  BY <1>1, <1>2, <1>4 DEF Inv, TypeOK
<1>7. TypeOK'
  <2>1. one \in [at : Time, nth : Nat]
    BY <1>3, <1>4, RateAssumption
  <2>2. stamp' \in [Thread -> Time \union {None}] /\ \A s \in Thread : stamp'[s] <= now'
    BY <1>1, <1>2, <1>3 DEF Inv, TypeOK, None
  <2>3. QED
    BY <1>1, <1>2, <1>5, <2>1, <2>2, NoAdviceType DEF Inv, TypeOK
<1>8. Numbered'
  <2>1. SUFFICES /\ \A a \in admitted' : a.nth \in 1 .. count'[WindowOf(a.at)]
                 /\ \A a, b \in admitted' :
                      WindowOf(a.at) = WindowOf(b.at) /\ a.nth = b.nth => a = b
    BY DEF Numbered
  <2>2. \A a \in admitted : /\ WindowOf(a.at) \in 0..Horizon
                            /\ count[WindowOf(a.at)] \in Nat
                            /\ a.nth \in 1 .. count[WindowOf(a.at)]
    BY <1>1, <1>2, WindowInRange DEF Inv, TypeOK, Numbered
  <2>3. one.nth = count[w] + 1 /\ WindowOf(one.at) = w
    OBVIOUS
  <2> HIDE DEF w, one
  <2>4. ASSUME NEW a \in admitted' PROVE a.nth \in 1 .. count'[WindowOf(a.at)]
    <3>1. CASE a = one
      BY <1>4, <1>6, <2>3, <3>1, RateAssumption
    <3>2. CASE a \in admitted
      BY <1>6, <2>2, <3>2
    <3>3. QED
      BY <1>2, <3>1, <3>2
  <2>5. ASSUME NEW a \in admitted', NEW b \in admitted',
               WindowOf(a.at) = WindowOf(b.at), a.nth = b.nth
        PROVE  a = b
    <3>1. CASE a \in admitted /\ b \in admitted
      BY <1>1, <1>2, <2>5, <3>1 DEF Inv, Numbered
    <3>2. CASE a = one /\ b \in admitted
      BY <1>4, <2>2, <2>3, <2>5, <3>2
    <3>3. CASE b = one /\ a \in admitted
      BY <1>4, <2>2, <2>3, <2>5, <3>3
    <3>4. QED
      BY <1>2, <3>1, <3>2, <3>3
  <2>6. QED
    BY <2>4, <2>5
<1>9. NotAhead'
  <2>1. WindowOf(now) \in Nat /\ w <= WindowOf(now)
    BY <1>3, WindowsFollowTime
  <2>2. QED
    BY <1>1, <1>2, <1>6, <2>1 DEF Inv, NotAhead
<1>10. IsFiniteSet(admitted')
  BY <1>1, <1>2, FS_AddElement DEF Inv
<1>11. QED
  BY <1>1, <1>2, <1>7, <1>8, <1>9, <1>10 DEF Inv, AdviceHolds, Counted, NoAdvice

LEMMA RefuseInv == ASSUME NEW t \in Thread PROVE Inv /\ Refuse(t) => Inv'
<1>1. SUFFICES ASSUME Inv, Refuse(t) PROVE Inv'
  OBVIOUS
<1> DEFINE later == now + Remaining(stamp[t]) * Tick
<1>2. stamp[t] \in Time /\ stamp[t] \in Nat /\ now \in Nat /\ stamp[t] <= now
  BY <1>1, StampRead DEF Refuse
<1>3. later \in Nat /\ WindowOf(stamp[t]) < WindowOf(later)
  BY <1>2, RemainingLeadsBehind
<1> HIDE DEF later
<1>4. advice' = [until |-> later, window |-> WindowOf(stamp[t]),
                 late |-> WindowOf(now) # WindowOf(stamp[t])]
  BY <1>1 DEF Refuse, later
<1>5. TypeOK'
  <2>1. stamp' \in [Thread -> Time \union {None}] /\ \A s \in Thread : stamp'[s] <= now'
    BY <1>1, <1>2 DEF Inv, TypeOK, Refuse, None
  <2>2. WindowOf(stamp[t]) \in 0..Horizon
    BY <1>2, WindowInRange
  <2>3. advice' \in [until : Nat \union {None}, window : 0..Horizon, late : BOOLEAN]
    BY <1>3, <1>4, <2>2
  <2>4. QED
    BY <1>1, <2>1, <2>3 DEF Inv, TypeOK, Refuse
<1>6. AdviceHolds'
  <2>1. /\ advice'.until = later /\ advice'.window = WindowOf(stamp[t])
        /\ ~advice'.late => WindowOf(now) = WindowOf(stamp[t])
    BY <1>4
  <2>2. ASSUME WindowOf(now) = WindowOf(stamp[t]), NEW w \in 0..Horizon,
               WindowOf(later) <= w
        PROVE  count[w] = 0
    <3>1. WindowOf(now) \in Nat /\ WindowOf(later) \in Nat
      BY <1>2, <1>3, WindowsFollowTime
    <3>2. WindowOf(now) < w
      BY <1>3, <2>2, <3>1
    <3>3. ~(count[w] > 0)
      BY <1>1, <2>2, <3>1, <3>2 DEF Inv, NotAhead
    <3>4. QED
      BY <1>1, <2>2, <3>3 DEF Inv, TypeOK
  <2>3. persisted' /\ count' = count
    BY <1>1 DEF Refuse
  <2>4. QED
    BY <1>3, <2>1, <2>2, <2>3 DEF AdviceHolds
<1>7. Numbered' /\ NotAhead'
  BY <1>1 DEF Inv, Numbered, NotAhead, Refuse
<1>8. QED
  BY <1>1, <1>5, <1>6, <1>7 DEF Inv, Counted, Refuse

----------------------------------------------------------------------------
(* The steps of a process *)

\* An admission adds one to the stretches that hold its time.
LEMMA FromAdds ==
    ASSUME IsFiniteSet(admitted), NEW one, admitted' = admitted \union {one}, NEW time
    PROVE  /\ Cardinality(From(time)) \in Nat
           /\ Cardinality(From(time)') \in Nat
           /\ Cardinality(From(time)')
                <= Cardinality(From(time)) + (IF Within(one.at, time) THEN 1 ELSE 0)
<1>1. IsFiniteSet(From(time))
  BY FS_Subset DEF From
<1>2. From(time)' = IF Within(one.at, time) THEN From(time) \union {one} ELSE From(time)
  BY DEF From, Within
<1>3. /\ IsFiniteSet(From(time) \union {one})
      /\ Cardinality(From(time) \union {one})
           = IF one \in From(time) THEN Cardinality(From(time)) ELSE Cardinality(From(time)) + 1
  BY <1>1, FS_AddElement
<1>4. /\ Cardinality(From(time)) \in Nat
      /\ Cardinality(From(time) \union {one}) \in Nat
  BY <1>1, <1>3, FS_CardinalityType
<1>5. QED
  BY <1>2, <1>3, <1>4

\* A thread that is counted has no time pending any more.
LEMMA PendingLess ==
    ASSUME TypeOK, NEW t \in Thread, stamp[t] # None,
           stamp' = [stamp EXCEPT ![t] = None], NEW time
    PROVE  /\ Cardinality(Thread) \in Nat
           /\ Cardinality(Pending(time)) \in Nat
           /\ Cardinality(Pending(time)') \in Nat
           /\ Cardinality(Pending(time)') <= Cardinality(Thread) - 1
           /\ Cardinality(Pending(time)') + (IF Within(stamp[t], time) THEN 1 ELSE 0)
                <= Cardinality(Pending(time))
<1>1. \A s \in Thread : stamp'[s] = IF s = t THEN None ELSE stamp[s]
  BY DEF TypeOK
<1>2. Pending(time)' = Pending(time) \ {t}
  BY <1>1 DEF Pending
<1>3. Within(stamp[t], time) => t \in Pending(time)
  BY DEF Pending
<1>4. /\ IsFiniteSet(Thread) /\ IsFiniteSet(Pending(time)) /\ IsFiniteSet(Thread \ {t})
      /\ Pending(time) \subseteq Thread /\ Pending(time)' \subseteq Thread \ {t}
  BY <1>2, RateAssumption, FS_Subset, FS_RemoveElement DEF Pending
<1>5. /\ Cardinality(Thread \ {t}) = Cardinality(Thread) - 1
      /\ Cardinality(Pending(time)') <= Cardinality(Thread \ {t})
      /\ IsFiniteSet(Pending(time)')
  BY <1>4, FS_Subset, FS_RemoveElement
<1>6. Cardinality(Pending(time)')
        = IF t \in Pending(time) THEN Cardinality(Pending(time)) - 1
          ELSE Cardinality(Pending(time))
  BY <1>2, <1>4, FS_RemoveElement
<1>7. /\ Cardinality(Thread) \in Nat /\ Cardinality(Pending(time)) \in Nat
      /\ Cardinality(Pending(time)') \in Nat
  BY <1>4, <1>5, FS_CardinalityType
<1>8. QED
  BY <1>3, <1>5, <1>6, <1>7

\* What a thread does under the lock, admitted or not: a time read in a stretch, or before
\* it, leaves the stretch's admissions in the deque; one read after it finds it over.
LEMMA CountedStep ==
    ASSUME Inv, ~persisted, NEW t \in Thread, stamp[t] # None,
           stamp' = [stamp EXCEPT ![t] = None], now' = now,
           NEW one, one.at = stamp[t],
           \/ entries' = Young(stamp[t]) /\ admitted' = admitted
           \/ entries' = Append(Young(stamp[t]), stamp[t]) /\ admitted' = admitted \union {one}
    PROVE  Counted'
<1> DEFINE x == stamp[t]
           W == Window * Tick
           adds(time) == IF Within(x, time) THEN 1 ELSE 0
<1>1. x \in Time /\ x \in Nat /\ now \in Nat /\ x <= now
  BY StampRead
<1>2. entries \in Seq(Time) /\ Young(x) \in Seq(Time) /\ Len(entries) <= Limit
  BY <1>1, YoungIsSuffix DEF Inv, TypeOK
<1>3. SUFFICES ASSUME NEW time \in Time
               PROVE  \/ Cardinality(From(time)') <= Cardinality(Kept(entries', time))
                      \/ /\ now >= time + W
                         /\ Cardinality(From(time)') + Cardinality(Pending(time)')
                              <= Limit + Cardinality(Thread) - 1
  BY DEF Counted, Kept, Within
<1> DEFINE from == Cardinality(From(time))
           later == Cardinality(From(time)')
           pend == Cardinality(Pending(time))
           less == Cardinality(Pending(time)')
           kept == Cardinality(Kept(entries, time))
           young == Cardinality(Kept(Young(x), time))
           left == Cardinality(Kept(entries', time))
           all == Cardinality(Thread)
<1>4. /\ all \in Nat /\ pend \in Nat /\ less \in Nat /\ less <= all - 1
      /\ less + adds(time) <= pend
  BY PendingLess DEF Inv
<1>5. /\ from \in Nat /\ later \in Nat /\ later <= from + adds(time)
      /\ admitted' = admitted => later = from
  <2>1. IsFiniteSet(From(time))
    BY FS_Subset DEF From, Inv
  <2>2. admitted' = admitted => From(time)' = From(time)
    BY DEF From
  <2>3. admitted' = admitted \union {one}
          => later \in Nat /\ later <= from + adds(time)
    BY FromAdds DEF Inv
  <2>4. from \in Nat
    BY <2>1, FS_CardinalityType
  <2>5. QED
    BY <2>2, <2>3, <2>4
<1>6. /\ kept \in Nat /\ kept <= Limit /\ young \in Nat
      /\ left = young \/ left = young + adds(time)
      /\ admitted' = admitted \/ left = young + adds(time)
  <2>1. kept \in Nat /\ kept <= Len(entries) /\ young \in Nat
    BY <1>2, KeptCount
  <2>2. Cardinality(Kept(Append(Young(x), x), time)) = young + adds(time)
    BY <1>1, <1>2, KeptAppend
  <2>3. Len(entries) \in Nat /\ Limit \in Nat
    BY <1>2, RateAssumption
  <2>4. (left = young /\ admitted' = admitted) \/ left = young + adds(time)
    <3>1. CASE entries' = Young(x) /\ admitted' = admitted
      BY <3>1
    <3>2. CASE entries' = Append(Young(x), x)
      BY <2>2, <3>2
    <3>3. QED
      BY <3>1, <3>2
  <2> HIDE DEF kept, young, left, adds
  <2>5. QED
    BY <1>2, <2>1, <2>3, <2>4
<1>7. time \in Nat /\ W \in Nat
  BY TimeIsNat
<1>8. x < time + W => kept <= young
  BY <1>1, <1>2, KeptYoung
<1>9. ~(x < time + W) => adds(time) = 0 /\ now >= time + W
  BY <1>1, <1>7 DEF Within
<1>10. from <= kept \/ (now >= time + W /\ from + pend <= Limit + all - 1)
  BY DEF Inv, Counted
<1>11. adds(time) \in {0, 1}
  OBVIOUS
<1>12. Limit \in Nat
  BY RateAssumption
<1> HIDE DEF from, later, pend, less, kept, young, left, all, adds, W
<1>13. later <= left \/ (now >= time + W /\ later + less <= Limit + all - 1)
  <2>1. CASE x < time + W /\ from <= kept
    <3>1. CASE admitted' = admitted
      BY <1>5, <1>6, <1>8, <1>11, <2>1, <3>1
    <3>2. CASE left = young + adds(time)
      BY <1>5, <1>6, <1>8, <1>11, <2>1, <3>2
    <3>3. QED
      BY <1>6, <3>1, <3>2
  <2>2. CASE ~(x < time + W) /\ from <= kept
    BY <1>4, <1>5, <1>6, <1>9, <1>12, <2>2
  <2>3. CASE now >= time + W /\ from + pend <= Limit + all - 1
    BY <1>4, <1>5, <1>11, <1>12, <2>3
  <2>4. QED
    BY <1>10, <2>1, <2>2, <2>3
<1>14. QED
  BY <1>13 DEF later, less, left, all

LEMMA AdmitLocallyInv == ASSUME NEW t \in Thread PROVE Inv /\ AdmitLocally(t) => Inv'
<1>1. SUFFICES ASSUME Inv, AdmitLocally(t) PROVE Inv'
  OBVIOUS
<1>2. stamp[t] \in Time /\ stamp[t] \in Nat /\ now \in Nat /\ stamp[t] <= now
  BY <1>1, StampRead DEF AdmitLocally
<1>3. Young(stamp[t]) \in Seq(Time) /\ Len(Young(stamp[t])) < Limit
  BY <1>1, <1>2, YoungIsSuffix DEF AdmitLocally, Inv, TypeOK
<1>4. entries' \in Seq(Time) /\ Len(entries') <= Limit
  BY <1>1, <1>2, <1>3, RateAssumption DEF AdmitLocally
<1>5. IsFiniteSet(admitted')
  BY <1>1, FS_AddElement DEF Inv, AdmitLocally
<1>6. admitted' \subseteq [at : Time, nth : Nat]
  BY <1>1, <1>2, FS_CardinalityType DEF Inv, TypeOK, AdmitLocally
<1>7. TypeOK'
  <2>1. stamp' \in [Thread -> Time \union {None}] /\ \A s \in Thread : stamp'[s] <= now'
    BY <1>1, <1>2 DEF Inv, TypeOK, AdmitLocally, None
  <2>2. QED
    BY <1>1, <1>4, <1>6, <2>1, NoAdviceType DEF Inv, TypeOK, AdmitLocally
<1>8. Numbered' /\ NotAhead' /\ AdviceHolds'
  BY <1>1 DEF Inv, Numbered, NotAhead, AdviceHolds, AdmitLocally, NoAdvice
<1>9. Counted'
  <2> DEFINE one == [at |-> stamp[t], nth |-> Cardinality(admitted) + 1]
  <2>1. one.at = stamp[t] /\ admitted' = admitted \union {one}
    BY <1>1 DEF AdmitLocally
  <2> HIDE DEF one
  <2>2. QED
    BY <1>1, <2>1, CountedStep DEF AdmitLocally
<1>10. QED
  BY <1>1, <1>4, <1>5, <1>7, <1>8, <1>9 DEF Inv

LEMMA RefuseLocallyInv == ASSUME NEW t \in Thread PROVE Inv /\ RefuseLocally(t) => Inv'
<1>1. SUFFICES ASSUME Inv, RefuseLocally(t) PROVE Inv'
  OBVIOUS
<1> DEFINE young == Young(stamp[t])
           left == young[1] + Window * Tick - stamp[t]
           patience == left \div Tick + 1
<1>2. /\ ~persisted /\ Len(young) >= Limit /\ entries' = young
      /\ advice' = [NoAdvice EXCEPT !.until = now + patience * Tick]
  BY <1>1 DEF RefuseLocally, Patience
<1>3. stamp[t] \in Time /\ stamp[t] \in Nat /\ now \in Nat /\ stamp[t] <= now
  BY <1>1, StampRead DEF RefuseLocally
<1>4. /\ young \in Seq(Time) /\ Len(young) <= Len(entries)
      /\ young # <<>> => young[1] \in Time /\ young[1] > stamp[t] - Window * Tick
  BY <1>1, <1>3, YoungIsSuffix DEF Inv, TypeOK
<1>5. young # <<>>
  <2> HIDE DEF young
  <2>1. QED
    BY <1>2, <1>4, RateAssumption
<1>6. left \in Nat /\ young[1] \in Nat
  <2>1. young[1] \in Nat /\ Window * Tick \in Nat /\ young[1] > stamp[t] - Window * Tick
    BY <1>4, <1>5, TimeIsNat
  <2>2. QED
    BY <1>3, <2>1
<1>7. patience \in Nat /\ left < patience * Tick /\ patience * Tick \in Nat
  <2>1. left \div Tick \in Nat /\ left < Tick * (left \div Tick) + Tick
    BY <1>6, Quotient, RateAssumption
  <2>2. QED
    BY <2>1, RateAssumption
<1>8. /\ advice'.until \in Nat /\ young[1] + Window * Tick <= advice'.until
      /\ advice' \in [until : Nat \union {None}, window : 0..Horizon, late : BOOLEAN]
  <2> HIDE DEF patience, young
  <2>1. Window * Tick \in Nat
    BY TimeIsNat
  <2>2. now + patience * Tick \in Nat /\ young[1] + Window * Tick <= now + patience * Tick
    BY <1>3, <1>6, <1>7, <2>1
  <2>3. /\ advice'.until = now + patience * Tick
        /\ advice'.window = 0 /\ advice'.late = FALSE
        /\ advice' = [until |-> advice'.until, window |-> 0, late |-> FALSE]
    BY <1>2 DEF NoAdvice
  <2>4. 0 \in 0..Horizon
    BY RateAssumption
  <2>5. QED
    BY <2>2, <2>3, <2>4
<1>9. TypeOK'
  <2>1. stamp' \in [Thread -> Time \union {None}] /\ \A s \in Thread : stamp'[s] <= now'
    BY <1>1, <1>3 DEF Inv, TypeOK, RefuseLocally, None
  <2> HIDE DEF young
  <2>2. QED
    BY <1>1, <1>2, <1>4, <1>8, <2>1 DEF Inv, TypeOK, RefuseLocally
<1>10. AdviceHolds'
  BY <1>1, <1>2, <1>5, <1>8 DEF AdviceHolds, RefuseLocally
<1>11. Len(entries') <= Limit
  <2> HIDE DEF young
  <2>1. QED
    BY <1>1, <1>2, <1>4, RateAssumption DEF Inv, TypeOK
<1>12. Numbered' /\ NotAhead'
  BY <1>1 DEF Inv, Numbered, NotAhead, RefuseLocally
<1>13. Counted'
  <2>1. [at |-> stamp[t]].at = stamp[t]
    OBVIOUS
  <2>2. QED
    BY <1>1, <2>1, CountedStep DEF RefuseLocally
<1>14. QED
  BY <1>1, <1>9, <1>10, <1>11, <1>12, <1>13 DEF Inv, RefuseLocally

----------------------------------------------------------------------------
THEOREM RateInvariant == Spec => []Inv
<1>1. Inv /\ [Next]_vars => Inv'
  <2>1. SUFFICES ASSUME Inv, [Next]_vars PROVE Inv'
    OBVIOUS
  <2>2. CASE UNCHANGED vars
    BY <2>1, <2>2 DEF vars, Inv, TypeOK, Numbered, NotAhead, AdviceHolds,
       Counted, From, Kept, Pending, Within
  <2>3. CASE Next
    BY <2>1, <2>3, PassInv, ReadClockInv, ConsumeInv, RefuseInv, AdmitLocallyInv,
       RefuseLocallyInv DEF Next
  <2>4. QED
    BY <2>1, <2>2, <2>3
<1>2. QED
  BY InitInv, <1>1, PTL DEF Spec

\* The clocks, the rows, the deque and the histories keep their types in every state of
\* check_rate_limit.
THEOREM TypesHold == Spec => []TypeOK
<1>1. Inv => TypeOK
  BY DEF Inv
<1>2. QED
  BY RateInvariant, <1>1, PTL

----------------------------------------------------------------------------
(* The quota of the database *)

\* The admissions of two adjoining windows, numbered through one after the other.
LEMMA QuotaOfInvariant == Inv => DatabaseQuota
<1>1. SUFFICES ASSUME Inv, persisted, NEW x \in Time
               PROVE  Cardinality(From(x)) <= 2 * Limit
  BY DEF DatabaseQuota
<1> DEFINE place == [a \in From(x) |->
                       IF WindowOf(a.at) = WindowOf(x) THEN a.nth ELSE a.nth + Limit]
<1>2. ASSUME NEW a \in From(x)
      PROVE  /\ a \in admitted
             /\ a.nth \in 1 .. Limit
             /\ WindowOf(a.at) \in {WindowOf(x), WindowOf(x) + 1}
  <2>1. a \in admitted /\ a.at \in Time /\ x <= a.at /\ a.at < x + Window * Tick
    BY <1>1 DEF From, Inv, TypeOK
  <2>2. count[WindowOf(a.at)] \in 0..Limit
    BY <1>1, <2>1, WindowInRange DEF Inv, TypeOK
  <2>3. a.nth \in 1 .. count[WindowOf(a.at)]
    BY <1>1, <2>1 DEF Inv, Numbered
  <2>4. a.nth \in 1 .. Limit
    BY <2>2, <2>3, RateAssumption
  <2>5. x \in Nat /\ a.at \in Nat
    BY <2>1, TimeIsNat
  <2>6. QED
    BY <2>1, <2>4, <2>5, TwoWindows
<1>3. place \in Injection(From(x), 1 .. 2 * Limit)
  <2>1. \A a \in From(x) : place[a] \in 1 .. 2 * Limit
    BY <1>2, RateAssumption
  <2>2. ASSUME NEW a \in From(x), NEW b \in From(x), place[a] = place[b] PROVE a = b
    <3>1. WindowOf(a.at) = WindowOf(b.at) /\ a.nth = b.nth
      BY <1>2, <2>2, RateAssumption
    <3>2. QED
      BY <1>1, <1>2, <3>1 DEF Inv, Numbered
  <2>3. QED
    BY <2>1, <2>2 DEF Injection, IsInjective
<1>4. IsFiniteSet(1 .. 2 * Limit) /\ Cardinality(1 .. 2 * Limit) = 2 * Limit
  BY FS_Interval, RateAssumption
<1>5. QED
  BY <1>3, <1>4, FS_Injection

\* However late the statements of however many processes run, no stretch of a window's
\* length holds more than twice the limit of admissions (consume_rate_limit).
THEOREM DatabaseQuotaHolds == Spec => []DatabaseQuota
BY RateInvariant, QuotaOfInvariant, PTL

----------------------------------------------------------------------------
(* The quota of a process *)

LEMMA LocalQuotaOfInvariant == Inv => MemoryQuota
<1>1. SUFFICES ASSUME Inv, ~persisted, NEW time \in Time
               PROVE  Cardinality(From(time)) <= Limit + Cardinality(Thread) - 1
  BY DEF MemoryQuota
<1>2. entries \in Seq(Time) /\ Len(entries) <= Limit /\ Len(entries) \in Nat
  BY <1>1 DEF Inv, TypeOK
<1>3. /\ Cardinality(Kept(entries, time)) \in Nat
      /\ Cardinality(Kept(entries, time)) <= Len(entries)
  BY <1>2, KeptCount
<1>4. /\ IsFiniteSet(From(time)) /\ IsFiniteSet(Pending(time))
  BY <1>1, RateAssumption, FS_Subset DEF Inv, From, Pending
<1>5. Cardinality(From(time)) \in Nat /\ Cardinality(Pending(time)) \in Nat
  BY <1>4, FS_CardinalityType
<1>6. Cardinality(Thread) \in Nat \ {0}
  BY RateAssumption, FS_CardinalityType, FS_EmptySet
<1>7. \/ Cardinality(From(time)) <= Cardinality(Kept(entries, time))
      \/ Cardinality(From(time)) + Cardinality(Pending(time))
           <= Limit + Cardinality(Thread) - 1
  BY <1>1 DEF Inv, Counted
<1>8. QED
  BY <1>2, <1>3, <1>5, <1>6, <1>7, RateAssumption

\* However the requests overtake each other between the clock and the lock, a stretch of a
\* window's length holds no more admissions than the limit and one for every thread but
\* one (service.py:829-850).
THEOREM MemoryQuotaHolds == Spec => []MemoryQuota
BY RateInvariant, LocalQuotaOfInvariant, PTL

----------------------------------------------------------------------------
(* Retry-After *)

LEMMA AdviceOfInvariant == Inv => RetryAfterEnough
<1>1. SUFFICES ASSUME Inv, advice.until # None, now >= advice.until
               PROVE  /\ Admissible \/ advice.late
                      /\ persisted => WindowOf(now) > advice.window
  BY DEF RetryAfterEnough
<1>2. now \in Time /\ now \in Nat /\ advice.until \in Nat /\ advice.window \in Nat
  BY <1>1, TimeIsNat, RateAssumption DEF Inv, TypeOK
<1>3. CASE persisted
  <2>1. WindowOf(now) \in 0..Horizon /\ WindowOf(advice.until) <= WindowOf(now)
    BY <1>1, <1>2, WindowInRange, WindowsFollowTime
  <2>2. advice.window < WindowOf(advice.until)
    BY <1>1, <1>3 DEF Inv, AdviceHolds
  <2>3. WindowOf(advice.until) \in Nat /\ WindowOf(now) \in Nat
    BY <1>2, WindowsFollowTime
  <2>4. WindowOf(now) > advice.window
    BY <1>2, <2>1, <2>2, <2>3
  <2>5. CASE ~advice.late
    <3>1. count[WindowOf(now)] = 0
      BY <1>1, <1>3, <2>1, <2>5 DEF Inv, AdviceHolds
    <3>2. QED
      BY <1>3, <2>4, <3>1, RateAssumption DEF Admissible, Room
  <2>6. QED
    BY <2>4, <2>5
<1>4. CASE ~persisted
  <2>1. entries # <<>> /\ entries[1] + Window * Tick <= advice.until /\ entries \in Seq(Time)
    BY <1>1, <1>4 DEF Inv, AdviceHolds, TypeOK
  <2>2. entries[1] \in Time
    BY <2>1
  <2>3. entries[1] <= now - Window * Tick
    <3>1. entries[1] \in Nat /\ Window * Tick \in Nat
      BY <2>2, TimeIsNat
    <3>2. QED
      BY <1>1, <1>2, <2>1, <3>1
  <2>4. Len(Young(now)) < Len(entries)
    BY <1>2, <2>1, <2>3, YoungIsSuffix
  <2>5. Young(now) \in Seq(Time) /\ Len(entries) <= Limit
    BY <1>1, <1>2, <2>1, YoungIsSuffix DEF Inv
  <2>6. QED
    BY <1>4, <2>1, <2>4, <2>5, RateAssumption DEF Admissible
<1>5. QED
  BY <1>3, <1>4

\* Both answers are long enough: what remains of the window, given by a statement that ran
\* within it, and the time until the oldest entry is old; and a statement that ran late
\* still makes its client wait for another window (persistence.py:683, service.py:841-846).
THEOREM AdviceIsEnough == Spec => []RetryAfterEnough
BY RateInvariant, AdviceOfInvariant, PTL
=============================================================================
