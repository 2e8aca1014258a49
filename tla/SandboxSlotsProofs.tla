------------------------- MODULE SandboxSlotsProofs -------------------------
(***************************************************************************)
(* For any number of simulations and slots: no slot is lost, nothing is    *)
(* left behind without a reason, and no more servers than slots run.       *)
(***************************************************************************)
EXTENDS SandboxSlots, FiniteSetTheorems, TLAPS

----------------------------------------------------------------------------
(* The inductive invariant *)

\* Where a simulation has a server of its own.
Serving == {"wait", "poll", "prepare", "work", "command", "close"}

\* Between its start and its closing a simulation knows what to stop.
Remembers ==
    \A s \in Simulation :
        pc[s] \in {"initdb", "start", "wait", "poll", "prepare", "work", "command"} => s \in known

\* A server that nothing went wrong with belongs to a simulation that can stop it.
Owned ==
    \A s \in Simulation :
        s \notin unclean /\ server[s] # "none" =>
            server[s] = "running" /\ pc[s] \in Serving /\ s \in known

\* A directory is there between the opening and the removal only, unless that failed.
Housed ==
    \A s \in Simulation :
        s \notin unclean /\ s \in directory \ unremoved => pc[s] \notin {"idle", "open", "release", "done"}

Inv == TypeOK /\ SlotsConserved /\ Remembers /\ Owned /\ Housed

----------------------------------------------------------------------------
LEMMA HoldingIsFinite == IsFiniteSet(Holding) /\ Cardinality(Holding) \in Nat
<1>1. Holding \in SUBSET Simulation
  BY DEF Holding
<1>2. IsFiniteSet(Holding)
  BY <1>1, SlotsAssumption, FS_Subset
<1>3. QED
  BY <1>2, FS_CardinalityType

LEMMA InitInv == Init => Inv
<1>1. SUFFICES ASSUME Init PROVE Inv
  OBVIOUS
<1>2. Holding = {}
  BY <1>1 DEF Init, Holding
<1>3. SlotsConserved
  BY <1>1, <1>2, FS_EmptySet, SlotsAssumption DEF SlotsConserved, Init
<1>4. QED
  BY <1>1, <1>3, SlotsAssumption
     DEF Init, Inv, TypeOK, Remembers, Owned, Housed, Place, Backend, Serving

----------------------------------------------------------------------------
(* The slots *)

\* A step that moves a simulation without taking or returning a slot.
LEMMA StaysHolding ==
    ASSUME TypeOK, SlotsConserved, NEW s \in Simulation, NEW place \in Place \ {"idle", "done"},
           s \in Holding, GoTo(s, place), free' = free
    PROVE  SlotsConserved'
<1>1. Holding' = Holding
  BY DEF Holding, GoTo, TypeOK
<1>2. QED
  BY <1>1 DEF SlotsConserved

\* One step changes the semaphore and the number of holders together.
LEMMA NextConserved == Inv /\ [Next]_vars => SlotsConserved'
<1>1. SUFFICES ASSUME Inv, [Next]_vars PROVE SlotsConserved'
  OBVIOUS
<1>2. TypeOK /\ SlotsConserved
  BY <1>1 DEF Inv
<1>3. CASE free' = free /\ pc' = pc
  BY <1>2, <1>3 DEF SlotsConserved, Holding
<1>4. ASSUME NEW s \in Simulation, Acquire(s) PROVE SlotsConserved'
  <2>1. s \notin Holding /\ free \in Nat /\ free > 0 /\ free' = free - 1
    BY <1>2, <1>4, SlotsAssumption DEF Acquire, Holding, TypeOK
  <2>2. Holding' = Holding \union {s}
    BY <1>2, <1>4 DEF Acquire, Holding, TypeOK, GoTo
  <2>3. Cardinality(Holding') = Cardinality(Holding) + 1
    BY <2>1, <2>2, HoldingIsFinite, FS_AddElement
  <2>4. QED
    BY <1>2, <2>1, <2>3, HoldingIsFinite, SlotsAssumption DEF SlotsConserved
<1>5. ASSUME NEW s \in Simulation, Release(s) PROVE SlotsConserved'
  <2>1. s \in Holding /\ free \in Nat /\ free' = free + 1
    BY <1>2, <1>5, SlotsAssumption DEF Release, Holding, TypeOK
  <2>2. Holding' = Holding \ {s}
    BY <1>2, <1>5 DEF Release, Holding, TypeOK, GoTo
  <2>3. Cardinality(Holding') = Cardinality(Holding) - 1
    BY <2>1, <2>2, HoldingIsFinite, FS_RemoveElement
  <2>4. QED
    BY <1>2, <2>1, <2>3, HoldingIsFinite, SlotsAssumption DEF SlotsConserved
<1>6. ASSUME NEW s \in Simulation, Busy(s) PROVE SlotsConserved'
  <2>1. Holding' = Holding /\ free' = free
    BY <1>2, <1>6 DEF Busy, Holding, TypeOK, GoTo
  <2>2. QED
    BY <1>2, <2>1 DEF SlotsConserved
<1>7. ASSUME NEW s \in Simulation, Step(s) PROVE SlotsConserved'
  <2>1. CASE Acquire(s) \/ Release(s) \/ Busy(s)
    BY <2>1, <1>4, <1>5, <1>6
  <2>2. CASE Open(s)
    <3>1. s \in Holding /\ free' = free
      BY <2>2, <1>2 DEF Open, Holding
    <3>2. \E place \in Place \ {"idle", "done"} : GoTo(s, place)
      BY <2>2 DEF Open, Place
    <3>3. QED
      BY <1>2, <3>1, <3>2, StaysHolding
  <2>3. CASE \/ InitDb(s) \/ Start(s) \/ StartFails(s) \/ Poll(s) \/ Polled(s) \/ Prepare(s)
             \/ Command(s) \/ Returned(s) \/ Complete(s) \/ Raise(s) \/ Stop(s)
             \/ StopTimeout(s) \/ Remove(s)
    <3>1. s \in Holding /\ free' = free
      BY <2>3, <1>2
         DEF InitDb, Start, StartFails, Poll, Polled, Prepare, Command, Returned, Complete,
             Raise, Stop, StopTimeout, Remove, Holding
    <3>2. \E place \in Place \ {"idle", "done"} : GoTo(s, place)
      BY <2>3
         DEF InitDb, Start, StartFails, Poll, Polled, Prepare, Command, Returned, Complete,
             Raise, Stop, StopTimeout, Remove, Place
    <3>3. QED
      BY <1>2, <3>1, <3>2, StaysHolding
  <2>4. QED
    BY <1>7, <2>1, <2>2, <2>3 DEF Step
<1>8. ASSUME NEW s \in Simulation, Overdue(s) \/ LateServer(s) PROVE SlotsConserved'
  BY <1>3, <1>8 DEF Overdue, LateServer
<1>9. QED
  BY <1>1, <1>3, <1>7, <1>8 DEF Next, vars

----------------------------------------------------------------------------
(* What a simulation leaves *)

\* Every step keeps the invariant.
LEMMA NextInv == Inv /\ [Next]_vars => Inv'
<1>1. SUFFICES ASSUME Inv, [Next]_vars PROVE Inv'
  OBVIOUS
<1>2. SlotsConserved'
  BY <1>1, NextConserved
<1> DEFINE Rest == Remembers /\ Owned /\ Housed
<1>3. TypeOK /\ Rest
  BY <1>1 DEF Inv
<1> USE DEF TypeOK, Remembers, Owned, Housed, Serving, GoTo, Place
<1>4. ASSUME NEW s \in Simulation, Acquire(s) PROVE Rest' /\ TypeOK'
  BY <1>3, <1>4, SlotsAssumption DEF Acquire
<1>5. ASSUME NEW s \in Simulation, Busy(s) PROVE Rest' /\ TypeOK'
  BY <1>3, <1>5 DEF Busy
<1>6. ASSUME NEW s \in Simulation, InitDb(s) PROVE Rest' /\ TypeOK'
  BY <1>3, <1>6 DEF InitDb
<1>7. ASSUME NEW s \in Simulation, Start(s) PROVE Rest' /\ TypeOK'
  BY <1>3, <1>7 DEF Start
<1>8. ASSUME NEW s \in Simulation, StartFails(s) PROVE Rest' /\ TypeOK'
  BY <1>3, <1>8 DEF StartFails
<1>9. ASSUME NEW s \in Simulation, Poll(s) PROVE Rest' /\ TypeOK'
  BY <1>3, <1>9 DEF Poll
<1>10. ASSUME NEW s \in Simulation, Polled(s) PROVE Rest' /\ TypeOK'
  BY <1>3, <1>10 DEF Polled
<1>11. ASSUME NEW s \in Simulation, Prepare(s) PROVE Rest' /\ TypeOK'
  BY <1>3, <1>11 DEF Prepare
<1>12. ASSUME NEW s \in Simulation, Command(s) PROVE Rest' /\ TypeOK'
  BY <1>3, <1>12 DEF Command
<1>13. ASSUME NEW s \in Simulation, Returned(s) PROVE Rest' /\ TypeOK'
  BY <1>3, <1>13 DEF Returned
<1>14. ASSUME NEW s \in Simulation, Complete(s) PROVE Rest' /\ TypeOK'
  BY <1>3, <1>14 DEF Complete
<1>15. ASSUME NEW s \in Simulation, Raise(s) PROVE Rest' /\ TypeOK'
  BY <1>3, <1>15 DEF Raise
<1>16. ASSUME NEW s \in Simulation, Stop(s) PROVE Rest' /\ TypeOK'
  BY <1>3, <1>16 DEF Stop
<1>17. ASSUME NEW s \in Simulation, StopTimeout(s) PROVE Rest' /\ TypeOK'
  BY <1>3, <1>17 DEF StopTimeout
<1>18. ASSUME NEW s \in Simulation, Remove(s) PROVE Rest' /\ TypeOK'
  <2>1. /\ directory' \subseteq directory /\ unremoved' \subseteq Simulation
        /\ s \notin directory' \ unremoved'
        /\ directory' \ unremoved' \subseteq directory \ unremoved
    BY <1>3, <1>18 DEF Remove
  <2>2. Rest'
    BY <1>3, <1>18, <2>1 DEF Remove
  <2>3. TypeOK'
    BY <1>3, <1>18, <2>1 DEF Remove
  <2>4. QED
    BY <2>2, <2>3
<1>19. ASSUME NEW s \in Simulation, Overdue(s) PROVE Rest' /\ TypeOK'
  BY <1>3, <1>19 DEF Overdue
<1>20. ASSUME NEW s \in Simulation, LateServer(s) PROVE Rest' /\ TypeOK'
  BY <1>3, <1>20 DEF LateServer
<1>21. ASSUME NEW s \in Simulation, Open(s) PROVE Rest' /\ TypeOK'
  BY <1>3, <1>21 DEF Open
<1>22. ASSUME NEW s \in Simulation, Release(s) PROVE Rest' /\ TypeOK'
  <2>1. free' \in 0..Slots
    <3>1. IsFiniteSet(Holding') /\ Cardinality(Holding') \in Nat
      <4>1. Holding' \in SUBSET Simulation
        BY DEF Holding
      <4>2. IsFiniteSet(Holding')
        BY <4>1, SlotsAssumption, FS_Subset
      <4>3. QED
        BY <4>2, FS_CardinalityType
    <3>2. free' \in Nat
      BY <1>3, <1>22, SlotsAssumption DEF Release
    <3>3. QED
      BY <1>2, <3>1, <3>2, SlotsAssumption DEF SlotsConserved
  <2>2. QED
    BY <1>3, <1>22, <2>1 DEF Release
<1>23. ASSUME UNCHANGED vars PROVE Rest' /\ TypeOK'
  <2>1. UNCHANGED <<backend, free, pc, overdue, known, server, directory, unclean,
                  unremoved>>
    BY <1>23 DEF vars
  <2>2. Rest'
    BY <1>3, <2>1
  <2>3. TypeOK'
    BY <1>3, <2>1
  <2>4. QED
    BY <2>2, <2>3
<1> HIDE DEF TypeOK, Remembers, Owned, Housed, Serving, GoTo, Place, Rest
<1>24. ASSUME NEW s \in Simulation, Step(s) PROVE Rest' /\ TypeOK'
  BY <1>24, <1>4, <1>5, <1>6, <1>7, <1>8, <1>9, <1>10, <1>11, <1>12, <1>13, <1>14, <1>15,
     <1>16, <1>17, <1>18, <1>21, <1>22 DEF Step
<1>25. Rest' /\ TypeOK'
  BY <1>1, <1>23, <1>24, <1>19, <1>20 DEF Next
<1>26. QED
  BY <1>2, <1>25 DEF Inv, Rest

LEMMA SpecInv == Spec => []Inv
BY InitInv, NextInv, PTL DEF Spec

----------------------------------------------------------------------------
(* The theorems *)

\* Types, and the semaphore stays within its bounds: no slot is given back twice.
THEOREM SlotsTypeCorrect == Spec => []TypeOK
<1>1. Inv => TypeOK
  BY DEF Inv
<1>2. QED
  BY <1>1, SpecInv, PTL

\* No slot is lost, however a simulation ends (sandbox.py, acquire_sandbox).
THEOREM NoSlotIsLost == Spec => []SlotsConserved
<1>1. Inv => SlotsConserved
  BY DEF Inv
<1>2. QED
  BY <1>1, SpecInv, PTL

\* What a simulation leaves behind has one of three reasons: a command of its start or stop
\* that was cut short or did nothing, or a removal whose failure is ignored (sandbox.py,
\* __enter__ and close).
THEOREM NothingIsLeft == Spec => []NothingLeft
<1>1. Inv => NothingLeft
  BY DEF Inv, Owned, Housed, NothingLeft, Serving, TypeOK
<1>2. QED
  BY <1>1, SpecInv, PTL

\* The slots bound the servers.
THEOREM ServersAreBounded == Spec => []ServersWithinSlots
<1>1. Inv => ServersWithinSlots
  <2>1. SUFFICES ASSUME Inv PROVE ServersWithinSlots
    OBVIOUS
  <2>2. Running \ unclean \in SUBSET Holding
    BY <2>1 DEF Inv, Owned, Running, Holding, Serving
  <2>3. Cardinality(Running \ unclean) <= Cardinality(Holding)
    BY <2>2, HoldingIsFinite, FS_Subset
  <2>4. IsFiniteSet(Running \ unclean) /\ Cardinality(Running \ unclean) \in Nat
    BY <2>2, HoldingIsFinite, FS_Subset, FS_CardinalityType
  <2>5. free \in Nat /\ free + Cardinality(Holding) = Slots
    BY <2>1, SlotsAssumption DEF Inv, TypeOK, SlotsConserved
  <2>6. QED
    BY <2>3, <2>4, <2>5, HoldingIsFinite, SlotsAssumption DEF ServersWithinSlots
<1>2. QED
  BY <1>1, SpecInv, PTL
=============================================================================
