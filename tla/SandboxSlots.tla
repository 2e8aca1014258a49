---------------------------- MODULE SandboxSlots ----------------------------
(***************************************************************************)
(* The simulations of one server process: each takes one of a few slots,   *)
(* starts a disposable PostgreSQL (a native server in a directory of its   *)
(* own, or a container), works with it until it is done, something raises  *)
(* or its total time is over, stops it, and gives the slot back.           *)
(*                                                                         *)
(* Every command has a time limit.  A command that is cut short is killed, *)
(* but what it has asked for may still happen.                             *)
(***************************************************************************)
EXTENDS Naturals, FiniteSets

CONSTANTS
    Simulation, \* the calls of acquire_sandbox
    Slots       \* how many of them may run at a time

ASSUME SlotsAssumption == IsFiniteSet(Simulation) /\ Slots \in Nat \ {0}

VARIABLES
    backend,    \* how this process can run PostgreSQL
    free,       \* the slots left in the semaphore
    pc,         \* where a simulation is
    overdue,    \* the simulations whose total time is over
    known,      \* the ones that remember a container or a data directory
    server,     \* what became of the PostgreSQL a simulation asked for
    directory,  \* the simulations whose temporary directory exists
    unclean,    \* history: the ones whose server was started or stopped by a
                \* command that was cut short or did not do it
    unremoved   \* history: the ones whose directory could not be removed, which the
                \* code does not notice

vars == <<backend, free, pc, overdue, known, server, directory, unclean,
          unremoved>>

Backend == {"native", "docker", "disabled", "invalid"}

Place == {"idle", "open", "initdb", "start", "wait", "poll", "prepare", "work", "command",
          "close", "remove", "release", "done"}

TypeOK ==
    /\ backend \in Backend
    /\ free \in 0..Slots
    /\ pc \in [Simulation -> Place]
    /\ overdue \subseteq Simulation /\ known \subseteq Simulation
    /\ server \in [Simulation -> {"none", "late", "running"}]
    /\ directory \subseteq Simulation /\ unclean \subseteq Simulation
    /\ unremoved \subseteq Simulation

Init ==
    /\ backend \in Backend
    /\ free = Slots
    /\ pc = [s \in Simulation |-> "idle"]
    /\ overdue = {} /\ known = {}
    /\ server = [s \in Simulation |-> "none"]
    /\ directory = {} /\ unclean = {} /\ unremoved = {}

GoTo(s, place) == pc' = [pc EXCEPT ![s] = place]

----------------------------------------------------------------------------
(* The slot *)

\* Mutant: every caller has slots of its own.
AcquireAlways(s) ==
    /\ pc[s] = "idle"
    /\ free' = IF free > 0 THEN free - 1 ELSE 0
    /\ GoTo(s, "open")
    /\ UNCHANGED <<backend, overdue, known, server, directory, unclean, unremoved>>

Acquire(s) ==
    /\ pc[s] = "idle" /\ free > 0
    /\ free' = free - 1
    /\ GoTo(s, "open")
    /\ UNCHANGED <<backend, overdue, known, server, directory, unclean, unremoved>>

\* Mutant: the slot that was not taken is given back.
BusyReleases(s) ==
    /\ pc[s] = "idle" /\ free = 0
    /\ free' = free + 1
    /\ GoTo(s, "done")
    /\ UNCHANGED <<backend, overdue, known, server, directory, unclean, unremoved>>

Busy(s) ==
    /\ pc[s] = "idle" /\ free = 0
    /\ GoTo(s, "done")
    /\ UNCHANGED <<backend, free, overdue, known, server, directory, unclean, unremoved>>

Release(s) ==
    /\ pc[s] = "release"
    /\ free' = free + 1
    /\ GoTo(s, "done")
    /\ UNCHANGED <<backend, overdue, known, server, directory, unclean, unremoved>>

----------------------------------------------------------------------------
(* Starting PostgreSQL *)

\* An invalid configuration raises before there is a sandbox to close.
Open(s) ==
    /\ pc[s] = "open"
    /\ \/ /\ backend \in {"invalid", "disabled"}
          /\ GoTo(s, IF backend = "invalid" THEN "release" ELSE "close")
          /\ UNCHANGED <<known, directory>>
       \/ /\ backend = "native"
          /\ GoTo(s, "initdb")
          /\ known' = known \union {s} /\ directory' = directory \union {s}
       \/ /\ backend = "docker"
          /\ GoTo(s, "start")
          /\ known' = known \union {s} /\ UNCHANGED directory
    /\ UNCHANGED <<backend, free, overdue, server, unclean, unremoved>>

InitDb(s) ==
    /\ pc[s] = "initdb" /\ s \notin overdue
    /\ GoTo(s, "start")
    /\ UNCHANGED <<backend, free, overdue, known, server, directory, unclean, unremoved>>

Start(s) ==
    /\ pc[s] = "start" /\ s \notin overdue
    /\ server' = [server EXCEPT ![s] = "running"]
    /\ GoTo(s, IF backend = "docker" THEN "wait" ELSE "prepare")
    /\ UNCHANGED <<backend, free, overdue, known, directory, unclean, unremoved>>

\* pg_ctl or docker fails or is cut short: there may be no server, or one it did not
\* report, or one that is still to come.
StartFails(s) ==
    /\ pc[s] = "start" /\ s \notin overdue
    /\ \E outcome \in {"none", "running", "late"} :
         /\ server' = [server EXCEPT ![s] = outcome]
         /\ unclean' = IF outcome = "late" THEN unclean \union {s} ELSE unclean
    /\ GoTo(s, "close")
    /\ UNCHANGED <<backend, free, overdue, known, directory, unremoved>>

\* The container exists and PostgreSQL in it is asked again and again.
Poll(s) ==
    /\ pc[s] = "wait" /\ s \notin overdue
    /\ GoTo(s, "poll")
    /\ UNCHANGED <<backend, free, overdue, known, server, directory, unclean, unremoved>>

Polled(s) ==
    /\ pc[s] = "poll"
    /\ \E next \in {"wait", "prepare"} : GoTo(s, next)
    /\ UNCHANGED <<backend, free, overdue, known, server, directory, unclean, unremoved>>

\* The role and the empty database.
Prepare(s) ==
    /\ pc[s] = "prepare" /\ s \notin overdue
    /\ GoTo(s, "work")
    /\ UNCHANGED <<backend, free, overdue, known, server, directory, unclean, unremoved>>

----------------------------------------------------------------------------
(* The simulation *)

\* Mutant: the commands of the simulation do not mind the total time.
CommandUnlimited(s) ==
    /\ pc[s] = "work"
    /\ GoTo(s, "command")
    /\ UNCHANGED <<backend, free, overdue, known, server, directory, unclean, unremoved>>

Command(s) ==
    /\ pc[s] = "work" /\ s \notin overdue
    /\ GoTo(s, "command")
    /\ UNCHANGED <<backend, free, overdue, known, server, directory, unclean, unremoved>>

Returned(s) ==
    /\ pc[s] = "command"
    /\ GoTo(s, "work")
    /\ UNCHANGED <<backend, free, overdue, known, server, directory, unclean, unremoved>>

Complete(s) ==
    /\ pc[s] = "work"
    /\ GoTo(s, "close")
    /\ UNCHANGED <<backend, free, overdue, known, server, directory, unclean, unremoved>>

\* Mutant: a sandbox that could not be entered is not closed.
RaiseWithoutClose(s) ==
    /\ \/ pc[s] \in {"initdb", "wait", "poll", "prepare", "command"}
       \/ pc[s] \in {"start", "work"} /\ s \in overdue
    /\ GoTo(s, IF pc[s] \in {"command", "work"} THEN "close" ELSE "release")
    /\ UNCHANGED <<backend, free, overdue, known, server, directory, unclean, unremoved>>

\* A command fails or is cut short, PostgreSQL is not ready in time, or a command is not
\* started any more because the total time is over: the sandbox is closed, also when it
\* could not be entered.
Raise(s) ==
    /\ \/ pc[s] \in {"initdb", "wait", "poll", "prepare", "command"}
       \/ pc[s] \in {"start", "work"} /\ s \in overdue
    /\ GoTo(s, "close")
    /\ UNCHANGED <<backend, free, overdue, known, server, directory, unclean, unremoved>>

----------------------------------------------------------------------------
(* Stopping PostgreSQL *)

\* Only a server that runs can be stopped; that it goes on is not noticed.
Stop(s) ==
    /\ pc[s] = "close"
    /\ IF s \in known /\ server[s] = "running"
       THEN \/ server' = [server EXCEPT ![s] = "none"] /\ UNCHANGED unclean
            \/ unclean' = unclean \union {s} /\ UNCHANGED server
       ELSE UNCHANGED <<server, unclean>>
    /\ GoTo(s, "remove")
    /\ UNCHANGED <<backend, free, overdue, known, directory, unremoved>>

\* Mutant: what cannot be stopped keeps its slot.
StopTimeoutKeepsSlot(s) ==
    /\ pc[s] = "close" /\ s \in known
    /\ unclean' = unclean \union {s}
    /\ GoTo(s, "done")
    /\ UNCHANGED <<backend, free, overdue, known, server, directory, unremoved>>

\* The command that stops it is cut short: the exception leaves the directory in place.
StopTimeout(s) ==
    /\ pc[s] = "close" /\ s \in known
    /\ \/ UNCHANGED server
       \/ server[s] = "running" /\ server' = [server EXCEPT ![s] = "none"]
    /\ unclean' = unclean \union {s}
    /\ GoTo(s, "release")
    /\ UNCHANGED <<backend, free, overdue, known, directory, unremoved>>

\* An error while the directory is removed is ignored (a child of a killed initdb, or a
\* server that was not stopped, may still write into it): the sandbox forgets it.
Remove(s) ==
    /\ pc[s] = "remove"
    /\ \/ directory' = directory \ {s} /\ UNCHANGED unremoved
       \/ s \in directory /\ unremoved' = unremoved \union {s} /\ UNCHANGED directory
    /\ known' = known \ {s}
    /\ GoTo(s, "release")
    /\ UNCHANGED <<backend, free, overdue, server, unclean>>

----------------------------------------------------------------------------
(* The surroundings *)

\* The total time of a simulation runs from the moment it has its slot.
Overdue(s) ==
    /\ pc[s] \notin {"idle", "done"} /\ s \notin overdue
    /\ overdue' = overdue \union {s}
    /\ UNCHANGED <<backend, free, pc, known, server, directory, unclean, unremoved>>

LateServer(s) ==
    /\ server[s] = "late"
    /\ server' = [server EXCEPT ![s] = "running"]
    /\ UNCHANGED <<backend, free, pc, overdue, known, directory, unclean, unremoved>>

Step(s) ==
    \/ Acquire(s) \/ Busy(s) \/ Open(s) \/ InitDb(s) \/ Start(s) \/ StartFails(s)
    \/ Poll(s) \/ Polled(s) \/ Prepare(s) \/ Command(s) \/ Returned(s) \/ Complete(s)
    \/ Raise(s) \/ Stop(s) \/ StopTimeout(s) \/ Remove(s) \/ Release(s)

Next == \E s \in Simulation : Step(s) \/ Overdue(s) \/ LateServer(s)

\* Threads go on, and so does the clock.
Spec ==
    /\ Init /\ [][Next]_vars
    /\ \A s \in Simulation : WF_vars(Step(s)) /\ WF_vars(Overdue(s))

----------------------------------------------------------------------------
(* Properties *)

Holding == {s \in Simulation : pc[s] \notin {"idle", "done"}}

Running == {s \in Simulation : server[s] = "running"}

\* No slot is lost and none is given back twice, whatever raises in the simulation,
\* while it starts or while it is closed.
SlotsConserved == free + Cardinality(Holding) = Slots

\* A simulation that is over has left no server, unless a command that starts or stops
\* it was cut short or did nothing; and it has left no directory, unless one of those
\* commands was, or the removal failed unnoticed.  Every other way a simulation ends (it
\* cannot be entered, a command raises, its time is over) cleans up after it.
NothingLeft ==
    \A s \in Simulation :
        pc[s] = "done" /\ s \notin unclean =>
            server[s] = "none" /\ (s \in directory => s \in unremoved)

\* No more servers than slots run at a time ("Only one sandbox runs per backend
\* process"), but for those that could not be stopped or came too late.
ServersWithinSlots == Cardinality(Running \ unclean) <= Slots

\* Every slot comes back: the total time ends the simulation, and the time limits of
\* the commands that stop the server end its closing.
SlotComesBack == \A s \in Simulation : s \in Holding ~> pc[s] = "done"
=============================================================================
