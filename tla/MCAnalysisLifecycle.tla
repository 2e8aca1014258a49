---------------------- MODULE MCAnalysisLifecycle ----------------------
(***************************************************************************)
(* Instances of AnalysisLifecycle for TLC: two requests, one per backend   *)
(* process; or one request in one of two processes.                        *)
(***************************************************************************)
EXTENDS AnalysisLifecycle, TLC

CONSTANTS t1, t2

\* Each thread runs in a process of its own, which bears the thread's name.
OwnHost == [t \in Thread |-> t]

\* Threads, and the processes that bear their names, are interchangeable.
Symmetry == Permutations({t1, t2})
=============================================================================
