----------------------------- MODULE MCCapacity -----------------------------
(* Two processes with a worker thread each, for an account whose limit is one. *)
EXTENDS Capacity

CONSTANTS p1, p2, t1, t2

OneEach == [t \in Thread |-> IF t = t1 THEN p1 ELSE p2]
=============================================================================
