-------------------------- MODULE MCIdempotencyKeys --------------------------
(***************************************************************************)
(* Instance of IdempotencyKeys for TLC: the first request with a key and   *)
(* its retries.                                                            *)
(***************************************************************************)
EXTENDS IdempotencyKeys

CONSTANT Attempts

\* One request and Attempts - 1 retries, which need not wait for one another.
Tries == 1..Attempts
=============================================================================
