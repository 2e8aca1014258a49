---------------------------- MODULE ReportLease ----------------------------
(***************************************************************************)
(* What the claim columns of an analysis row promise to the requests that  *)
(* work on the analysis.  A client publishes a result only while it is the *)
(* holder; a client that leaves without publishing stays the holder in     *)
(* name until its lease is stale and another client acquires it; a deleted *)
(* analysis is never published again.  Notes are the one exception: they   *)
(* change the report of a present analysis and need no lease.              *)
(***************************************************************************)
CONSTANTS
    Client,     \* those who may acquire the lease
    Value,      \* the reports that may be stored
    Start,      \* the report of a new analysis
    NoHolder,   \* nobody holds the lease; not a client
    Gone        \* the holder has left; neither a client nor NoHolder

VARIABLES
    stored,     \* "absent", "present" or "deleted"
    content,    \* the report stored
    holder,     \* the client that may publish, NoHolder or Gone
    stale,      \* the lease may be taken over
    working     \* the clients between acquiring and publishing or leaving

leaseVars == <<stored, content, holder, stale, working>>

LeaseInit ==
    /\ stored = "absent"
    /\ content = Start
    /\ holder = NoHolder
    /\ stale = FALSE
    /\ working = {}

Open ==
    /\ stored = "absent"
    /\ stored' = "present"
    /\ UNCHANGED <<content, holder, stale, working>>

Acquire(c) ==
    /\ stored = "present"
    /\ holder = NoHolder \/ stale
    /\ c \notin working
    /\ holder' = c
    /\ stale' = FALSE
    /\ working' = working \union {c}
    /\ UNCHANGED <<stored, content>>

Publish(c) ==
    /\ stored = "present"
    /\ c \in working
    /\ holder = c
    /\ content' \in Value
    /\ holder' = NoHolder
    /\ stale' = FALSE
    /\ working' = working \ {c}
    /\ UNCHANGED stored

Leave(clients) ==
    /\ clients # {}
    /\ clients \subseteq working
    /\ holder' = IF holder \in clients THEN Gone ELSE holder
    /\ working' = working \ clients
    /\ UNCHANGED <<stored, content, stale>>

Note ==
    /\ stored = "present"
    /\ content' \in Value
    /\ UNCHANGED <<stored, holder, stale, working>>

Stale ==
    /\ holder # NoHolder
    /\ stale' = TRUE
    /\ UNCHANGED <<stored, content, holder, working>>

Close ==
    /\ stored = "present"
    /\ stored' = "deleted"
    /\ content' = Start
    /\ holder' = NoHolder
    /\ stale' = FALSE
    /\ UNCHANGED working

LeaseNext ==
    \/ Open \/ Note \/ Stale \/ Close
    \/ \E c \in Client : Acquire(c) \/ Publish(c)
    \/ \E clients \in SUBSET Client : Leave(clients)

LeaseSpec == LeaseInit /\ [][LeaseNext]_leaseVars
=============================================================================
