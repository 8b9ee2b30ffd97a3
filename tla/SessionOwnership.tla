---------------------------- MODULE SessionOwnership ---------------------------
(***************************************************************************)
(* What session control promises, without saying how: a session belongs    *)
(* to at most one run at a time.  A run acquires its session when nobody   *)
(* owns it, releases it once, and never gets it back; only the end of the  *)
(* process releases several sessions at once.                              *)
(***************************************************************************)
CONSTANTS Runs, Names, SessionOf, None

VARIABLES
    owner,  \* owner[n]: the run that holds the resources of session n, or None
    spent   \* the runs that have acquired their session in this process

vars == <<owner, spent>>

Init ==
    /\ owner = [n \in Names |-> None]
    /\ spent = {}

Acquire(r) ==
    /\ r \notin spent
    /\ owner[SessionOf[r]] = None
    /\ owner' = [owner EXCEPT ![SessionOf[r]] = r]
    /\ spent' = spent \cup {r}

Release(n) ==
    /\ owner[n] # None
    /\ owner' = [owner EXCEPT ![n] = None]
    /\ UNCHANGED spent

ProcessEnds ==
    /\ owner' = [n \in Names |-> None]
    /\ spent' = {}

Next ==
    \/ \E r \in Runs : Acquire(r)
    \/ \E n \in Names : Release(n)
    \/ ProcessEnds

Spec == Init /\ [][Next]_vars

=============================================================================
