------------------------------- MODULE Lease -------------------------------
(***************************************************************************)
(* What the refresh lock promises its users: one holder at a time.  A      *)
(* lease whose holder died or gave up is orphaned until somebody breaks    *)
(* it, and only a free lease is acquired.                                  *)
(***************************************************************************)
CONSTANT Proc

VARIABLES
    holders,  \* the processes that were given the lease and still have it
    orphaned  \* whether it is taken by nobody who is still there

lease == <<holders, orphaned>>

Init == holders = {} /\ orphaned = FALSE

Acquire(p) ==
    /\ holders = {} /\ ~orphaned
    /\ holders' = {p}
    /\ UNCHANGED orphaned

GiveBack(p) ==
    /\ holders = {p}
    /\ holders' = {}
    /\ UNCHANGED orphaned

Abandon(p) ==
    /\ holders = {p}
    /\ holders' = {} /\ orphaned' = TRUE

Break ==
    /\ orphaned
    /\ orphaned' = FALSE
    /\ UNCHANGED holders

Next ==
    \/ \E p \in Proc : Acquire(p) \/ GiveBack(p) \/ Abandon(p)
    \/ Break

Spec == Init /\ [][Next]_lease
=============================================================================
