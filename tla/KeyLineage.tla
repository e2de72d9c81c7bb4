----------------------------- MODULE KeyLineage -----------------------------
(***************************************************************************)
(* What the endpoint identity promises: one endpoint, whose key generation *)
(* only ever grows by one, and callers who work with an identity that was  *)
(* the current one when they were given it.                                *)
(***************************************************************************)
EXTENDS Naturals

CONSTANTS Identity, None

VARIABLES
    current,  \* the identity of this endpoint
    inUse     \* the identities that callers still hold

lineage == <<current, inUse>>

Init == current = None /\ inUse = {}

Create ==
    /\ current = None
    /\ current' \in {i \in Identity : i.generation = 1}
    /\ UNCHANGED inUse

Rotate ==
    /\ current # None
    /\ current' \in {i \in Identity : /\ i.endpoint = current.endpoint
                                      /\ i.generation = current.generation + 1}
    /\ UNCHANGED inUse

Learn ==
    /\ current # None
    /\ inUse' = inUse \cup {current}
    /\ UNCHANGED current

Forget ==
    /\ inUse' \subseteq inUse
    /\ UNCHANGED current

Next == Create \/ Rotate \/ Learn \/ Forget

Spec == Init /\ [][Next]_lineage
=============================================================================
