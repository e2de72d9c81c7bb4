------------------------------ MODULE MCOutbox ------------------------------
(* Instances of Outbox for TLC. *)
EXTENDS Outbox, TLC

CONSTANTS p1, p2

ProcSymmetry == Permutations({p1, p2})
=============================================================================
