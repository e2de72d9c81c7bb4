--------------------------- MODULE MCSessionCache ---------------------------
(***************************************************************************)
(* The lock of a cache refresh and the incremental scan that it protects,  *)
(* for TLC.  The scan is that of whoever holds the lock, so the two share  *)
(* no state: each behaviour is one of the part that `focus` names.         *)
(***************************************************************************)
EXTENDS RefreshLock, SessionParse, TLC

CONSTANTS s1, s2, s3, m1, m2

VARIABLE focus

CacheSymmetry == Permutations({s1, s2, s3}) \cup Permutations({m1, m2})

CacheInit == focus \in {"lock", "scan"} /\ LockInit /\ ParseInit

Locks == focus = "lock" /\ LockNext /\ UNCHANGED <<focus, parseVars>>
Scans == focus = "scan" /\ ParseNext /\ UNCHANGED <<focus, lockVars>>
CacheNext == Locks \/ Scans

CacheSpec == CacheInit /\ [][CacheNext]_<<focus, lockVars, parseVars>>
=============================================================================
