--------------------------- MODULE MCEvidenceChain ---------------------------
(* Instances of EvidenceChain for TLC. *)
EXTENDS EvidenceChain, TLC

CONSTANTS s1, s2, c1, c2, profile1, f1, r1

\* The two signers play the same part.
SignerSymmetry == Permutations({s1, s2})
=============================================================================
