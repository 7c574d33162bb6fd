----------------------------- MODULE MCRegistry -----------------------------
(***************************************************************************)
(* Instances of Registry for TLC.  The ceiling of 150 points is reached by *)
(* the second full attestation, and U8Max = 4 by the fourth slash.         *)
(***************************************************************************)
EXTENDS Registry, TLC

CONSTANTS dex, lender, o1, o2

\* Callers, and outputs, differ in nothing but their names.
RegistrySymmetry == Permutations(Callers) \cup Permutations(Outputs)

=============================================================================
