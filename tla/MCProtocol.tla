----------------------------- MODULE MCProtocol -----------------------------
(***************************************************************************)
(* Instances of Protocol for TLC.  The default slash equals the minimum    *)
(* stake, so a fund may or may not cover it.                                *)
(***************************************************************************)
EXTENDS Protocol, TLC

CONSTANTS alice, user, t1, t2

\* Task ids differ in nothing but their names.
TaskSymmetry == Permutations(Tasks)

=============================================================================
