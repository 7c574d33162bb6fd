--------------------------- MODULE MCAdjudication ---------------------------
(***************************************************************************)
(* Instances of Adjudication for TLC.                                       *)
(***************************************************************************)
EXTENDS Adjudication, TLC

CONSTANTS user, t1, t2

\* Task ids differ in nothing but their names.
TaskSymmetry == Permutations(Tasks)

=============================================================================
