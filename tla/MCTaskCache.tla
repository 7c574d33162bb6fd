----------------------------- MODULE MCTaskCache -----------------------------
(***************************************************************************)
(* Instances of TaskCache for TLC.                                          *)
(***************************************************************************)
EXTENDS TaskCache

CONSTANTS t1, t2

=============================================================================
