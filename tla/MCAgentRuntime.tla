--------------------------- MODULE MCAgentRuntime ---------------------------
(***************************************************************************)
(* Instances of AgentRuntime for TLC.                                      *)
(***************************************************************************)
EXTENDS AgentRuntime, TLC

CONSTANTS p1, p2, t1, t2

\* Ticks, and tasks, differ in nothing but their names.
RuntimeSymmetry == Permutations(Ticks) \cup Permutations(Tasks)

=============================================================================
