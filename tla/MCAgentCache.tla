---------------------------- MODULE MCAgentCache ----------------------------
(***************************************************************************)
(* Instances of AgentCache for TLC.                                         *)
(***************************************************************************)
EXTENDS AgentCache

=============================================================================
