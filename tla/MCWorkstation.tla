----------------------------- MODULE MCWorkstation -----------------------------
(***************************************************************************)
(* Instances of Workstation for TLC.                                        *)
(***************************************************************************)
EXTENDS Workstation

MCTools == {"sol", "kamino", "raydium", "meteora", "pumpfun", "jupiter", "pyth"}

=============================================================================
