------------------------------- MODULE MCFund -------------------------------
(***************************************************************************)
(* Instances of Fund for TLC.  The minimum stake is ten units, not ten      *)
(* million lamports, so that rounding to whole units shows.                 *)
(***************************************************************************)
EXTENDS Fund

CONSTANTS alice

MCStakers == {Operator, alice}

\* Stakes come and go in minimum stakes.
MCStakeAmounts == {MinStakeLamports}

\* A slash that divides neither one stake nor two.
MCSlashAmounts == {(2 * MinStakeLamports) \div 3 + 1}

\* A deposit that two equal stakers cannot share evenly.
MCRewardAmounts == {MinStakeLamports \div 2}

=============================================================================
