------------------------------ MODULE Workstation ------------------------------
(***************************************************************************)
(* The machine of an operator: the commands of the CLI and the scripts of  *)
(* the adapters run beside each other, on the same files of keypairs and   *)
(* for agents of the same registry.                                        *)
(***************************************************************************)
EXTENDS Cli

CONSTANTS
    Tools, SolAmounts, TokenAmounts, SlippageBps, MaxRuns, MaxTrades, MaxTxs,
    MaxStarted           \* bound: commands and scripts together

\* What is staked, bought for or sold is positive; a slippage is a share.
ASSUME WorkstationAssumption ==
    /\ Amounts \subseteq Nat \ {0} /\ SlashAmount \in Nat
    /\ SolAmounts \subseteq Nat /\ TokenAmounts \subseteq Nat
    /\ SlippageBps \in 0..10000
    /\ SolTransfer # None
    /\ MaxAgents \in Nat /\ MaxTasks \in Nat /\ MaxCommands \in Nat
    /\ MaxRuns \in Nat /\ MaxTxs \in Nat \ {0}

VARIABLES
    runs, started, curve, trades, positions, landed, fills,
    signedReceipts, registered, uploaded, attested, completed

S == INSTANCE Scripts WITH receipts <- signedReceipts

scriptVars == <<runs, started, curve, trades, positions, landed, fills,
                signedReceipts, registered, uploaded, attested, completed>>

workstationVars == <<vars, scriptVars>>

WorkstationTypeOK == TypeOK /\ S!TypeOK

WorkstationInit == Init /\ S!Init

CliStep ==
    /\ Next /\ given' + started <= MaxStarted
    /\ UNCHANGED scriptVars

ScriptStep ==
    /\ S!Next /\ given + started' <= MaxStarted
    /\ UNCHANGED <<manifests, funds, staked, deposited, locked, tasks,
                   transferred, receipts, terminalVars>>

WorkstationNext == CliStep \/ ScriptStep

WorkstationSpec == WorkstationInit /\ [][WorkstationNext]_workstationVars

-----------------------------------------------------------------------------
(* Properties of the scripts, under the names of the run                    *)

\* See Scripts: the records of a transfer are made in order.
RecordsInOrder == S!RecordsInOrder

\* See Scripts: what the summary of a script follows.
FullLoopIsTrue == S!FullLoopIsTrue

\* See Scripts: no trade is worse than its quote less the slippage.
SlippageIsBounded == S!SlippageIsBounded

\* See Scripts: buying and selling on the curve never gains.
RoundTripCosts == S!RoundTripCosts

=============================================================================
