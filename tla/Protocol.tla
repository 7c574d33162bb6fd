------------------------------ MODULE Protocol ------------------------------
(***************************************************************************)
(* The three programs together, for one agent: dolores_adjudication calls  *)
(* dolores_fund (lock_fund, unlock_fund, execute_slash) and                *)
(* dolores_registry (record_slash) by CPI.  A transaction is atomic, so a  *)
(* CPI is a conjunct of the instruction that makes it: if the callee       *)
(* aborts, the caller's writes are undone too.                             *)
(*                                                                         *)
(* The accounts of fund, registry and their programs are AccountInfos that *)
(* adjudication does not compare with anything: a transaction may name the *)
(* agent's own, or others, and then nothing happens to those modelled here.*)
(***************************************************************************)
EXTENDS Fund

CONSTANTS                \* of Registry
    Callers, Outputs, Scores, StakeWeights, DeclaredAmounts, MinReputations,
    Cids, NoCid,
    MaxReputation, SlashMultiplier, U8Max, MaxAttestations

CONSTANTS                \* of Adjudication
    Tasks, Agent, Wallets, ProofLengths

CONSTANTS
    DefaultSlash,        \* DEFAULT_SLASH_LAMPORTS
    AnyCaller            \* are there callers but the repository's own clients:
                         \* who name other accounts, or call what is meant for
                         \* CPIs?  The programs let them

CONSTANT                 \* bound of the model
    MaxDirect            \* slashes of one program not made by a verdict

ASSUME ProtocolAssumption ==
    /\ DefaultSlash \in SlashAmounts
    /\ AnyCaller \in BOOLEAN
    /\ MaxDirect \in Nat
    /\ Agent \in Wallets
    /\ Wallets \ {Agent} \subseteq Challengers

ASSUME SlashCountAssumption == U8Max \in Nat

VARIABLES
    registry, verdicts, credits,              \* Registry
    tasks, challenges,                        \* Adjudication
    direct,              \* history: slashes of fund and registry made directly
    reached,             \* history: task -> the programs its verdict slashed
    held                 \* history: open challenges that locked the fund, which
                         \* nothing has unlocked since

R == INSTANCE Registry
A == INSTANCE Adjudication

fundVars == <<fund, positions, vault, slashes, overpaid>>
registryVars == <<registry, verdicts, credits>>
adjudicationVars == <<tasks, challenges>>

historyVars == <<direct, reached, held>>

\* The clock is the one the fund reads.
protocolVars == <<fundVars, registryVars, adjudicationVars, historyVars, now>>

Programs == {"fund", "registry"}

ProtocolTypeOK ==
    /\ TypeOK /\ R!TypeOK /\ A!TypeOK
    /\ direct \in [fund : 0..MaxDirect, registry : 0..MaxDirect]
    /\ reached \in [Tasks -> SUBSET Programs]
    /\ held \in SUBSET Tasks

ProtocolInit ==
    /\ Init /\ R!Init /\ A!Init
    /\ direct = [fund |-> 0, registry |-> 0]
    /\ reached = [t \in Tasks |-> {}]
    /\ held = {}

-----------------------------------------------------------------------------
(* Instructions that stay inside one program                                *)

RegisterAgent ==
    /\ R!RegisterAgent
    /\ UNCHANGED <<fundVars, adjudicationVars, now, historyVars>>

\* Attestations, verdicts and the CID: the instructions of the registry that
\* neither slash nor declare stake.
AgentStep ==
    /\ R!AgentNext
    /\ UNCHANGED <<fundVars, adjudicationVars, now, historyVars>>

OpenFund ==
    /\ InitializeFund
    /\ UNCHANGED <<registryVars, adjudicationVars, historyVars>>

StakerStep ==
    /\ StakerNext
    /\ UNCHANGED <<registryVars, adjudicationVars, historyVars>>

RegisterTask ==
    /\ \E t \in Tasks, d \in A!Time : A!RegisterTask(t, d)
    /\ UNCHANGED <<fundVars, registryVars, historyVars>>

CompleteTask ==
    /\ \E t \in Tasks : A!CompleteTask(t)
    /\ UNCHANGED <<fundVars, registryVars, historyVars>>

ClockStep ==
    /\ Tick
    /\ UNCHANGED <<registryVars, adjudicationVars, historyVars>>

\* lock_fund, unlock_fund, execute_slash and record_slash accept any signer: the
\* check that the caller is the adjudication authority is still to be written.
DirectLock ==
    /\ AnyCaller
    /\ LockFund
    /\ UNCHANGED <<registryVars, adjudicationVars, historyVars>>

DirectUnlock ==
    /\ AnyCaller
    /\ UnlockFund
    /\ held' = {}
    /\ UNCHANGED <<registryVars, adjudicationVars, direct, reached>>

DirectExecuteSlash ==
    /\ AnyCaller
    /\ direct.fund < MaxDirect
    /\ \E amount \in SlashAmounts, c \in Challengers : ExecuteSlash(amount, c)
    /\ direct' = [direct EXCEPT !.fund = @ + 1]
    /\ held' = {}
    /\ UNCHANGED <<registryVars, adjudicationVars, reached>>

DirectRecordSlash ==
    /\ AnyCaller
    /\ direct.registry < MaxDirect
    /\ R!RecordSlash
    /\ direct' = [direct EXCEPT !.registry = @ + 1]
    /\ UNCHANGED <<fundVars, adjudicationVars, now, reached, held>>

-----------------------------------------------------------------------------
(* Instructions that call other programs                                    *)

\* Of which programs a transaction names the accounts of this agent.  Nothing
\* compares them with the task's agent, or the program ids with the true ones;
\* the repository's own clients name both programs.
Namings == IF AnyCaller THEN SUBSET Programs ELSE {Programs}

FileChallengeUnlocked(t) ==              \* mutation: the CPI is forgotten
    /\ \E w \in Wallets, f \in A!FailureType, p \in ProofLengths :
         A!FileChallenge(t, w, f, p)
    /\ held' = held \cup {t}
    /\ UNCHANGED <<fundVars, registryVars, direct, reached>>

\* lock_fund reaches the agent's fund if the transaction names it.
FileChallenge(t) ==
    /\ \E w \in Wallets, f \in A!FailureType, p \in ProofLengths :
         A!FileChallenge(t, w, f, p)
    /\ \E own \in Namings :
         IF "fund" \in own
         THEN LockFund /\ held' = held \cup {t}
         ELSE UNCHANGED <<fundVars, held>>
    /\ UNCHANGED <<registryVars, direct, reached>>

\* What a verdict does to the fund it names, whose lock it takes away, and to the
\* agent's own when it names another.  The account passed as `challenger` is not
\* compared with the challenge's.
SlashFund(t) ==
    /\ \E c \in Challengers : ExecuteSlash(DefaultSlash, c)
    /\ held' = {}

SpareFund(t) ==
    /\ UNCHANGED fundVars
    /\ held' = held \ {t}

SlashAgentFundOnly(t) ==                 \* mutation: record_slash is forgotten
    /\ A!SlashAgent(t)
    /\ SlashFund(t)
    /\ reached' = [reached EXCEPT ![t] = Programs]
    /\ UNCHANGED <<registryVars, direct>>

SlashAgent(t) ==
    /\ A!SlashAgent(t)
    /\ \E own \in Namings :
         /\ IF "fund" \in own THEN SlashFund(t) ELSE SpareFund(t)
         /\ IF "registry" \in own THEN R!RecordSlash ELSE UNCHANGED registryVars
         /\ reached' = [reached EXCEPT ![t] = own]
    /\ UNCHANGED direct

DismissChallenge(t) ==
    /\ A!DismissChallenge(t)
    /\ \E own \in Namings :
         IF "fund" \in own
         THEN UnlockFund /\ held' = {}
         ELSE SpareFund(t)
    /\ UNCHANGED <<registryVars, direct, reached>>

-----------------------------------------------------------------------------
(* Specification                                                            *)

ProtocolNext ==
    \/ RegisterAgent
    \/ AgentStep
    \/ OpenFund
    \/ StakerStep
    \/ RegisterTask
    \/ CompleteTask
    \/ \E t \in Tasks : FileChallenge(t)
    \/ \E t \in Tasks : SlashAgent(t)
    \/ \E t \in Tasks : DismissChallenge(t)
    \/ DirectLock
    \/ DirectUnlock
    \/ DirectExecuteSlash
    \/ DirectRecordSlash
    \/ ClockStep

ProtocolSpec == ProtocolInit /\ [][ProtocolNext]_protocolVars

-----------------------------------------------------------------------------
(* Properties that hold                                                     *)

Filed(t) == challenges[t].status = "Filed"

\* A challenge that locked the fund when it was filed, and after which nothing has
\* unlocked or slashed it, is open and finds the fund locked: no order of stakes,
\* withdrawals, claims, other filings and slashes elsewhere lets the stake go.
HeldIsLocked == \A t \in held : Filed(t) /\ fund.challenge_active

SlashedBy(program) == {t \in Tasks : program \in reached[t]}

\* Fund and registry hold one slash for every upheld challenge whose verdict named
\* them, and one for every time they were asked directly: a verdict that names both
\* counts in both or, as either may fail and undo it, in none, and no verdict counts
\* twice.
SlashesAgree ==
    /\ \A t \in Tasks : reached[t] # {} => challenges[t].status = "Resolved"
    /\ slashes = Cardinality(SlashedBy("fund")) + direct.fund
    /\ registry.slash_count =
         R!SatAddU8(0, Cardinality(SlashedBy("registry")) + direct.registry)

E == INSTANCE Escrow
       WITH work <- A!WorkDone, dispute <- A!DisputeState, claim <- A!ClaimMade,
            stake <- fund.total_locked_stake, Penalty <- DefaultSlash

\* The stake behind the agent answers for its disputes: whatever a transaction
\* names and whoever calls, stake that a dispute holds does not leave through a
\* withdrawal, and nothing but a slash or an upheld dispute takes it.
HoldsInEscrow == E!EscrowSpec

-----------------------------------------------------------------------------
(* Properties the documents state, and the code breaks                      *)

\* "Files challenge with proof data; locks the agent's fund via CPI": the fund
\* is locked as long as some challenge against the agent is open.
LockedWhileChallenged == (\E t \in Tasks : Filed(t)) => fund.challenge_active

\* "A valid challenge slashes the agent's stake and drops its reputation": the
\* transaction that carries the verdict may name another fund and registry, which
\* ends the challenge and leaves the agent's alone.
VerdictCosts ==
    \A t \in Tasks :
      challenges[t].status = "Resolved" => reached[t] = Programs

=============================================================================
