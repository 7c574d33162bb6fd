------------------------------ MODULE Registry ------------------------------
(***************************************************************************)
(* The dolores_registry program: the RegistryAccount of one agent and the  *)
(* VerifyResult accounts that callers of verify_agent keep.                *)
(*                                                                         *)
(* An attester submits a score for the hash of an output.  The transaction *)
(* must carry an Ed25519 instruction with the agent's key and that hash at *)
(* fixed offsets.  It is the attester who writes it, and its header, which *)
(* says what has been verified, is not looked at; so it keeps no output    *)
(* from being attested here.  The capability hash is payload.              *)
(***************************************************************************)
EXTENDS Integers, FiniteSets

CONSTANTS
    Callers,             \* wallets that ask verify_agent for a verdict
    Outputs,             \* output hashes
    Scores,              \* scores attesters pass
    StakeWeights,        \* stake weights attesters pass
    DeclaredAmounts,     \* lamports the operator may declare
    MinReputations,      \* thresholds callers pass to verify_agent
    Cids,                \* CIDs within ARWEAVE_CID_MAX_LEN
    NoCid,               \* the empty string
    MaxReputation,       \* MAX_REPUTATION
    SlashMultiplier,     \* SLASH_REPUTATION_MULTIPLIER, in percent
    U8Max,               \* largest u8
    MaxAttestations      \* bound of the model: accepted attestations

ASSUME ScoresAssumption ==
    /\ Scores \subseteq Nat /\ StakeWeights \subseteq Nat
    /\ DeclaredAmounts \subseteq Nat /\ MinReputations \subseteq Nat

ASSUME ReputationAssumption ==
    /\ MaxReputation \in Nat
    /\ SlashMultiplier \in 0..100
    /\ MaxAttestations \in Nat

\* A u8 holds at least the number of slashes that bans an agent.
ASSUME U8Assumption == U8Max \in Nat /\ U8Max >= 3

VARIABLES
    registry,            \* the RegistryAccount
    verdicts,            \* caller -> its VerifyResult
    credits              \* history: output hash -> attestations accepted for it

vars == <<registry, verdicts, credits>>

-----------------------------------------------------------------------------
(* Types                                                                    *)

RegistryAccount ==
    [registered       : BOOLEAN,
     reputation_score : 0..MaxReputation,
     slash_count      : 0..U8Max,
     declared_stake   : Nat,
     arweave_cid      : Cids \cup {NoCid}]

Verdict == {"none", "trusted", "untrusted"}

TypeOK ==
    /\ registry \in RegistryAccount
    /\ verdicts \in [Callers -> Verdict]
    /\ credits \in [Outputs -> Nat]

-----------------------------------------------------------------------------
(* Arithmetic                                                               *)

WrapAddU8(x, y) == (x + y) % (U8Max + 1)     \* mutation: wraps around

SatAddU8(x, y) == IF x + y > U8Max THEN U8Max ELSE x + y

DeltaUnscaled(score, weight) == score * weight   \* mutation: forgets to scale

Delta(score, weight) == (score * weight) \div 10

ReputationAfter(delta) ==
    IF registry.reputation_score + delta > MaxReputation
    THEN MaxReputation
    ELSE registry.reputation_score + delta

SlashedReputation ==
    (registry.reputation_score * SlashMultiplier) \div 100

-----------------------------------------------------------------------------
(* Instructions                                                             *)

Init ==
    /\ registry = [registered |-> FALSE, reputation_score |-> 0,
                   slash_count |-> 0, declared_stake |-> 0,
                   arweave_cid |-> NoCid]
    /\ verdicts = [c \in Callers |-> "none"]
    /\ credits = [o \in Outputs |-> 0]

\* The registry PDA is created once per agent key.
RegisterAgent ==
    /\ ~registry.registered
    /\ registry' = [registry EXCEPT !.registered = TRUE]
    /\ UNCHANGED <<verdicts, credits>>

CanAttest(score, weight) ==
    /\ registry.registered
    /\ score <= 100
    /\ weight <= 10

\* Nothing remembers which hashes were attested before.
SubmitAttestation(score, weight, o) ==
    /\ CanAttest(score, weight)
    /\ credits[o] < MaxAttestations
    /\ registry' = [registry EXCEPT
                      !.reputation_score = ReputationAfter(Delta(score, weight))]
    /\ credits' = [credits EXCEPT ![o] = @ + 1]
    /\ UNCHANGED verdicts

Trusted(minReputation, minStake) ==
    /\ registry.reputation_score >= minReputation
    /\ registry.declared_stake >= minStake
    /\ registry.slash_count < 3

\* The VerifyResult PDA is created by `init`: one verdict per caller, for good.
VerifyAgent(c, minReputation, minStake) ==
    /\ registry.registered
    /\ verdicts[c] = "none"
    /\ verdicts' = [verdicts EXCEPT
                      ![c] = IF Trusted(minReputation, minStake)
                             THEN "trusted" ELSE "untrusted"]
    /\ UNCHANGED <<registry, credits>>

WriteArweaveCid(cid) ==
    /\ registry.registered
    /\ registry' = [registry EXCEPT !.arweave_cid = cid]
    /\ UNCHANGED <<verdicts, credits>>

RecordSlash ==
    /\ registry.registered
    /\ registry' = [registry EXCEPT
                      !.reputation_score = SlashedReputation,
                      !.slash_count = SatAddU8(@, 1)]
    /\ UNCHANGED <<verdicts, credits>>

UpdateDeclaredStake(lamports) ==
    /\ registry.registered
    /\ registry' = [registry EXCEPT !.declared_stake = lamports]
    /\ UNCHANGED <<verdicts, credits>>

\* What the agent, its attesters, its callers and its operator do, but for the
\* declared stake.
AgentNext ==
    \/ \E score \in Scores, weight \in StakeWeights, o \in Outputs :
         SubmitAttestation(score, weight, o)
    \/ \E c \in Callers, r \in MinReputations, s \in DeclaredAmounts :
         VerifyAgent(c, r, s)
    \/ \E cid \in Cids : WriteArweaveCid(cid)

Next ==
    \/ RegisterAgent
    \/ AgentNext
    \/ RecordSlash
    \/ \E lamports \in DeclaredAmounts : UpdateDeclaredStake(lamports)

Spec == Init /\ [][Next]_vars

-----------------------------------------------------------------------------
(* Properties that hold                                                     *)

Banned == registry.slash_count >= 3

\* "slash_count: permanent, never resets", "Three slashes effectively blacklists
\* the agent": no sequence of instructions lifts a ban, not even the slashes
\* past the largest u8, and a banned agent gets no new trusted verdict.
BanIsPermanent ==
    [][Banned => /\ Banned'
                 /\ \A c \in Callers :
                      verdicts'[c] = "trusted" => verdicts[c] = "trusted"
      ]_vars

\* The attestations accepted so far, one by one: the n-th for an output is <<o, n>>.
Accepted == UNION {{o} \X (1..credits[o]) : o \in Outputs}

\* An attestation is worth at most 100 points and slashes only take points
\* away, so a reputation is backed by at least a hundredth as many attestations.
ReputationIsEarned ==
    registry.reputation_score <= 100 * Cardinality(Accepted)

=============================================================================
