--------------------------- MODULE RegistryProofs ---------------------------
(***************************************************************************)
(* Proofs about Registry, for every ceiling, multiplier and width of the   *)
(* slash counter that meet Registry's assumptions.                         *)
(***************************************************************************)
EXTENDS Registry, FiniteSetTheorems, TLAPS

\* A slash never raises a reputation.
LEMMA SlashedReputationBound ==
  ASSUME TypeOK
  PROVE  SlashedReputation \in Nat /\ SlashedReputation <= registry.reputation_score
<1> DEFINE x == registry.reputation_score
           p == x * SlashMultiplier
<1>1. x \in Nat /\ x <= MaxReputation /\ SlashMultiplier \in 0..100
         /\ MaxReputation \in Nat
  BY ReputationAssumption DEF TypeOK, RegistryAccount
<1> HIDE DEF x
<1>2. p \in Nat /\ p <= x * 100
  BY <1>1
<1> HIDE DEF p
<1>3. p \div 100 \in Nat /\ p \div 100 <= x
  BY <1>1, <1>2
<1> QED  BY <1>3 DEF SlashedReputation, p, x

\* So it leaves a reputation inside its range.
LEMMA SlashedReputationType ==
  ASSUME TypeOK
  PROVE  SlashedReputation \in 0..MaxReputation
BY SlashedReputationBound, ReputationAssumption DEF TypeOK, RegistryAccount

\* An attestation leaves a reputation inside its range, whatever its delta.
LEMMA ReputationAfterType ==
  ASSUME TypeOK, NEW delta \in Nat
  PROVE  ReputationAfter(delta) \in 0..MaxReputation
BY ReputationAssumption DEF TypeOK, RegistryAccount, ReputationAfter

\* The scaled score of an attestation is a natural number.
LEMMA DeltaType ==
  ASSUME NEW score \in Nat, NEW weight \in Nat
  PROVE  Delta(score, weight) \in Nat
<1>1. score * weight \in Nat
  OBVIOUS
<1> QED  BY <1>1 DEF Delta

\* Initial states are well typed.
LEMMA TypeInit == Init => TypeOK
BY ReputationAssumption, U8Assumption
DEF Init, TypeOK, RegistryAccount, Verdict

\* Every instruction keeps the state well typed.
LEMMA TypeStep == TypeOK /\ [Next]_vars => TypeOK'
<1> SUFFICES ASSUME TypeOK, [Next]_vars PROVE TypeOK'
  OBVIOUS
<1> USE DEF TypeOK
<1>1. CASE RegisterAgent
  BY <1>1 DEF RegisterAgent, RegistryAccount
<1>3. ASSUME NEW score \in Scores, NEW weight \in StakeWeights,
             NEW o \in Outputs, SubmitAttestation(score, weight, o)
      PROVE  TypeOK'
  <2>1. Delta(score, weight) \in Nat
    BY ScoresAssumption, DeltaType
  <2>2. ReputationAfter(Delta(score, weight)) \in 0..MaxReputation
    BY <2>1, ReputationAfterType
  <2> QED  BY <1>3, <2>2 DEF SubmitAttestation, RegistryAccount
<1>4. ASSUME NEW c \in Callers, NEW r \in MinReputations,
             NEW s \in DeclaredAmounts, VerifyAgent(c, r, s)
      PROVE  TypeOK'
  BY <1>4 DEF VerifyAgent, Verdict
<1>5. CASE RecordSlash
  <2>1. SatAddU8(registry.slash_count, 1) \in 0..U8Max
    BY U8Assumption DEF SatAddU8, RegistryAccount
  <2>2. SlashedReputation \in 0..MaxReputation
    BY SlashedReputationType
  <2> QED  BY <1>5, <2>1, <2>2 DEF RecordSlash, RegistryAccount
<1>6. ASSUME NEW lamports \in DeclaredAmounts, UpdateDeclaredStake(lamports)
      PROVE  TypeOK'
  BY <1>6, ScoresAssumption DEF UpdateDeclaredStake, RegistryAccount
<1>7. CASE \E cid \in Cids : WriteArweaveCid(cid)
  BY <1>7 DEF WriteArweaveCid, RegistryAccount
<1>8. CASE UNCHANGED vars
  BY <1>8 DEF vars
<1> QED  BY <1>1, <1>3, <1>4, <1>5, <1>6, <1>7, <1>8 DEF Next, AgentNext

\* Reputations stay between 0 and MAX_REPUTATION and slash counts in a u8.
THEOREM TypeCorrect == Spec => []TypeOK
<1>1. Init => TypeOK
  BY TypeInit
<1>2. TypeOK /\ [Next]_vars => TypeOK'
  BY TypeStep
<1> QED  BY <1>1, <1>2, PTL DEF Spec

-----------------------------------------------------------------------------

\* Three slashes ban an agent for good, also when the slash counter is full:
\* saturating at the largest u8 is what keeps the ban.
THEOREM BanCorrect == Spec => BanIsPermanent
<1> DEFINE Stays == Banned => /\ Banned'
                              /\ \A c \in Callers :
                                   verdicts'[c] = "trusted"
                                     => verdicts[c] = "trusted"
<1>1. TypeOK /\ [Next]_vars => [Stays]_vars
  <2> SUFFICES ASSUME TypeOK, Next, Banned
               PROVE  /\ Banned'
                      /\ \A c \in Callers : verdicts'[c] = "trusted"
                                              => verdicts[c] = "trusted"
    OBVIOUS
  <2> USE DEF Banned, RegistryAccount, TypeOK
  <2>1. CASE RegisterAgent
    BY <2>1 DEF RegisterAgent
  <2>3. ASSUME NEW score \in Scores, NEW weight \in StakeWeights,
               NEW o \in Outputs, SubmitAttestation(score, weight, o)
        PROVE  registry'.slash_count = registry.slash_count /\ verdicts' = verdicts
    BY <2>3 DEF SubmitAttestation
  <2>4. ASSUME NEW c \in Callers, NEW r \in MinReputations,
               NEW s \in DeclaredAmounts, VerifyAgent(c, r, s)
        PROVE  /\ registry' = registry
               /\ verdicts' = [verdicts EXCEPT ![c] = "untrusted"]
    <3>1. ~ Trusted(r, s)
      BY DEF Trusted
    <3> QED  BY <2>4, <3>1 DEF VerifyAgent
  <2>5. CASE RecordSlash
    <3>1. SatAddU8(registry.slash_count, 1) >= 3
      BY U8Assumption DEF SatAddU8
    <3> QED  BY <2>5, <3>1 DEF RecordSlash
  <2>6. CASE \E lamports \in DeclaredAmounts : UpdateDeclaredStake(lamports)
    BY <2>6 DEF UpdateDeclaredStake
  <2>7. CASE \E cid \in Cids : WriteArweaveCid(cid)
    BY <2>7 DEF WriteArweaveCid
  <2> QED  BY <2>1, <2>3, <2>4, <2>5, <2>6, <2>7 DEF Next, AgentNext
<1> QED  BY <1>1, TypeCorrect, PTL DEF Spec, BanIsPermanent

-----------------------------------------------------------------------------
(* A reputation is earned.                                                  *)

\* Inductive: the attestations can be counted, and the count backs the score.
EarnedInv == TypeOK /\ IsFiniteSet(Accepted) /\ ReputationIsEarned

\* One more attestation for an output is one more attestation.
LEMMA AcceptedGrows ==
  ASSUME TypeOK, IsFiniteSet(Accepted), NEW o \in Outputs,
         credits' = [credits EXCEPT ![o] = @ + 1]
  PROVE  /\ IsFiniteSet(Accepted')
         /\ Cardinality(Accepted') = Cardinality(Accepted) + 1
<1> DEFINE next == <<o, credits[o] + 1>>
<1>1. credits \in [Outputs -> Nat]
  BY DEF TypeOK
<1>2. /\ credits'[o] = credits[o] + 1 /\ credits[o] \in Nat
      /\ \A p \in Outputs \ {o} : credits'[p] = credits[p]
  BY <1>1
<1>3. \A p, n : <<p, n>> \in Accepted <=> p \in Outputs /\ n \in 1..credits[p]
  BY DEF Accepted
<1>4. \A p, n : <<p, n>> \in Accepted' <=> p \in Outputs /\ n \in 1..credits'[p]
  BY DEF Accepted
<1>5. next \notin Accepted
  BY <1>2, <1>3
<1>6. Accepted' = Accepted \cup {next}
  <2>1. \A x \in Accepted \cup Accepted' : \E p, n : x = <<p, n>>
    BY DEF Accepted
  <2>2. \A n : n \in 1..(credits[o] + 1) <=> n \in 1..credits[o] \/ n = credits[o] + 1
    BY <1>2
  <2>3. \A p, n : <<p, n>> \in Accepted' <=> <<p, n>> \in Accepted \/ <<p, n>> = next
    BY <1>2, <1>3, <1>4, <2>2
  <2> QED  BY <2>1, <2>3
<1> QED  BY <1>5, <1>6, FS_AddElement

\* An attestation is worth at most 100 points.
LEMMA DeltaBound ==
  ASSUME NEW score \in 0..100, NEW weight \in 0..10
  PROVE  Delta(score, weight) <= 100
<1>1. score * weight \in Nat /\ score * weight <= 1000
  <2>1. score * weight <= score * 10 /\ score * weight \in Nat
    OBVIOUS
  <2> QED  BY <2>1
<1> HIDE DEF Delta
<1>2. \A n \in 0..1000 : n \div 10 <= 100
  OBVIOUS
<1> QED  BY <1>1, <1>2 DEF Delta

\* Before the first attestation there is nothing to count and nothing to back.
LEMMA EarnedInit == Init => EarnedInv
<1> SUFFICES ASSUME Init PROVE EarnedInv
  OBVIOUS
<1>1. Accepted = {}
  BY DEF Init, Accepted
<1>2. IsFiniteSet(Accepted) /\ Cardinality(Accepted) = 0
  BY <1>1, FS_EmptySet
<1> QED  BY <1>2, TypeInit DEF EarnedInv, ReputationIsEarned, Init

\* Only an attestation raises a reputation, and it is counted.
LEMMA EarnedStep == EarnedInv /\ [Next]_vars => EarnedInv'
<1> SUFFICES ASSUME EarnedInv, [Next]_vars PROVE EarnedInv'
  OBVIOUS
<1>1. /\ TypeOK /\ TypeOK' /\ registry \in RegistryAccount
      /\ IsFiniteSet(Accepted) /\ Cardinality(Accepted) \in Nat
      /\ registry.reputation_score \in Nat
      /\ registry.reputation_score <= 100 * Cardinality(Accepted)
  BY TypeStep, FS_CardinalityType
  DEF EarnedInv, TypeOK, RegistryAccount, ReputationIsEarned
<1>2. ASSUME NEW score \in Scores, NEW weight \in StakeWeights,
             NEW o \in Outputs, SubmitAttestation(score, weight, o)
      PROVE  EarnedInv'
  <2>1. /\ IsFiniteSet(Accepted')
        /\ Cardinality(Accepted') = Cardinality(Accepted) + 1
    BY <1>1, <1>2, AcceptedGrows DEF SubmitAttestation
  <2>2. Delta(score, weight) \in Nat /\ Delta(score, weight) <= 100
    <3>1. score \in 0..100 /\ weight \in 0..10
      BY <1>2, ScoresAssumption DEF SubmitAttestation, CanAttest
    <3>2. Delta(score, weight) <= 100
      BY ONLY <3>1, DeltaBound
    <3>3. Delta(score, weight) \in Nat
      BY ScoresAssumption, DeltaType
    <3> QED  BY <3>2, <3>3
  <2>3. registry'.reputation_score <= registry.reputation_score + Delta(score, weight)
    <3>1. /\ ReputationAfter(Delta(score, weight)) \in Nat
          /\ ReputationAfter(Delta(score, weight))
               <= registry.reputation_score + Delta(score, weight)
      BY <1>1, <2>2, ReputationAssumption DEF ReputationAfter
    <3> QED  BY <1>1, <1>2, <3>1 DEF SubmitAttestation, RegistryAccount
  <2>4. registry'.reputation_score \in Nat
    BY <1>1 DEF TypeOK, RegistryAccount
  <2> QED  BY <1>1, <2>1, <2>2, <2>3, <2>4 DEF EarnedInv, ReputationIsEarned
<1>3. ASSUME ~ \E score \in Scores, weight \in StakeWeights, o \in Outputs :
                 SubmitAttestation(score, weight, o)
      PROVE  EarnedInv'
  <2>1. Accepted' = Accepted
    BY <1>3 DEF Next, AgentNext, RegisterAgent, VerifyAgent,
                WriteArweaveCid, RecordSlash, UpdateDeclaredStake, vars, Accepted
  <2>2. registry'.reputation_score <= registry.reputation_score
    <3>1. CASE RecordSlash
      <4>1. SlashedReputation <= registry.reputation_score
        BY <1>1, SlashedReputationBound
      <4> QED  BY <1>1, <3>1, <4>1 DEF RecordSlash, RegistryAccount
    <3>2. CASE ~RecordSlash
      BY <1>1, <1>3, <3>2
      DEF Next, AgentNext, RegisterAgent, VerifyAgent, WriteArweaveCid,
          UpdateDeclaredStake, vars, RegistryAccount
    <3> QED  BY <3>1, <3>2
  <2>3. registry'.reputation_score \in Nat
    BY <1>1 DEF TypeOK, RegistryAccount
  <2> QED  BY <1>1, <2>1, <2>2, <2>3 DEF EarnedInv, ReputationIsEarned
<1> QED  BY <1>2, <1>3

\* No reputation without attestations to back it, a hundred points for each.
THEOREM EarnedCorrect == Spec => []ReputationIsEarned
<1>1. Init => EarnedInv
  BY EarnedInit
<1>2. EarnedInv /\ [Next]_vars => EarnedInv'
  BY EarnedStep
<1>3. EarnedInv => ReputationIsEarned
  BY DEF EarnedInv
<1> QED  BY <1>1, <1>2, <1>3, PTL DEF Spec

=============================================================================
