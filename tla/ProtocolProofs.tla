--------------------------- MODULE ProtocolProofs ---------------------------
(***************************************************************************)
(* Proofs about Fund, for every set of stakers, every amount and every     *)
(* value of the program's constants that meets Fund's assumptions, and     *)
(* then about Protocol, for every set of tasks and wallets: the three      *)
(* programs together implement each of them, so what is proved of the fund *)
(* alone holds of the fund the other programs call.                        *)
(***************************************************************************)
EXTENDS Protocol, FiniteSetTheorems, TLAPS

-----------------------------------------------------------------------------
(* Lemmas on the machine arithmetic                                         *)

\* The saturating operations of u64 and u16 stay in the type.
LEMMA SatAddType ==
  ASSUME NEW max \in Nat, NEW x \in 0..max, NEW y \in Nat
  PROVE  SatAdd(x, y, max) \in 0..max
BY DEF SatAdd

LEMMA SatSubType ==
  ASSUME NEW max \in Nat, NEW x \in 0..max, NEW y \in Nat
  PROVE  SatSub(x, y) \in 0..max /\ SatSub(x, y) <= x
BY DEF SatSub

\* What is left of a stake after a slash is a u64 no larger than the stake.
LEMMA AfterSlashType ==
  ASSUME NEW stake \in U64, NEW ratio \in 0..BpsDenominator
  PROVE  /\ AfterSlash(stake, ratio) \in U64
         /\ AfterSlash(stake, ratio) <= stake
<1> DEFINE B == BpsDenominator
           p == SatMul(stake, B - ratio)
<1>1. B \in Nat \ {0} /\ U64Max \in Nat /\ stake \in Nat /\ B - ratio \in 0..B
  BY BpsAssumption, AmountsAssumption DEF U64
<1>2. p \in Nat /\ p <= stake * B
  <2>1. stake * (B - ratio) \in Nat /\ stake * (B - ratio) <= stake * B
    <3> DEFINE k == B - ratio
    <3>1. stake \in Nat /\ k \in Nat /\ k <= B /\ B \in Nat
      BY <1>1
    <3> HIDE DEF k
    <3>2. stake * k \in Nat /\ stake * k <= stake * B
      BY <3>1
    <3> QED  BY <3>2 DEF k
  <2> QED  BY <1>1, <2>1 DEF SatMul
<1> HIDE DEF p
<1>3. p \div B \in Nat /\ p \div B <= stake
  BY <1>1, <1>2
<1> QED  BY <1>1, <1>3 DEF AfterSlash, p, U64

\* The ratio of a covered slash is at most one.
LEMMA SlashRatioType ==
  ASSUME NEW amount \in Nat, NEW total \in Nat \ {0}, amount <= total
  PROVE  /\ (amount * BpsDenominator) \div total \in 0..BpsDenominator
         /\ ((amount * BpsDenominator) \div total) * total
              <= amount * BpsDenominator
<1> DEFINE B == BpsDenominator
           p == amount * B
<1>1. B \in Nat \ {0}
  BY BpsAssumption
<1>2. p \in Nat /\ p <= B * total
  BY <1>1
<1> HIDE DEF p
<1>3. p \div total \in 0..B /\ (p \div total) * total <= p
  BY <1>1, <1>2
<1> QED  BY <1>3 DEF p

\* Below the cap AfterSlash does not saturate, and rounds down by less than one.
LEMMA AfterSlashRounding ==
  ASSUME NEW stake \in Nat, stake <= StakeCap, NEW ratio \in 0..BpsDenominator
  PROVE  /\ AfterSlash(stake, ratio) \in Nat
         /\ stake * (BpsDenominator - ratio)
              <= AfterSlash(stake, ratio) * BpsDenominator + BpsDenominator - 1
<1> DEFINE B == BpsDenominator
           k == B - ratio
           p == stake * k
<1>1. B \in Nat \ {0} /\ k \in Nat /\ k <= B /\ StakeCap \in Nat
         /\ StakeCap * B <= U64Max
  BY BpsAssumption, BoundsAssumption
<1> HIDE DEF k
<1>2. stake * k <= StakeCap * k /\ StakeCap * k <= StakeCap * B
  BY <1>1
<1>3. p \in Nat /\ p <= U64Max
  BY <1>1, <1>2, AmountsAssumption
<1>4. AfterSlash(stake, ratio) = p \div B
  BY <1>1, <1>3, AmountsAssumption DEF AfterSlash, SatMul, k
<1> HIDE DEF p
<1>5. p \div B \in Nat /\ p <= (p \div B) * B + B - 1
  BY <1>1, <1>3
<1> QED  BY <1>4, <1>5 DEF p, k

\* execute_slash takes at least as much off total_locked_stake as off the two
\* halves together, up to one lamport of rounding.
LEMMA SlashedHalves ==
  ASSUME NEW total \in Nat \ {0}, NEW v \in Nat, NEW c \in Nat, NEW k \in Nat,
         NEW amount \in Nat, amount <= total,
         total <= v + c + k, v + c <= StakeCap
  PROVE  LET r == (amount * BpsDenominator) \div total
         IN  total - amount <= AfterSlash(v, r) + AfterSlash(c, r) + k + 1
<1> DEFINE B == BpsDenominator
           r == (amount * B) \div total
           v1 == AfterSlash(v, r)
           c1 == AfterSlash(c, r)
           q == B - r
<1>1. B \in Nat \ {0} /\ StakeCap \in Nat
  BY BpsAssumption, BoundsAssumption
<1>2. r \in 0..B /\ r * total <= amount * B
  BY SlashRatioType
<1> HIDE DEF r
<1>3. v1 \in Nat /\ v * q <= v1 * B + B - 1
  BY <1>1, <1>2, AfterSlashRounding
<1>4. c1 \in Nat /\ c * q <= c1 * B + B - 1
  BY <1>1, <1>2, AfterSlashRounding
<1>5. q \in Nat /\ q <= B /\ q = B - r
  BY <1>1, <1>2
<1> HIDE DEF v1, c1, q
<1>6. (v + c) * q = v * q + c * q
  BY <1>5
<1>7. (total - k) * q <= (v + c) * q
  BY <1>5
<1>8. (total - k) * q = total * B - r * total - k * q
  BY <1>1, <1>2, <1>5
<1>9. k * q <= k * B
  BY <1>1, <1>5
<1>10. total * B - amount * B - k * B <= v1 * B + c1 * B + B + B - 2
  <2> HIDE DEF B
  <2>1. /\ total * B \in Int /\ amount * B \in Int /\ k * B \in Int
        /\ v1 * B \in Int /\ c1 * B \in Int /\ r * total \in Int
        /\ k * q \in Int /\ v * q \in Int /\ c * q \in Int
        /\ (v + c) * q \in Int /\ (total - k) * q \in Int /\ B \in Int
    BY <1>1, <1>2, <1>3, <1>4, <1>5
  <2> QED  BY <2>1, <1>2, <1>3, <1>4, <1>6, <1>7, <1>8, <1>9
<1>11. (total - amount - k - v1 - c1 - 2) * B < 0
  BY <1>1, <1>3, <1>4, <1>10
<1>12. total - amount - k - v1 - c1 - 2 < 0
  BY <1>1, <1>3, <1>4, <1>11
<1>13. total - amount <= v1 + c1 + k + 1
  BY <1>3, <1>4, <1>12
<1> QED  BY <1>13 DEF v1, c1, r

-----------------------------------------------------------------------------
(* Type correctness                                                         *)

USE DEF U64

\* The position a staking instruction writes is well typed.
LEMMA StakedPositionType ==
  ASSUME TypeOK, NEW s \in Stakers, NEW amount \in U64, NEW validator \in BOOLEAN
  PROVE  /\ StakedPosition(s, amount, validator) \in StakerPosition
         /\ StakerCountAfterStake(s) \in 0..U16Max
<1>1. positions[s] \in StakerPosition /\ fund.staker_count \in 0..U16Max
         /\ now \in Nat /\ U64Max \in Nat /\ U16Max \in Nat
  BY AmountsAssumption, BoundsAssumption DEF TypeOK, FundAccount
<1>2. OpenedPosition(s, validator) \in StakerPosition
  BY <1>1 DEF OpenedPosition, StakerPosition
<1>3. SatAdd(OpenedPosition(s, validator).amount_staked, amount, U64Max)
        \in 0..U64Max
  <2>1. OpenedPosition(s, validator).amount_staked \in 0..U64Max /\ amount \in Nat
    BY <1>1, <1>2 DEF StakerPosition
  <2> QED  BY <1>1, <2>1, SatAddType
<1>4. SatAdd(fund.staker_count, 1, U16Max) \in 0..U16Max
  BY <1>1, SatAddType
<1> QED
  BY <1>1, <1>2, <1>3, <1>4
  DEF StakedPosition, StakerPosition, StakerCountAfterStake

\* Initial states are well typed.
LEMMA TypeInit == Init => TypeOK
BY StakersAssumption, AmountsAssumption, BpsAssumption, BoundsAssumption
DEF Init, TypeOK, FundAccount, StakerPosition, NoFund, NoPosition

\* Every step of the program keeps the state well typed.
LEMMA TypeStep == TypeOK /\ [Next]_vars => TypeOK'
<1> SUFFICES ASSUME TypeOK, [Next]_vars PROVE TypeOK'
  OBVIOUS
<1> USE DEF TypeOK
<1>0. /\ U64Max \in Nat /\ U16Max \in Nat /\ MaxTime \in Nat
      /\ BpsDenominator \in Nat \ {0} /\ RentExempt \in U64
      /\ StakeAmounts \subseteq U64 /\ RewardAmounts \subseteq U64
      /\ SlashAmounts \subseteq U64 /\ Operator \in Stakers
      /\ MaxSlashes \in Nat
  BY StakersAssumption, AmountsAssumption, BpsAssumption, BoundsAssumption
<1>1. CASE InitializeFund
  <2>1. NoFund \in FundAccount
    BY <1>0 DEF NoFund, FundAccount
  <2>2. fund' \in FundAccount
    BY <1>1, <2>1 DEF InitializeFund, FundAccount
  <2> QED  BY <1>0, <1>1, <2>2 DEF InitializeFund
<1>2. ASSUME NEW amount \in StakeAmounts, Stake(amount)
      PROVE  TypeOK'
  <2>1. amount \in U64
    BY <1>0
  <2>2. /\ StakedPosition(Operator, amount, TRUE) \in StakerPosition
        /\ StakerCountAfterStake(Operator) \in 0..U16Max
    BY <1>0, <2>1, StakedPositionType
  <2>3. /\ SatAdd(fund.validator_stake, amount, U64Max) \in U64
        /\ SatAdd(fund.total_locked_stake, amount, U64Max) \in U64
    BY <1>0, <2>1, SatAddType DEF FundAccount
  <2>4. fund' \in FundAccount
    BY <1>2, <2>2, <2>3 DEF Stake, FundAccount
  <2>5. positions' \in [Stakers -> StakerPosition]
    BY <1>2, <2>2 DEF Stake
  <2>6. vault' \in U64
    BY <1>0, <1>2, <2>1 DEF Stake, CanStake, CanCredit
  <2> QED  BY <1>2, <2>4, <2>5, <2>6 DEF Stake
<1>3. ASSUME NEW s \in Stakers, NEW amount \in StakeAmounts,
             CommunityStake(s, amount)
      PROVE  TypeOK'
  <2>1. amount \in U64
    BY <1>0
  <2>2. /\ StakedPosition(s, amount, FALSE) \in StakerPosition
        /\ StakerCountAfterStake(s) \in 0..U16Max
    BY <1>0, <2>1, StakedPositionType
  <2>3. /\ SatAdd(fund.community_stake, amount, U64Max) \in U64
        /\ SatAdd(fund.total_locked_stake, amount, U64Max) \in U64
    BY <1>0, <2>1, SatAddType DEF FundAccount
  <2>4. fund' \in FundAccount
    BY <1>3, <2>2, <2>3 DEF CommunityStake, FundAccount
  <2>5. positions' \in [Stakers -> StakerPosition]
    BY <1>3, <2>2 DEF CommunityStake
  <2>6. vault' \in U64
    BY <1>0, <1>3, <2>1 DEF CommunityStake, CanStake, CanCredit
  <2> QED  BY <1>3, <2>4, <2>5, <2>6 DEF CommunityStake
<1>4. ASSUME NEW s \in Stakers, NEW amount \in WithdrawAmounts(s),
             WithdrawStake(s, amount)
      PROVE  TypeOK'
  <2>1. amount \in U64 /\ positions[s] \in StakerPosition
    BY <1>0 DEF WithdrawAmounts, StakerPosition
  <2>2. /\ SatSub(fund.validator_stake, amount) \in U64
        /\ SatSub(fund.community_stake, amount) \in U64
        /\ SatSub(fund.total_locked_stake, amount) \in U64
        /\ SatSub(fund.staker_count, 1) \in 0..U16Max
        /\ SatSub(positions[s].amount_staked, amount) \in U64
    <3>1. /\ fund.validator_stake \in 0..U64Max /\ fund.community_stake \in 0..U64Max
          /\ fund.total_locked_stake \in 0..U64Max
          /\ fund.staker_count \in 0..U16Max /\ 1 \in Nat
          /\ positions[s].amount_staked \in 0..U64Max /\ amount \in Nat
      BY <1>0, <2>1 DEF FundAccount, StakerPosition
    <3> QED  BY <1>0, <3>1, SatSubType
  <2>3. fund' \in FundAccount
    <3>1. CASE positions[s].is_validator
      BY <1>4, <2>2, <3>1 DEF WithdrawStake, FundAfterWithdraw, FundAccount
    <3>2. CASE ~positions[s].is_validator
      BY <1>4, <2>2, <3>2 DEF WithdrawStake, FundAfterWithdraw, FundAccount
    <3> QED  BY <3>1, <3>2
  <2>4. positions' \in [Stakers -> StakerPosition]
    BY <1>4, <2>1, <2>2 DEF WithdrawStake, StakerPosition
  <2>5. vault' \in U64
    BY <1>0, <1>4, <2>1 DEF WithdrawStake, CanWithdraw, CanDebit
  <2> QED  BY <1>4, <2>3, <2>4, <2>5 DEF WithdrawStake
<1>5. ASSUME NEW amount \in RewardAmounts, DepositRewards(amount)
      PROVE  TypeOK'
  <2>1. amount \in U64
    BY <1>0
  <2>2. SatAdd(fund.accumulated_rewards, amount, U64Max) \in U64
    BY <1>0, <2>1, SatAddType DEF FundAccount
  <2>3. fund' \in FundAccount
    BY <1>5, <2>2 DEF DepositRewards, FundAccount
  <2>4. vault' \in U64
    BY <1>0, <1>5, <2>1 DEF DepositRewards, CanCredit
  <2> QED  BY <1>5, <2>3, <2>4 DEF DepositRewards
<1>6. ASSUME NEW s \in Stakers, ClaimRewards(s)
      PROVE  TypeOK'
  <2> DEFINE product == positions[s].amount_staked * fund.accumulated_rewards
  <2>1. product \in Nat /\ fund.total_locked_stake \in Nat \ {0}
    BY <1>0, <1>6 DEF ClaimRewards, CanClaim, FundAccount, StakerPosition
  <2>2. RewardOf(s) \in U64
    <3> HIDE DEF product
    <3>1. product \div fund.total_locked_stake \in Nat
      BY <2>1
    <3>2. (product \div fund.total_locked_stake) % (U64Max + 1) \in 0..U64Max
      BY <1>0, <3>1
    <3> QED  BY <3>2 DEF RewardOf, product
  <2> HIDE DEF product
  <2>3. SatSub(fund.accumulated_rewards, RewardOf(s)) \in U64
    BY <1>0, <2>2, SatSubType DEF FundAccount
  <2>4. fund' \in FundAccount
    BY <1>6, <2>3 DEF ClaimRewards, FundAccount
  <2>5. positions' \in [Stakers -> StakerPosition]
    BY <1>0, <1>6 DEF ClaimRewards, StakerPosition
  <2>6. vault' \in U64
    BY <1>0, <1>6, <2>2 DEF ClaimRewards, CanClaim, CanDebit
  <2>7. overpaid' \in Nat
    BY <1>0, <1>6, <2>2 DEF ClaimRewards, SatSub, FundAccount
  <2> QED  BY <1>6, <2>4, <2>5, <2>6, <2>7 DEF ClaimRewards
<1>7. ASSUME NEW s \in Stakers, ApplySlashToStaker(s)
      PROVE  TypeOK'
  <2>1. AfterSlash(positions[s].amount_staked, fund.last_slash_ratio_bps) \in U64
    BY AfterSlashType DEF FundAccount, StakerPosition
  <2>2. positions' \in [Stakers -> StakerPosition]
    BY <1>7, <2>1 DEF ApplySlashToStaker, StakerPosition
  <2> QED  BY <1>7, <2>2 DEF ApplySlashToStaker
<1>8. CASE LockFund
  BY <1>8 DEF LockFund, FundAccount
<1>9. CASE UnlockFund
  BY <1>9 DEF UnlockFund, FundAccount
<1>10. ASSUME NEW amount \in SlashAmounts, NEW c \in Challengers,
              ExecuteSlash(amount, c)
       PROVE  TypeOK'
  <2>1. /\ amount \in Nat /\ amount \in U64 /\ fund.total_locked_stake \in Nat \ {0}
        /\ amount <= fund.total_locked_stake
    BY <1>0, <1>10 DEF ExecuteSlash, FundAccount
  <2>2. SlashRatioBps(amount) \in 0..BpsDenominator
    BY <2>1, SlashRatioType DEF SlashRatioBps
  <2>3. /\ AfterSlash(fund.validator_stake, SlashRatioBps(amount)) \in U64
        /\ AfterSlash(fund.community_stake, SlashRatioBps(amount)) \in U64
    BY <2>2, AfterSlashType DEF FundAccount
  <2>4. SatSub(fund.total_locked_stake, amount) \in U64
    BY <1>0, <2>1, SatSubType DEF FundAccount
  <2>5. fund' \in FundAccount
    BY <1>10, <2>1, <2>2, <2>3, <2>4 DEF ExecuteSlash, FundAccount
  <2>6. slashes' \in 0..MaxSlashes
    BY <1>0, <1>10 DEF ExecuteSlash
  <2> QED  BY <1>10, <2>5, <2>6 DEF ExecuteSlash
<1>11. CASE Tick
  BY <1>0, <1>11 DEF Tick
<1>12. CASE UNCHANGED vars
  BY <1>12 DEF vars
<1> QED
  BY <1>1, <1>2, <1>3, <1>4, <1>5, <1>6, <1>7, <1>8, <1>9, <1>10, <1>11, <1>12
  DEF Next, StakerNext, AuthorityNext

\* Counters stay u64 and u16 and the vault never goes negative, although every
\* subtraction of the program saturates instead of checking.
THEOREM TypeCorrect == Spec => []TypeOK
<1>1. Init => TypeOK
  BY TypeInit
<1>2. TypeOK /\ [Next]_vars => TypeOK'
  BY TypeStep
<1> QED  BY <1>1, <1>2, PTL DEF Spec

-----------------------------------------------------------------------------
(* The two halves of the stake cover the total                              *)

\* SplitCoversTotal is not inductive alone: a slash multiplies the halves by
\* BPS_DENOMINATOR, which must not saturate, so they have to stay under the cap.
SplitInv ==
    /\ TypeOK
    /\ fund.validator_stake + fund.community_stake <= StakeCap
    /\ SplitCoversTotal
    /\ fund.last_slash_ratio_bps > 0 => slashes > 0

\* The initial state satisfies the inductive invariant.
LEMMA SplitInit == Init => SplitInv
<1> SUFFICES ASSUME Init PROVE SplitInv
  OBVIOUS
<1>1. TypeOK
  BY TypeInit
<1> QED  BY <1>1, BoundsAssumption DEF Init, NoFund, SplitInv, SplitCoversTotal

\* Every step preserves the inductive invariant.
LEMMA SplitStep == SplitInv /\ [Next]_vars => SplitInv'
<1> SUFFICES ASSUME SplitInv, [Next]_vars PROVE SplitInv'
  OBVIOUS
<1> USE DEF SplitInv
<1> DEFINE v == fund.validator_stake
           c == fund.community_stake
           total == fund.total_locked_stake
<1>0. /\ TypeOK' /\ TypeOK
      /\ v \in U64 /\ c \in U64 /\ total \in U64 /\ slashes \in Nat
      /\ fund.last_slash_ratio_bps \in Nat
      /\ U64Max \in Nat /\ StakeCap \in Nat /\ MaxSlashes \in Nat
      /\ StakeAmounts \subseteq U64 /\ SlashAmounts \subseteq U64
      /\ total <= v + c + slashes /\ v + c <= StakeCap
  BY TypeStep, AmountsAssumption, BpsAssumption, BoundsAssumption
  DEF TypeOK, FundAccount, SplitCoversTotal
<1>1. CASE InitializeFund
  BY <1>0, <1>1 DEF InitializeFund, NoFund, SplitCoversTotal
<1>2. ASSUME NEW amount \in StakeAmounts, Stake(amount)
      PROVE  SplitInv'
  <2>1. /\ amount \in Nat /\ v + c + amount <= StakeCap
        /\ fund'.validator_stake = SatAdd(v, amount, U64Max)
        /\ fund'.total_locked_stake = SatAdd(total, amount, U64Max)
        /\ fund'.community_stake = c
        /\ fund'.last_slash_ratio_bps = fund.last_slash_ratio_bps
        /\ slashes' = slashes
    BY <1>0, <1>2 DEF Stake, CanStake, WithinCap, TypeOK, FundAccount
  <2> QED  BY <1>0, <2>1 DEF SatAdd, SplitCoversTotal
<1>3. ASSUME NEW s \in Stakers, NEW amount \in StakeAmounts,
             CommunityStake(s, amount)
      PROVE  SplitInv'
  <2>1. /\ amount \in Nat /\ v + c + amount <= StakeCap
        /\ fund'.community_stake = SatAdd(c, amount, U64Max)
        /\ fund'.total_locked_stake = SatAdd(total, amount, U64Max)
        /\ fund'.validator_stake = v
        /\ fund'.last_slash_ratio_bps = fund.last_slash_ratio_bps
        /\ slashes' = slashes
    BY <1>0, <1>3 DEF CommunityStake, CanStake, WithinCap, TypeOK, FundAccount
  <2> QED  BY <1>0, <2>1 DEF SatAdd, SplitCoversTotal
<1>4. ASSUME NEW s \in Stakers, NEW amount \in WithdrawAmounts(s),
             WithdrawStake(s, amount)
      PROVE  SplitInv'
  <2>1. amount \in Nat
    BY <1>0 DEF WithdrawAmounts, TypeOK, StakerPosition
  <2>2. /\ fund'.total_locked_stake = SatSub(total, amount)
        /\ fund'.last_slash_ratio_bps = fund.last_slash_ratio_bps
        /\ slashes' = slashes
    BY <1>0, <1>4 DEF WithdrawStake, FundAfterWithdraw, TypeOK, FundAccount
  <2>3. \/ fund'.validator_stake = SatSub(v, amount) /\ fund'.community_stake = c
        \/ fund'.community_stake = SatSub(c, amount) /\ fund'.validator_stake = v
    BY <1>0, <1>4 DEF WithdrawStake, FundAfterWithdraw, TypeOK, FundAccount
  <2> QED  BY <1>0, <2>1, <2>2, <2>3 DEF SatSub, SplitCoversTotal
<1>5. ASSUME NEW amount \in RewardAmounts, DepositRewards(amount)
      PROVE  SplitInv'
  BY <1>0, <1>5 DEF DepositRewards, TypeOK, FundAccount, SplitCoversTotal
<1>6. ASSUME NEW s \in Stakers, ClaimRewards(s)
      PROVE  SplitInv'
  BY <1>0, <1>6 DEF ClaimRewards, TypeOK, FundAccount, SplitCoversTotal
<1>7. ASSUME NEW s \in Stakers, ApplySlashToStaker(s)
      PROVE  SplitInv'
  BY <1>0, <1>7 DEF ApplySlashToStaker, SplitCoversTotal
<1>8. CASE LockFund
  BY <1>0, <1>8 DEF LockFund, TypeOK, FundAccount, SplitCoversTotal
<1>9. CASE UnlockFund
  BY <1>0, <1>9 DEF UnlockFund, TypeOK, FundAccount, SplitCoversTotal
<1>10. ASSUME NEW amount \in SlashAmounts, NEW b \in Challengers,
              ExecuteSlash(amount, b)
       PROVE  SplitInv'
  <2> DEFINE r == SlashRatioBps(amount)
  <2>1. amount \in Nat /\ total \in Nat \ {0} /\ amount <= total
    BY <1>0, <1>10 DEF ExecuteSlash
  <2>2. /\ fund'.total_locked_stake = SatSub(total, amount)
        /\ fund'.validator_stake = AfterSlash(v, r)
        /\ fund'.community_stake = AfterSlash(c, r)
        /\ slashes' = slashes + 1
    BY <1>0, <1>10 DEF ExecuteSlash, TypeOK, FundAccount
  <2>3. r \in 0..BpsDenominator
    BY <2>1, SlashRatioType DEF SlashRatioBps
  <2>4. total - amount <= AfterSlash(v, r) + AfterSlash(c, r) + slashes + 1
    <3>1. /\ v \in Nat /\ c \in Nat /\ slashes \in Nat
          /\ total <= v + c + slashes /\ v + c <= StakeCap
      BY <1>0
    <3> HIDE DEF v, c, total
    <3> QED  BY <2>1, <3>1, SlashedHalves DEF SlashRatioBps, total
  <2> HIDE DEF r
  <2>5. /\ AfterSlash(v, r) \in Nat /\ AfterSlash(v, r) <= v
        /\ AfterSlash(c, r) \in Nat /\ AfterSlash(c, r) <= c
    BY <1>0, <2>3, AfterSlashType
  <2>6. SatSub(total, amount) = total - amount
    BY <2>1 DEF SatSub
  <2> QED  BY <1>0, <2>1, <2>2, <2>4, <2>5, <2>6 DEF SplitCoversTotal
<1>11. CASE Tick
  BY <1>0, <1>11 DEF Tick, SplitCoversTotal
<1>12. CASE UNCHANGED vars
  BY <1>0, <1>12 DEF vars, SplitCoversTotal
<1> QED
  BY <1>1, <1>2, <1>3, <1>4, <1>5, <1>6, <1>7, <1>8, <1>9, <1>10, <1>11, <1>12
  DEF Next, StakerNext, AuthorityNext

\* However often a fund is slashed, and however late the slashes are applied to
\* the positions, its validator and community stake fall short of its total by
\* at most one lamport per slash.
THEOREM SplitCorrect == Spec => []SplitCoversTotal
<1>1. Init => SplitInv
  BY SplitInit
<1>2. SplitInv /\ [Next]_vars => SplitInv'
  BY SplitStep
<1>3. SplitInv => SplitCoversTotal
  BY DEF SplitInv
<1> QED  BY <1>1, <1>2, <1>3, PTL DEF Spec

-----------------------------------------------------------------------------
(* Action properties                                                        *)

\* No instruction takes stake out of a fund that is and stays locked.
THEOREM LockCorrect == Spec => LockedStakeStays
<1> DEFINE Stays == fund.challenge_active /\ fund'.challenge_active
                      => fund'.total_locked_stake >= fund.total_locked_stake
<1>1. TypeOK /\ [Next]_vars => [Stays]_vars
  <2> SUFFICES ASSUME TypeOK, Next, fund.challenge_active,
                      fund'.challenge_active
               PROVE  fund'.total_locked_stake >= fund.total_locked_stake
    OBVIOUS
  <2>0. /\ fund.total_locked_stake \in U64 /\ U64Max \in Nat
        /\ StakeAmounts \subseteq U64 /\ fund \in FundAccount
    BY AmountsAssumption DEF TypeOK, FundAccount
  <2>1. ASSUME NEW amount \in StakeAmounts,
               Stake(amount) \/ \E s \in Stakers : CommunityStake(s, amount)
        PROVE  fund'.total_locked_stake >= fund.total_locked_stake
    <3>1. fund'.total_locked_stake
            = SatAdd(fund.total_locked_stake, amount, U64Max)
      BY <2>0, <2>1 DEF Stake, CommunityStake, FundAccount
    <3> QED  BY <2>0, <3>1 DEF SatAdd
  <2>2. CASE InitializeFund
    BY <2>0, <2>2 DEF InitializeFund, NoFund
  <2>3. ASSUME NEW s \in Stakers, NEW amount \in WithdrawAmounts(s),
               WithdrawStake(s, amount)
        PROVE  FALSE
    BY <2>3 DEF WithdrawStake, CanWithdraw
  <2>4. ASSUME NEW amount \in SlashAmounts, NEW c \in Challengers,
               ExecuteSlash(amount, c)
        PROVE  FALSE
    BY <2>0, <2>4 DEF ExecuteSlash, FundAccount
  <2>5. CASE UNCHANGED fund \/ LockFund \/ UnlockFund
    BY <2>0, <2>5 DEF LockFund, UnlockFund, FundAccount
  <2>6. ASSUME NEW amount \in RewardAmounts, DepositRewards(amount)
        PROVE  fund'.total_locked_stake >= fund.total_locked_stake
    BY <2>0, <2>6 DEF DepositRewards, FundAccount
  <2>7. ASSUME NEW s \in Stakers, ClaimRewards(s)
        PROVE  fund'.total_locked_stake >= fund.total_locked_stake
    BY <2>0, <2>7 DEF ClaimRewards, FundAccount
  <2>8. (\E s \in Stakers : ApplySlashToStaker(s)) \/ Tick => UNCHANGED fund
    BY DEF ApplySlashToStaker, Tick
  <2> QED
    BY <2>1, <2>2, <2>3, <2>4, <2>5, <2>6, <2>7, <2>8
    DEF Next, StakerNext, AuthorityNext
<1> QED  BY <1>1, TypeCorrect, PTL DEF Spec, LockedStakeStays

\* What happens to one position in one step.
LEMMA NoSilentLossStep ==
  ASSUME SplitInv, Next, NEW s \in Stakers,
         positions[s].amount_staked - positions'[s].amount_staked > 0
  PROVE  \/ vault' = vault - (positions[s].amount_staked
                                - positions'[s].amount_staked)
         \/ ~positions[s].slash_applied /\ positions'[s].slash_applied
              /\ slashes > 0
<1> DEFINE Goal == \/ vault' = vault - (positions[s].amount_staked
                                          - positions'[s].amount_staked)
                   \/ ~positions[s].slash_applied
                        /\ positions'[s].slash_applied /\ slashes > 0
<1>0. /\ positions \in [Stakers -> StakerPosition] /\ U64Max \in Nat
      /\ \A t \in Stakers : positions[t].amount_staked \in U64
      /\ StakeAmounts \subseteq U64 /\ vault \in U64 /\ Operator \in Stakers
  BY StakersAssumption, AmountsAssumption
  DEF SplitInv, TypeOK, StakerPosition
<1>1. ASSUME NEW t \in Stakers, NEW amount \in StakeAmounts,
             NEW validator \in BOOLEAN,
             positions' = [positions EXCEPT
                             ![t] = StakedPosition(t, amount, validator)]
      PROVE  FALSE
  <2>1. StakedPosition(t, amount, validator).amount_staked
          = SatAdd(positions[t].amount_staked, amount, U64Max)
    BY <1>0 DEF StakedPosition, OpenedPosition, StakerPosition
  <2>2. /\ SatAdd(positions[t].amount_staked, amount, U64Max) \in Nat
        /\ SatAdd(positions[t].amount_staked, amount, U64Max)
             >= positions[t].amount_staked
    BY <1>0 DEF SatAdd
  <2>3. positions'[t].amount_staked >= positions[t].amount_staked
    BY <1>0, <1>1, <2>1, <2>2
  <2>4. s # t => positions'[s] = positions[s]
    BY <1>0, <1>1
  <2>5. positions'[t].amount_staked \in Nat
    BY <1>0, <1>1, <2>1, <2>2
  <2> QED  BY <1>0, <2>3, <2>4, <2>5
<1>2. ASSUME NEW t \in Stakers, NEW amount \in WithdrawAmounts(t),
             WithdrawStake(t, amount)
      PROVE  Goal
  <2>1. amount \in Nat /\ amount <= positions[t].amount_staked
    BY <1>0, <1>2 DEF WithdrawStake, CanWithdraw, WithdrawAmounts
  <2>2. t = s /\ positions'[s].amount_staked = positions[s].amount_staked - amount
    BY <1>0, <1>2, <2>1 DEF WithdrawStake, SatSub, StakerPosition
  <2> QED  BY <1>0, <1>2, <2>1, <2>2 DEF WithdrawStake
<1>3. ASSUME NEW t \in Stakers, ApplySlashToStaker(t)
      PROVE  Goal
  <2>1. SlashDue(t) /\ t = s
    BY <1>0, <1>3 DEF ApplySlashToStaker
  <2>2. ~positions[s].slash_applied /\ positions'[s].slash_applied
    BY <1>0, <1>3, <2>1 DEF ApplySlashToStaker, SlashDue, StakerPosition
  <2> QED  BY <2>1, <2>2 DEF SlashDue, SplitInv
<1>4. ASSUME NEW t \in Stakers, ClaimRewards(t)
      PROVE  FALSE
  BY <1>0, <1>4 DEF ClaimRewards, StakerPosition
<1>5. UNCHANGED positions => FALSE
  BY <1>0
<1>6. InitializeFund \/ AuthorityNext \/ Tick => UNCHANGED positions
  BY DEF InitializeFund, AuthorityNext, LockFund, UnlockFund, ExecuteSlash, Tick
<1>7. (\E amount \in RewardAmounts : DepositRewards(amount))
        => UNCHANGED positions
  BY DEF DepositRewards
<1>8. (\E amount \in StakeAmounts : Stake(amount)) => FALSE
  BY <1>0, <1>1 DEF Stake
<1>9. (\E t \in Stakers, amount \in StakeAmounts : CommunityStake(t, amount))
        => FALSE
  BY <1>1 DEF CommunityStake
<1> HIDE DEF Goal
<1>10. Goal
  BY <1>2, <1>3, <1>4, <1>5, <1>6, <1>7, <1>8, <1>9 DEF Next, StakerNext
<1> QED  BY <1>10 DEF Goal

\* A position shrinks only by what the vault pays out in the same step, or by
\* its one slash application.
THEOREM LossCorrect == Spec => NoSilentLoss
<1>1. SplitInv /\ [Next]_vars
        => [\A s \in Stakers :
              LET loss == positions[s].amount_staked
                            - positions'[s].amount_staked
              IN  loss > 0 => \/ vault' = vault - loss
                              \/ /\ ~positions[s].slash_applied
                                 /\ positions'[s].slash_applied
                                 /\ slashes > 0]_vars
  BY NoSilentLossStep
<1>2. Init => SplitInv
  BY SplitInit
<1>3. SplitInv /\ [Next]_vars => SplitInv'
  BY SplitStep
<1> QED  BY <1>1, <1>2, <1>3, PTL DEF Spec, NoSilentLoss

-----------------------------------------------------------------------------
(* Counting lamports                                                        *)

\* The lamports of finitely many stakers are finitely many.
LEMMA LamportsFinite ==
  ASSUME NEW S, IsFiniteSet(S), NEW p, NEW max \in Nat,
         \A s \in S : p[s].amount_staked \in 0..max
  PROVE  IsFiniteSet(Lamports(p, S)) /\ Cardinality(Lamports(p, S)) \in Nat
<1>1. IsFiniteSet(S \X (0..max))
  <2>1. 0 \in Int /\ max \in Int
    OBVIOUS
  <2>2. IsFiniteSet(0..max)
    BY <2>1, FS_Interval
  <2> QED  BY <2>2, FS_Product
<1>2. Lamports(p, S) \in SUBSET (S \X (0..max))
  BY DEF Lamports
<1> QED  BY <1>1, <1>2, FS_Subset, FS_CardinalityType

\* The sum depends on nothing but the stakes of the set.
LEMMA LamportsSame ==
  ASSUME NEW S, NEW p, NEW q,
         \A s \in S : q[s].amount_staked = p[s].amount_staked
  PROVE  Lamports(q, S) = Lamports(p, S)
BY DEF Lamports

\* One stake grows, and the sum by as much.
LEMMA LamportsAdd ==
  ASSUME NEW S, IsFiniteSet(S), NEW p, NEW q, NEW max \in Nat,
         \A t \in S : p[t].amount_staked \in 0..max,
         NEW s \in S, NEW a \in Nat,
         q[s].amount_staked = p[s].amount_staked + a,
         \A t \in S \ {s} : q[t].amount_staked = p[t].amount_staked
  PROVE  Cardinality(Lamports(q, S)) = Cardinality(Lamports(p, S)) + a
<1> DEFINE n == p[s].amount_staked
           old == Lamports(p, S)
           new == {s} \X (n + 1 .. n + a)
<1>1. n \in Nat /\ IsFiniteSet(old) /\ Cardinality(old) \in Nat
  BY LamportsFinite
<1>2. IsFiniteSet(new) /\ Cardinality(new) = a
  <2>1. IsFiniteSet(n + 1 .. n + a) /\ Cardinality(n + 1 .. n + a) = a
    <3>1. n + 1 \in Int /\ n + a \in Int
      BY <1>1
    <3>2. /\ IsFiniteSet(n + 1 .. n + a)
          /\ Cardinality(n + 1 .. n + a)
               = IF n + 1 > n + a THEN 0 ELSE (n + a) - (n + 1) + 1
      BY <3>1, FS_Interval
    <3> QED  BY <1>1, <3>2
  <2>2. IsFiniteSet({s}) /\ Cardinality({s}) = 1
    BY FS_Singleton
  <2>3. /\ IsFiniteSet({s} \X (n + 1 .. n + a))
        /\ Cardinality({s} \X (n + 1 .. n + a))
             = Cardinality({s}) * Cardinality(n + 1 .. n + a)
    BY <2>1, <2>2, FS_Product
  <2> QED  BY <2>1, <2>2, <2>3
<1>3. Lamports(q, S) = old \cup new
  <2>1. ASSUME NEW t \in S
        PROVE  {t} \X (1..q[t].amount_staked)
                 = ({t} \X (1..p[t].amount_staked)) \cup (IF t = s THEN new ELSE {})
    BY <1>1
  <2> QED  BY <2>1 DEF Lamports
<1>4. old \cap new = {}
  BY <1>1 DEF Lamports
<1>5. Cardinality(old \cap new) = 0
  BY <1>4, FS_EmptySet
<1> HIDE DEF n, old, new
<1>6. Cardinality(old \cup new) = Cardinality(old) + a
  <2>1. IsFiniteSet(old) /\ IsFiniteSet(new)
    BY <1>1, <1>2
  <2>2. Cardinality(old \cup new)
          = Cardinality(old) + Cardinality(new) - Cardinality(old \cap new)
    BY ONLY <2>1, FS_Union
  <2> QED  BY <1>1, <1>2, <1>5, <2>2
<1> QED  BY <1>3, <1>6 DEF old

\* No stake is larger than the sum.
LEMMA LamportsCover ==
  ASSUME NEW S, IsFiniteSet(S), NEW p, NEW max \in Nat,
         \A s \in S : p[s].amount_staked \in 0..max,
         NEW s \in S
  PROVE  p[s].amount_staked <= Cardinality(Lamports(p, S))
<1> DEFINE n == p[s].amount_staked
           own == {s} \X (1..n)
<1>1. n \in Nat
  OBVIOUS
<1>2. Cardinality(own) = n
  <2>1. IsFiniteSet(1..n) /\ Cardinality(1..n) = n
    <3>1. 1 \in Int /\ n \in Int
      BY <1>1
    <3>2. IsFiniteSet(1..n) /\ Cardinality(1..n) = IF 1 > n THEN 0 ELSE n - 1 + 1
      BY <3>1, FS_Interval
    <3> QED  BY <1>1, <3>2
  <2>2. IsFiniteSet({s}) /\ Cardinality({s}) = 1
    BY FS_Singleton
  <2>3. Cardinality({s} \X (1..n)) = Cardinality({s}) * Cardinality(1..n)
    BY <2>1, <2>2, FS_Product
  <2> QED  BY <1>1, <2>1, <2>2, <2>3
<1>3. own \in SUBSET Lamports(p, S)
  BY DEF Lamports
<1>4. IsFiniteSet(Lamports(p, S))
  BY LamportsFinite
<1> HIDE DEF own, n
<1>5. Cardinality(own) <= Cardinality(Lamports(p, S))
  BY <1>3, <1>4, FS_Subset
<1> QED  BY <1>2, <1>5 DEF n

\* Of the sums over all stakers, over the operator and over the others, a stake
\* that grows is in the first and in one of the other two.
LEMMA StakeMoves ==
  ASSUME NEW p \in [Stakers -> StakerPosition], NEW q,
         NEW s \in Stakers, NEW a \in Nat,
         q[s].amount_staked = p[s].amount_staked + a,
         \A t \in Stakers \ {s} : q[t].amount_staked = p[t].amount_staked
  PROVE  /\ Cardinality(Lamports(q, Stakers)) = Cardinality(Lamports(p, Stakers)) + a
         /\ Cardinality(Lamports(q, Stakers \cap {Operator}))
              = Cardinality(Lamports(p, Stakers \cap {Operator}))
                  + IF s = Operator THEN a ELSE 0
         /\ Cardinality(Lamports(q, Stakers \ {Operator}))
              = Cardinality(Lamports(p, Stakers \ {Operator}))
                  + IF s = Operator THEN 0 ELSE a
<1>0. /\ IsFiniteSet(Stakers) /\ U64Max \in Nat
      /\ \A t \in Stakers : p[t].amount_staked \in 0..U64Max
  BY StakersAssumption, AmountsAssumption DEF StakerPosition, U64
<1>1. ASSUME NEW S \in SUBSET Stakers
      PROVE  /\ Cardinality(Lamports(q, S))
                  = Cardinality(Lamports(p, S)) + IF s \in S THEN a ELSE 0
  <2>1. IsFiniteSet(S) /\ \A t \in S : p[t].amount_staked \in 0..U64Max
    BY <1>0, FS_Subset
  <2>2. Cardinality(Lamports(p, S)) \in Nat
    BY <1>0, <2>1, LamportsFinite
  <2>3. CASE s \in S
    BY <1>0, <2>1, <2>3, LamportsAdd
  <2>4. CASE s \notin S
    <3>1. Lamports(q, S) = Lamports(p, S)
      BY <2>4, LamportsSame
    <3> QED  BY <2>2, <2>4, <3>1
  <2> QED  BY <2>3, <2>4
<1>2. Stakers \cap {Operator} \in SUBSET Stakers /\ Stakers \ {Operator} \in SUBSET Stakers
  OBVIOUS
<1>3. /\ s \in Stakers \cap {Operator} <=> s = Operator
      /\ s \in Stakers \ {Operator} <=> s # Operator
  OBVIOUS
<1> QED  BY <1>1, <1>2, <1>3

-----------------------------------------------------------------------------
(* The books balance                                                        *)

\* The accounts agree, before initialize_fund and after it.
BooksAgree ==
    /\ fund.total_locked_stake = StakeOf(Stakers)
    /\ fund.validator_stake = StakeOf(Stakers \cap {Operator})
    /\ fund.community_stake = StakeOf(Stakers \ {Operator})
    /\ fund.staker_count <= Cardinality(Funded)
    /\ vault = (IF fund.initialized THEN RentExempt ELSE 0)
                 + fund.total_locked_stake + fund.accumulated_rewards

\* An open position is the operator's or a community one for good, and one that
\* was never opened holds nothing.
RolesAgree ==
    \A s \in Stakers :
      /\ positions[s].opened => (positions[s].is_validator <=> s = Operator)
      /\ ~positions[s].opened => positions[s].amount_staked = 0

\* withdraw_stake takes from the half that is_validator names, so the halves can
\* only agree with the positions where the roles do; and a ratio left behind by a
\* slash would let apply_slash_to_staker change positions the counters know.
BooksInv ==
    /\ TypeOK
    /\ ~fund.initialized => fund = NoFund /\ slashes = 0
    /\ slashes = 0 => BooksAgree /\ RolesAgree /\ fund.last_slash_ratio_bps = 0

LEMMA BooksInit == Init => BooksInv
<1> SUFFICES ASSUME Init PROVE BooksInv
  OBVIOUS
<1>1. TypeOK
  BY TypeInit
<1>2. ASSUME NEW S \in SUBSET Stakers
      PROVE  StakeOf(S) = 0
  <2>1. Lamports(positions, S) = {}
    BY DEF Init, NoPosition, Lamports
  <2> QED  BY <2>1, FS_EmptySet DEF StakeOf
<1>3. Funded = {}
  BY DEF Init, NoPosition, Funded
<1>4. Cardinality(Funded) = 0
  BY <1>3, FS_EmptySet
<1>5. /\ StakeOf(Stakers) = 0 /\ StakeOf(Stakers \cap {Operator}) = 0
      /\ StakeOf(Stakers \ {Operator}) = 0
  BY <1>2
<1>6. BooksAgree
  BY <1>4, <1>5 DEF Init, NoFund, BooksAgree
<1>7. RolesAgree
  BY DEF Init, NoPosition, RolesAgree
<1> QED  BY <1>1, <1>6, <1>7 DEF Init, NoFund, BooksInv

\* Below the cap no u64 saturates.
LEMMA CapFits == StakeCap <= U64Max
<1>1. StakeCap \in Nat /\ U64Max \in Nat /\ BpsDenominator \in Nat \ {0}
  BY BoundsAssumption, AmountsAssumption, BpsAssumption
<1>2. StakeCap <= StakeCap * BpsDenominator
  BY <1>1
<1> QED  BY <1>1, <1>2, BoundsAssumption

\* No position holds more than the total.
LEMMA StakeWithinTotal ==
  ASSUME BooksInv, slashes = 0, NEW s \in Stakers
  PROVE  /\ positions[s].amount_staked \in U64
         /\ positions[s].amount_staked <= fund.total_locked_stake
<1>1. /\ IsFiniteSet(Stakers) /\ U64Max \in Nat
      /\ \A t \in Stakers : positions[t].amount_staked \in 0..U64Max
  BY StakersAssumption, AmountsAssumption DEF BooksInv, TypeOK, StakerPosition, U64
<1>2. positions[s].amount_staked <= Cardinality(Lamports(positions, Stakers))
  BY <1>1, LamportsCover
<1> QED  BY <1>1, <1>2 DEF BooksInv, BooksAgree, StakeOf, U64

\* stake and community_stake, on the position they are about.
LEMMA StakedExactly ==
  ASSUME BooksInv, slashes = 0, NEW s \in Stakers, NEW amount \in StakeAmounts,
         CanStake(amount),
         positions' = [positions EXCEPT
                         ![s] = StakedPosition(s, amount, s = Operator)]
  PROVE  /\ amount \in Nat \ {0}
         /\ positions'[s].amount_staked = positions[s].amount_staked + amount
         /\ positions'[s].opened
         /\ positions'[s].is_validator <=> s = Operator
         /\ \A t \in Stakers \ {s} : positions'[t] = positions[t]
<1>0. /\ positions \in [Stakers -> StakerPosition] /\ U64Max \in Nat
      /\ amount \in Nat /\ MinStakeLamports \in Nat \ {0} /\ StakeCap \in Nat
      /\ fund.total_locked_stake \in Nat
  BY AmountsAssumption, BoundsAssumption DEF BooksInv, TypeOK, FundAccount, U64
<1>1. amount \in Nat \ {0}
  BY <1>0 DEF CanStake
<1>2. /\ positions[s] \in StakerPosition
      /\ positions[s].amount_staked \in Nat
      /\ positions[s].amount_staked + amount <= U64Max
  BY <1>0, StakeWithinTotal, CapFits DEF CanStake, WithinCap, U64
<1>3. positions'[s] = StakedPosition(s, amount, s = Operator)
  BY <1>0
<1>4. OpenedPosition(s, s = Operator) \in StakerPosition
  <2>1. now \in Nat /\ (s = Operator) \in BOOLEAN
    BY BoundsAssumption DEF BooksInv, TypeOK
  <2> QED  BY <1>2, <2>1 DEF OpenedPosition, StakerPosition
<1>5. /\ OpenedPosition(s, s = Operator).amount_staked = positions[s].amount_staked
      /\ OpenedPosition(s, s = Operator).opened
      /\ OpenedPosition(s, s = Operator).is_validator <=> s = Operator
  BY <1>2 DEF OpenedPosition, StakerPosition, BooksInv, RolesAgree
<1>6. /\ positions'[s].amount_staked
           = SatAdd(positions[s].amount_staked, amount, U64Max)
      /\ positions'[s].opened
      /\ positions'[s].is_validator <=> s = Operator
  BY <1>3, <1>4, <1>5 DEF StakedPosition, StakerPosition
<1>7. SatAdd(positions[s].amount_staked, amount, U64Max)
        = positions[s].amount_staked + amount
  BY <1>0, <1>2 DEF SatAdd
<1> QED  BY <1>0, <1>1, <1>6, <1>7

\* The staker counter never exceeds the funded positions when one is funded.
LEMMA FundedGrows ==
  ASSUME BooksInv, slashes = 0, NEW s \in Stakers,
         positions'[s].amount_staked \in Nat \ {0},
         \A t \in Stakers \ {s} : positions'[t] = positions[t]
  PROVE  StakerCountAfterStake(s) <= Cardinality(Funded')
<1>0. /\ positions[s].amount_staked \in Nat /\ fund.staker_count \in Nat
      /\ U16Max \in Nat /\ fund.staker_count <= Cardinality(Funded)
  BY AmountsAssumption DEF BooksInv, BooksAgree, TypeOK, FundAccount, StakerPosition, U64
<1>1. IsFiniteSet(Funded) /\ Cardinality(Funded) \in Nat
  BY StakersAssumption, FS_Subset, FS_CardinalityType DEF Funded
<1>2. Funded' = Funded \cup {s}
  BY DEF Funded
<1>3. Cardinality(Funded')
        = IF s \in Funded THEN Cardinality(Funded) ELSE Cardinality(Funded) + 1
  BY <1>1, <1>2, FS_AddElement
<1>4. s \in Funded <=> positions[s].amount_staked # 0
  BY <1>0 DEF Funded
<1> QED  BY <1>0, <1>1, <1>3, <1>4 DEF StakerCountAfterStake, SatAdd

\* withdraw_stake counts a staker out when its position is emptied, and also
\* when it was empty: the counter may fall short of the funded positions.
LEMMA FundedShrinks ==
  ASSUME BooksInv, slashes = 0, NEW s \in Stakers, NEW amount \in Nat,
         amount <= positions[s].amount_staked,
         positions'[s].amount_staked = positions[s].amount_staked - amount,
         \A t \in Stakers \ {s} : positions'[t] = positions[t]
  PROVE  (IF positions[s].amount_staked = amount
          THEN SatSub(fund.staker_count, 1) ELSE fund.staker_count)
           <= Cardinality(Funded')
<1>0. /\ positions[s].amount_staked \in Nat /\ fund.staker_count \in Nat
      /\ fund.staker_count <= Cardinality(Funded)
  BY AmountsAssumption DEF BooksInv, BooksAgree, TypeOK, FundAccount, StakerPosition, U64
<1>1. IsFiniteSet(Funded) /\ Cardinality(Funded) \in Nat
  BY StakersAssumption, FS_Subset, FS_CardinalityType DEF Funded
<1>2. CASE positions[s].amount_staked = amount
  <2>1. Funded' = Funded \ {s}
    BY <1>0, <1>2 DEF Funded
  <2>2. Cardinality(Funded')
          = IF s \in Funded THEN Cardinality(Funded) - 1 ELSE Cardinality(Funded)
    BY <1>1, <2>1, FS_RemoveElement
  <2>3. IsFiniteSet(Funded')
    BY <1>1, <2>1, FS_RemoveElement
  <2>4. Cardinality(Funded') \in Nat
    BY <2>3, FS_CardinalityType
  <2> QED  BY <1>0, <1>1, <1>2, <2>2, <2>4 DEF SatSub
<1>3. CASE positions[s].amount_staked # amount
  <2>1. Funded' = Funded
    BY <1>0, <1>3 DEF Funded
  <2> QED  BY <1>0, <1>3, <2>1
<1> QED  BY <1>2, <1>3

\* The sums are numbers.
LEMMA SumsType ==
  ASSUME TypeOK
  PROVE  /\ StakeOf(Stakers) \in Nat
         /\ StakeOf(Stakers \cap {Operator}) \in Nat
         /\ StakeOf(Stakers \ {Operator}) \in Nat
<1>1. U64Max \in Nat
  BY AmountsAssumption
<1>2. ASSUME NEW S \in SUBSET Stakers
      PROVE  StakeOf(S) \in Nat
  <2>1. IsFiniteSet(S) /\ \A t \in S : positions[t].amount_staked \in 0..U64Max
    BY StakersAssumption, FS_Subset DEF TypeOK, StakerPosition, U64
  <2> QED  BY <1>1, <2>1, LamportsFinite DEF StakeOf
<1> QED  BY <1>2

\* A step may move lamports between the pot and the outside: the books balance
\* as long as it touches no position and no other counter.
LEMMA PotBalances ==
  ASSUME BooksInv, TypeOK', fund.initialized, UNCHANGED <<positions, slashes>>,
         fund'.initialized,
         fund'.total_locked_stake = fund.total_locked_stake,
         fund'.validator_stake = fund.validator_stake,
         fund'.community_stake = fund.community_stake,
         fund'.staker_count = fund.staker_count,
         fund'.last_slash_ratio_bps = fund.last_slash_ratio_bps,
         vault' - fund'.accumulated_rewards = vault - fund.accumulated_rewards
  PROVE  BooksInv'
<1>0. /\ fund \in FundAccount /\ vault \in U64 /\ U64Max \in Nat
      /\ fund' \in FundAccount /\ vault' \in U64 /\ RentExempt \in Nat
  BY AmountsAssumption DEF BooksInv, TypeOK
<1>1. /\ StakeOf(Stakers)' = StakeOf(Stakers)
      /\ StakeOf(Stakers \cap {Operator})' = StakeOf(Stakers \cap {Operator})
      /\ StakeOf(Stakers \ {Operator})' = StakeOf(Stakers \ {Operator})
      /\ Funded' = Funded
  BY DEF StakeOf, Funded
<1>2. slashes = 0 => BooksAgree'
  BY <1>0, <1>1 DEF BooksInv, BooksAgree, FundAccount, U64
<1> QED  BY <1>2 DEF BooksInv, RolesAgree

\* A claim never takes more than the pot: a position is part of the total.
LEMMA RewardWithinPot ==
  ASSUME BooksInv, slashes = 0, NEW s \in Stakers, fund.total_locked_stake > 0
  PROVE  RewardOf(s) \in Nat /\ RewardOf(s) <= fund.accumulated_rewards
<1> DEFINE n == positions[s].amount_staked
           pot == fund.accumulated_rewards
           total == fund.total_locked_stake
<1>1. /\ n \in Nat /\ n <= total /\ total \in Nat \ {0} /\ pot \in Nat
      /\ pot <= U64Max /\ U64Max \in Nat
  BY StakeWithinTotal, AmountsAssumption DEF BooksInv, TypeOK, FundAccount, U64
<1> HIDE DEF n, pot, total
<1>2. n * pot \in Nat /\ n * pot <= total * pot
  BY <1>1
<1>3. (n * pot) \div total \in Nat /\ (n * pot) \div total <= pot
  BY <1>1, <1>2
<1>4. ((n * pot) \div total) % (U64Max + 1) = (n * pot) \div total
  BY <1>1, <1>3
<1> QED  BY <1>3, <1>4 DEF RewardOf, n, pot, total

\* A stake moves lamports from a wallet into the vault.
LEMMA StakeBalances ==
  ASSUME BooksInv, TypeOK', slashes = 0, slashes' = slashes, fund.initialized,
         NEW s \in Stakers, NEW amount \in StakeAmounts, CanStake(amount),
         positions' = [positions EXCEPT
                         ![s] = StakedPosition(s, amount, s = Operator)],
         vault' = vault + amount,
         fund'.initialized,
         fund'.total_locked_stake
           = SatAdd(fund.total_locked_stake, amount, U64Max),
         fund'.validator_stake
           = IF s = Operator THEN SatAdd(fund.validator_stake, amount, U64Max)
                             ELSE fund.validator_stake,
         fund'.community_stake
           = IF s = Operator THEN fund.community_stake
                             ELSE SatAdd(fund.community_stake, amount, U64Max),
         fund'.staker_count = StakerCountAfterStake(s),
         fund'.accumulated_rewards = fund.accumulated_rewards,
         fund'.last_slash_ratio_bps = fund.last_slash_ratio_bps
  PROVE  BooksInv'
<1>0. /\ fund \in FundAccount /\ vault \in U64 /\ U64Max \in Nat /\ StakeCap \in Nat
      /\ RentExempt \in Nat /\ StakeCap <= U64Max
      /\ positions \in [Stakers -> StakerPosition]
  BY AmountsAssumption, BoundsAssumption, CapFits DEF BooksInv, TypeOK
<1>1. /\ amount \in Nat \ {0}
      /\ positions'[s].amount_staked = positions[s].amount_staked + amount
      /\ positions'[s].opened
      /\ positions'[s].is_validator <=> s = Operator
      /\ \A t \in Stakers \ {s} : positions'[t] = positions[t]
  BY StakedExactly
<1>2. /\ StakeOf(Stakers)' = StakeOf(Stakers) + amount
      /\ StakeOf(Stakers \cap {Operator})'
           = StakeOf(Stakers \cap {Operator}) + IF s = Operator THEN amount ELSE 0
      /\ StakeOf(Stakers \ {Operator})'
           = StakeOf(Stakers \ {Operator}) + IF s = Operator THEN 0 ELSE amount
  <2>1. /\ positions \in [Stakers -> StakerPosition] /\ s \in Stakers /\ amount \in Nat
        /\ positions'[s].amount_staked = positions[s].amount_staked + amount
        /\ \A t \in Stakers \ {s} : positions'[t].amount_staked = positions[t].amount_staked
    BY <1>0, <1>1
  <2>2. /\ Cardinality(Lamports(positions', Stakers))
            = Cardinality(Lamports(positions, Stakers)) + amount
        /\ Cardinality(Lamports(positions', Stakers \cap {Operator}))
            = Cardinality(Lamports(positions, Stakers \cap {Operator}))
                + IF s = Operator THEN amount ELSE 0
        /\ Cardinality(Lamports(positions', Stakers \ {Operator}))
            = Cardinality(Lamports(positions, Stakers \ {Operator}))
                + IF s = Operator THEN 0 ELSE amount
    BY ONLY <2>1, StakeMoves
  <2> QED  BY <2>2 DEF StakeOf
<1>3. /\ StakeOf(Stakers) \in Nat
      /\ StakeOf(Stakers \cap {Operator}) \in Nat
      /\ StakeOf(Stakers \ {Operator}) \in Nat
  BY SumsType DEF BooksInv
<1>4. /\ fund'.total_locked_stake = fund.total_locked_stake + amount
      /\ fund'.validator_stake
           = fund.validator_stake + IF s = Operator THEN amount ELSE 0
      /\ fund'.community_stake
           = fund.community_stake + IF s = Operator THEN 0 ELSE amount
  BY <1>0, <1>1 DEF CanStake, WithinCap, SatAdd, FundAccount, U64
<1>5. fund'.staker_count <= Cardinality(Funded')
  <2>1. positions[s].amount_staked \in Nat
    BY <1>0 DEF StakerPosition, U64
  <2> QED  BY <1>1, <2>1, FundedGrows
<1>6. BooksAgree'
  <2>1. /\ fund.total_locked_stake = StakeOf(Stakers)
        /\ fund.validator_stake = StakeOf(Stakers \cap {Operator})
        /\ fund.community_stake = StakeOf(Stakers \ {Operator})
        /\ vault = RentExempt + fund.total_locked_stake + fund.accumulated_rewards
        /\ fund.accumulated_rewards \in Nat
    BY <1>0 DEF BooksInv, BooksAgree, FundAccount, U64
  <2>2. /\ fund'.total_locked_stake = StakeOf(Stakers)'
        /\ fund'.validator_stake = StakeOf(Stakers \cap {Operator})'
        /\ fund'.community_stake = StakeOf(Stakers \ {Operator})'
    BY <1>2, <1>4, <2>1
  <2>3. vault' = RentExempt + fund'.total_locked_stake + fund'.accumulated_rewards
    BY <1>0, <1>1, <1>3, <1>4, <2>1
  <2> QED  BY <1>5, <2>2, <2>3 DEF BooksAgree
<1>7. RolesAgree'
  BY <1>1 DEF BooksInv, RolesAgree
<1> QED  BY <1>6, <1>7 DEF BooksInv

\* A withdrawal moves lamports from the vault to a wallet.
LEMMA WithdrawBalances ==
  ASSUME BooksInv, TypeOK', slashes = 0, NEW s \in Stakers,
         NEW amount \in WithdrawAmounts(s), WithdrawStake(s, amount)
  PROVE  BooksInv'
<1>0. /\ fund \in FundAccount /\ vault \in U64 /\ U64Max \in Nat
      /\ RentExempt \in Nat /\ positions \in [Stakers -> StakerPosition]
      /\ fund.initialized /\ slashes' = slashes /\ vault' = vault - amount
      /\ positions'[s] \in StakerPosition
      /\ positions' \in [Stakers -> StakerPosition]
  BY AmountsAssumption DEF BooksInv, TypeOK, WithdrawStake, CanWithdraw
<1>1. /\ amount \in Nat /\ amount <= positions[s].amount_staked
      /\ positions[s].amount_staked \in Nat /\ positions[s].opened
  BY <1>0, AmountsAssumption
  DEF WithdrawStake, CanWithdraw, WithdrawAmounts, StakerPosition, U64
<1>2. /\ positions'[s] = [positions[s] EXCEPT !.amount_staked = SatSub(@, amount)]
      /\ \A t \in Stakers \ {s} : positions'[t] = positions[t]
  BY <1>0 DEF WithdrawStake
<1>3. /\ positions'[s].amount_staked = positions[s].amount_staked - amount
      /\ positions'[s].opened = positions[s].opened
      /\ positions'[s].is_validator = positions[s].is_validator
  <2>1. positions[s] \in StakerPosition
    BY <1>0
  <2>2. SatSub(positions[s].amount_staked, amount) = positions[s].amount_staked - amount
    BY <1>1 DEF SatSub
  <2> QED  BY <1>2, <2>1, <2>2 DEF StakerPosition
<1>4. /\ StakeOf(Stakers) = StakeOf(Stakers)' + amount
      /\ StakeOf(Stakers \cap {Operator})
           = StakeOf(Stakers \cap {Operator})' + IF s = Operator THEN amount ELSE 0
      /\ StakeOf(Stakers \ {Operator})
           = StakeOf(Stakers \ {Operator})' + IF s = Operator THEN 0 ELSE amount
  <2>1. /\ positions[s].amount_staked = positions'[s].amount_staked + amount
        /\ \A t \in Stakers \ {s} :
             positions[t].amount_staked = positions'[t].amount_staked
    BY <1>1, <1>2, <1>3
  <2>2. /\ positions' \in [Stakers -> StakerPosition] /\ s \in Stakers
        /\ amount \in Nat
    BY <1>0, <1>1
  <2>3. /\ Cardinality(Lamports(positions, Stakers))
            = Cardinality(Lamports(positions', Stakers)) + amount
        /\ Cardinality(Lamports(positions, Stakers \cap {Operator}))
            = Cardinality(Lamports(positions', Stakers \cap {Operator}))
                + IF s = Operator THEN amount ELSE 0
        /\ Cardinality(Lamports(positions, Stakers \ {Operator}))
            = Cardinality(Lamports(positions', Stakers \ {Operator}))
                + IF s = Operator THEN 0 ELSE amount
    BY ONLY <2>1, <2>2, StakeMoves
  <2> QED  BY <2>3 DEF StakeOf
<1>5. /\ StakeOf(Stakers)' \in Nat
      /\ StakeOf(Stakers \cap {Operator})' \in Nat
      /\ StakeOf(Stakers \ {Operator})' \in Nat
  <2>1. ASSUME NEW S \in SUBSET Stakers
        PROVE  StakeOf(S)' \in Nat
    <3>1. IsFiniteSet(S) /\ \A t \in S : positions'[t].amount_staked \in 0..U64Max
      BY <1>0, StakersAssumption, FS_Subset DEF StakerPosition, U64
    <3> QED  BY <1>0, <3>1, LamportsFinite DEF StakeOf
  <2> QED  BY <2>1
<1>6. positions[s].is_validator <=> s = Operator
  BY <1>1 DEF BooksInv, RolesAgree
<1>7. /\ fund'.initialized
      /\ fund'.total_locked_stake = SatSub(fund.total_locked_stake, amount)
      /\ fund'.validator_stake = IF s = Operator THEN SatSub(fund.validator_stake, amount)
                                                 ELSE fund.validator_stake
      /\ fund'.community_stake = IF s = Operator THEN fund.community_stake
                                                 ELSE SatSub(fund.community_stake, amount)
      /\ fund'.staker_count = IF positions[s].amount_staked = amount
                              THEN SatSub(fund.staker_count, 1) ELSE fund.staker_count
      /\ fund'.accumulated_rewards = fund.accumulated_rewards
      /\ fund'.last_slash_ratio_bps = fund.last_slash_ratio_bps
  BY <1>0, <1>6 DEF WithdrawStake, FundAfterWithdraw, FundAccount
<1>8. fund'.staker_count <= Cardinality(Funded')
  BY <1>1, <1>2, <1>3, <1>7, FundedShrinks
<1>9. /\ fund.total_locked_stake = StakeOf(Stakers)
      /\ fund.validator_stake = StakeOf(Stakers \cap {Operator})
      /\ fund.community_stake = StakeOf(Stakers \ {Operator})
      /\ vault = RentExempt + fund.total_locked_stake + fund.accumulated_rewards
  BY <1>0 DEF BooksInv, BooksAgree
<1>10. /\ fund'.total_locked_stake = StakeOf(Stakers)'
       /\ fund'.validator_stake = StakeOf(Stakers \cap {Operator})'
       /\ fund'.community_stake = StakeOf(Stakers \ {Operator})'
  BY <1>1, <1>4, <1>5, <1>7, <1>9 DEF SatSub
<1>11. BooksAgree'
  BY <1>0, <1>1, <1>4, <1>5, <1>7, <1>8, <1>9, <1>10 DEF BooksAgree, FundAccount, U64
<1>12. RolesAgree'
  BY <1>1, <1>2, <1>3 DEF BooksInv, RolesAgree
<1> QED  BY <1>0, <1>7, <1>11, <1>12 DEF BooksInv

\* Once a slash has been executed the invariant says nothing more.
LEMMA BooksStep == BooksInv /\ [Next]_vars => BooksInv'
<1> SUFFICES ASSUME BooksInv, [Next]_vars PROVE BooksInv'
  OBVIOUS
<1>0. /\ TypeOK /\ TypeOK' /\ fund \in FundAccount /\ vault \in U64
      /\ U64Max \in Nat /\ RentExempt \in Nat /\ slashes \in Nat
      /\ positions \in [Stakers -> StakerPosition]
      /\ StakeAmounts \subseteq U64 /\ RewardAmounts \subseteq U64
      /\ RewardCap \in U64 /\ Operator \in Stakers
  BY TypeStep, AmountsAssumption, BoundsAssumption, StakersAssumption
  DEF BooksInv, TypeOK
<1>1. CASE InitializeFund
  <2>1. /\ fund' = [NoFund EXCEPT !.initialized = TRUE] /\ fund = NoFund
        /\ vault' = RentExempt /\ UNCHANGED <<positions, slashes>> /\ slashes = 0
    BY <1>1 DEF InitializeFund, BooksInv
  <2>2. /\ StakeOf(Stakers)' = StakeOf(Stakers)
        /\ StakeOf(Stakers \cap {Operator})' = StakeOf(Stakers \cap {Operator})
        /\ StakeOf(Stakers \ {Operator})' = StakeOf(Stakers \ {Operator})
        /\ Funded' = Funded
    BY <2>1 DEF StakeOf, Funded
  <2>3. BooksAgree'
    BY <1>0, <2>1, <2>2 DEF BooksInv, BooksAgree, NoFund
  <2> QED  BY <1>0, <2>1, <2>3 DEF BooksInv, RolesAgree, NoFund
<1>2. ASSUME slashes # 0
      PROVE  BooksInv'
  <2>1. fund.initialized
    BY <1>2 DEF BooksInv
  <2>2. slashes' # 0
    <3>1. CASE \E a \in SlashAmounts, c \in Challengers : ExecuteSlash(a, c)
      BY <1>0, <3>1 DEF ExecuteSlash
    <3>2. CASE ~ \E a \in SlashAmounts, c \in Challengers : ExecuteSlash(a, c)
      <4>1. slashes' = slashes
        BY <3>2
        DEF Next, StakerNext, AuthorityNext, InitializeFund, Stake, CommunityStake,
            WithdrawStake, DepositRewards, ClaimRewards, ApplySlashToStaker,
            LockFund, UnlockFund, Tick, vars
      <4> QED  BY <1>2, <4>1
    <3> QED  BY <3>1, <3>2
  <2>3. fund'.initialized
    BY <1>0, <2>1
    DEF Next, StakerNext, AuthorityNext, InitializeFund, Stake, CommunityStake,
        WithdrawStake, FundAfterWithdraw, DepositRewards, ClaimRewards,
        ApplySlashToStaker, LockFund, UnlockFund, ExecuteSlash, Tick, vars, FundAccount
  <2> QED  BY <1>0, <2>2, <2>3 DEF BooksInv
<1>3. ASSUME slashes = 0, NEW amount \in StakeAmounts, Stake(amount)
      PROVE  BooksInv'
  <2>1. /\ fund' = [fund EXCEPT
                      !.validator_stake = SatAdd(@, amount, U64Max),
                      !.total_locked_stake = SatAdd(@, amount, U64Max),
                      !.staker_count = StakerCountAfterStake(Operator)]
        /\ positions' = [positions EXCEPT
                           ![Operator] = StakedPosition(Operator, amount, TRUE)]
        /\ vault' = vault + amount /\ slashes' = slashes /\ CanStake(amount)
        /\ fund.initialized
    BY <1>3 DEF Stake, CanStake
  <2>2. TRUE = (Operator = Operator)
    OBVIOUS
  <2>3. positions' = [positions EXCEPT
                        ![Operator] = StakedPosition(Operator, amount, Operator = Operator)]
    BY <2>1, <2>2
  <2> QED  BY <1>0, <1>3, <2>1, <2>3, StakeBalances DEF FundAccount
<1>4. ASSUME slashes = 0, NEW s \in Stakers, NEW amount \in StakeAmounts,
             CommunityStake(s, amount)
      PROVE  BooksInv'
  <2>1. /\ fund' = [fund EXCEPT
                      !.community_stake = SatAdd(@, amount, U64Max),
                      !.total_locked_stake = SatAdd(@, amount, U64Max),
                      !.staker_count = StakerCountAfterStake(s)]
        /\ positions' = [positions EXCEPT ![s] = StakedPosition(s, amount, FALSE)]
        /\ vault' = vault + amount /\ slashes' = slashes /\ CanStake(amount)
        /\ fund.initialized /\ s # Operator
    BY <1>4 DEF CommunityStake, CanStake
  <2>2. FALSE = (s = Operator)
    BY <2>1
  <2>3. positions' = [positions EXCEPT ![s] = StakedPosition(s, amount, s = Operator)]
    BY <2>1, <2>2
  <2> QED  BY <1>0, <1>4, <2>1, <2>3, StakeBalances DEF FundAccount
<1>5. ASSUME slashes = 0, NEW s \in Stakers, NEW amount \in WithdrawAmounts(s),
             WithdrawStake(s, amount)
      PROVE  BooksInv'
  BY <1>0, <1>5, WithdrawBalances
<1>6. ASSUME NEW amount \in RewardAmounts, DepositRewards(amount)
      PROVE  BooksInv'
  <2>1. /\ fund' = [fund EXCEPT
                      !.accumulated_rewards = SatAdd(@, amount, U64Max)]
        /\ vault' = vault + amount /\ UNCHANGED <<positions, slashes>>
        /\ fund.accumulated_rewards + amount <= RewardCap /\ fund.initialized
    BY <1>6 DEF DepositRewards
  <2>2. SatAdd(fund.accumulated_rewards, amount, U64Max)
          = fund.accumulated_rewards + amount
    BY <1>0, <2>1 DEF SatAdd, FundAccount, U64
  <2> QED  BY <1>0, <2>1, <2>2, PotBalances DEF FundAccount, U64
<1>7. ASSUME slashes = 0, NEW s \in Stakers, ClaimRewards(s)
      PROVE  BooksInv'
  <2>1. /\ fund' = [fund EXCEPT !.accumulated_rewards = SatSub(@, RewardOf(s))]
        /\ positions' = [positions EXCEPT ![s].last_claim_ts = now]
        /\ vault' = vault - RewardOf(s) /\ slashes' = slashes /\ fund.initialized
        /\ fund.total_locked_stake > 0
    BY <1>7 DEF ClaimRewards, CanClaim
  <2>2. RewardOf(s) \in Nat /\ RewardOf(s) <= fund.accumulated_rewards
    BY <1>7, <2>1, RewardWithinPot
  <2>3. SatSub(fund.accumulated_rewards, RewardOf(s))
          = fund.accumulated_rewards - RewardOf(s)
    BY <1>0, <2>2 DEF SatSub, FundAccount, U64
  <2>4. \A t \in Stakers :
          /\ positions'[t].amount_staked = positions[t].amount_staked
          /\ positions'[t].opened = positions[t].opened
          /\ positions'[t].is_validator = positions[t].is_validator
    BY <1>0, <2>1 DEF StakerPosition
  <2>5. \A S \in SUBSET Stakers : StakeOf(S)' = StakeOf(S)
    BY <2>4, LamportsSame DEF StakeOf
  <2>6. Funded' = Funded
    BY <2>4 DEF Funded
  <2>7. /\ StakeOf(Stakers)' = StakeOf(Stakers)
        /\ StakeOf(Stakers \cap {Operator})' = StakeOf(Stakers \cap {Operator})
        /\ StakeOf(Stakers \ {Operator})' = StakeOf(Stakers \ {Operator})
    BY <2>5
  <2>8. /\ fund'.accumulated_rewards = fund.accumulated_rewards - RewardOf(s)
        /\ fund'.initialized
        /\ fund'.total_locked_stake = fund.total_locked_stake
        /\ fund'.validator_stake = fund.validator_stake
        /\ fund'.community_stake = fund.community_stake
        /\ fund'.staker_count = fund.staker_count
        /\ fund'.last_slash_ratio_bps = fund.last_slash_ratio_bps
    BY <1>0, <2>1, <2>3 DEF FundAccount
  <2>9. BooksAgree'
    BY <1>0, <1>7, <2>1, <2>2, <2>6, <2>7, <2>8 DEF BooksInv, BooksAgree, FundAccount, U64
  <2>10. RolesAgree'
    BY <1>7, <2>4 DEF BooksInv, RolesAgree
  <2> QED  BY <1>0, <1>7, <2>1, <2>8, <2>9, <2>10 DEF BooksInv
<1>8. ASSUME slashes = 0, NEW s \in Stakers, ApplySlashToStaker(s)
      PROVE  BooksInv'
  <2>1. UNCHANGED <<fund, positions, vault, slashes>> /\ fund.initialized
    BY <1>8 DEF ApplySlashToStaker, SlashDue, BooksInv
  <2> QED  BY <1>0, <2>1, PotBalances DEF FundAccount, U64
<1>9. CASE LockFund \/ UnlockFund
  <2>1. /\ UNCHANGED <<positions, vault, slashes>> /\ fund.initialized
        /\ \E b \in BOOLEAN : fund' = [fund EXCEPT !.challenge_active = b]
    BY <1>9 DEF LockFund, UnlockFund
  <2> QED  BY <1>0, <2>1, PotBalances DEF FundAccount, U64
<1>10. ASSUME NEW amount \in SlashAmounts, NEW c \in Challengers,
              ExecuteSlash(amount, c)
       PROVE  BooksInv'
  BY <1>0, <1>10 DEF ExecuteSlash, BooksInv, FundAccount
<1>11. CASE Tick \/ UNCHANGED vars
  BY <1>0, <1>11
  DEF Tick, vars, BooksInv, BooksAgree, RolesAgree, StakeOf, Funded
<1> QED
  BY <1>1, <1>2, <1>3, <1>4, <1>5, <1>6, <1>7, <1>8, <1>9, <1>10, <1>11
  DEF Next, StakerNext, AuthorityNext

\* Until the first slash, whatever is staked, withdrawn, deposited and claimed by
\* however many stakers: the counters are the sums of the positions, and the vault
\* holds them and the rewards to the lamport.
THEOREM BooksCorrect == Spec => []BooksBalance
<1>1. BooksInv => BooksBalance
  BY DEF BooksInv, BooksAgree, BooksBalance
<1> QED  BY <1>1, BooksInit, BooksStep, PTL DEF Spec

\* The vault as initialize_fund creates it belongs to the program, and then no
\* instruction ever takes a lamport out of it: stake and rewards that went in stay,
\* whatever is withdrawn, claimed or slashed.
THEOREM NothingLeavesTheVault ==
  ASSUME ~VaultSystemOwned
  PROVE  Spec => [][fund.initialized => vault' >= vault]_vars
<1>1. TypeOK /\ [Next]_vars => [fund.initialized => vault' >= vault]_vars
  <2> SUFFICES ASSUME TypeOK, Next, fund.initialized PROVE vault' >= vault
    OBVIOUS
  <2>0. vault \in Nat /\ StakeAmounts \subseteq Nat /\ RewardAmounts \subseteq Nat
    BY AmountsAssumption DEF TypeOK
  <2>1. ASSUME NEW s \in Stakers, NEW amount \in WithdrawAmounts(s),
               WithdrawStake(s, amount)
        PROVE  vault' >= vault
    BY <2>0, <2>1 DEF WithdrawStake, CanWithdraw, CanDebit
  <2>2. ASSUME NEW s \in Stakers, ClaimRewards(s)
        PROVE  vault' >= vault
    <3>1. RewardOf(s) = 0
      BY <2>2 DEF ClaimRewards, CanClaim, CanDebit
    <3> QED  BY <2>0, <2>2, <3>1 DEF ClaimRewards
  <2>3. ASSUME NEW amount \in Nat, vault' = vault + amount
        PROVE  vault' >= vault
    BY <2>0, <2>3
  <2>4. (\E amount \in StakeAmounts : Stake(amount)) => vault' >= vault
    BY <2>0, <2>3 DEF Stake
  <2>5. (\E s \in Stakers, amount \in StakeAmounts : CommunityStake(s, amount))
          => vault' >= vault
    BY <2>0, <2>3 DEF CommunityStake
  <2>6. (\E amount \in RewardAmounts : DepositRewards(amount)) => vault' >= vault
    BY <2>0, <2>3 DEF DepositRewards
  <2>7. ~InitializeFund
    BY DEF InitializeFund
  <2>8. \/ \E s \in Stakers : ApplySlashToStaker(s)
        \/ AuthorityNext \/ Tick
        => vault' = vault
    BY DEF ApplySlashToStaker, AuthorityNext, LockFund, UnlockFund, ExecuteSlash, Tick
  <2> QED
    BY <2>0, <2>1, <2>2, <2>4, <2>5, <2>6, <2>7, <2>8 DEF Next, StakerNext
<1> QED  BY <1>1, TypeCorrect, PTL DEF Spec

-----------------------------------------------------------------------------
(* The vault stays solvent                                                  *)

\* Solvent is not inductive alone: initialize_fund must find no stake.
SolventInv ==
    /\ TypeOK
    /\ ~fund.initialized => \A s \in Stakers : positions[s].amount_staked = 0
    /\ Solvent

\* One position loses stake, and the sum loses as much.
LEMMA StakeShrinks ==
  ASSUME TypeOK, TypeOK', NEW s \in Stakers, NEW a \in Nat,
         positions[s].amount_staked = positions'[s].amount_staked + a,
         \A t \in Stakers \ {s} : positions'[t].amount_staked = positions[t].amount_staked
  PROVE  StakeOf(Stakers)' = StakeOf(Stakers) - a
<1>1. /\ positions' \in [Stakers -> StakerPosition]
      /\ \A t \in Stakers \ {s} : positions[t].amount_staked = positions'[t].amount_staked
  BY DEF TypeOK
<1>2. Cardinality(Lamports(positions, Stakers))
        = Cardinality(Lamports(positions', Stakers)) + a
  <2>1. positions[s].amount_staked = positions'[s].amount_staked + a
    OBVIOUS
  <2> QED  BY ONLY <1>1, <2>1, StakeMoves
<1>3. IsFiniteSet(Stakers) /\ \A t \in Stakers : positions'[t].amount_staked \in 0..U64Max
  BY <1>1, StakersAssumption DEF StakerPosition
<1>4. U64Max \in Nat
  BY AmountsAssumption
<1>5. Cardinality(Lamports(positions', Stakers)) \in Nat
  BY <1>3, <1>4, LamportsFinite
<1> QED  BY <1>2, <1>5 DEF StakeOf

\* One position gains stake, and the sum gains as much.
LEMMA StakeGrows ==
  ASSUME TypeOK, NEW s \in Stakers, NEW a \in Nat,
         positions'[s].amount_staked = positions[s].amount_staked + a,
         \A t \in Stakers \ {s} : positions'[t].amount_staked = positions[t].amount_staked
  PROVE  StakeOf(Stakers)' = StakeOf(Stakers) + a
<1>1. /\ positions \in [Stakers -> StakerPosition]
      /\ \A t \in Stakers \ {s} : positions'[t].amount_staked = positions[t].amount_staked
  BY DEF TypeOK
<1>2. Cardinality(Lamports(positions', Stakers))
        = Cardinality(Lamports(positions, Stakers)) + a
  <2>1. positions'[s].amount_staked = positions[s].amount_staked + a
    OBVIOUS
  <2> QED  BY ONLY <1>1, <2>1, StakeMoves
<1> QED  BY <1>2 DEF StakeOf

LEMMA SolventInit == Init => SolventInv
<1> SUFFICES ASSUME Init PROVE SolventInv
  OBVIOUS
<1>1. TypeOK
  BY TypeInit
<1>2. Solvent
  BY DEF Init, NoFund, Solvent
<1> QED  BY <1>1, <1>2 DEF Init, NoFund, NoPosition, SolventInv

\* A staking instruction adds to the vault at least what it adds to a position.
LEMMA StakeSolvent ==
  ASSUME SolventInv, TypeOK', NEW s \in Stakers, NEW amount \in StakeAmounts,
         NEW validator \in BOOLEAN, fund.initialized, vault' = vault + amount,
         positions' = [positions EXCEPT ![s] = StakedPosition(s, amount, validator)],
         fund'.initialized, fund'.accumulated_rewards = fund.accumulated_rewards,
         overpaid' = overpaid
  PROVE  SolventInv'
<1> DEFINE old == positions[s].amount_staked
           new == SatAdd(old, amount, U64Max)
<1>1. /\ amount \in Nat /\ old \in 0..U64Max /\ U64Max \in Nat /\ RentExempt \in Nat
      /\ vault \in Nat /\ positions \in [Stakers -> StakerPosition]
      /\ positions[s] \in StakerPosition /\ now \in Nat
      /\ overpaid \in Nat /\ fund.accumulated_rewards \in Nat
  BY AmountsAssumption, BoundsAssumption
  DEF SolventInv, TypeOK, StakerPosition, FundAccount
<1>2. positions'[s].amount_staked = new
  <2>1. /\ OpenedPosition(s, validator) \in StakerPosition
        /\ OpenedPosition(s, validator).amount_staked = old
    BY <1>1 DEF OpenedPosition, StakerPosition
  <2> QED  BY <1>1, <2>1 DEF StakedPosition, StakerPosition
<1>3. \A t \in Stakers \ {s} : positions'[t].amount_staked = positions[t].amount_staked
  BY <1>1
<1>4. PICK a \in Nat : new = old + a /\ a <= amount
  <2>1. new - old \in Nat /\ new = old + (new - old) /\ new - old <= amount
    BY <1>1 DEF SatAdd
  <2> QED  BY <2>1
<1>5. positions'[s].amount_staked = positions[s].amount_staked + a
  BY <1>2, <1>4
<1>6. StakeOf(Stakers)' = StakeOf(Stakers) + a
  BY <1>3, <1>4, <1>5, StakeGrows DEF SolventInv
<1>7. StakeOf(Stakers) \in Nat
  BY SumsType DEF SolventInv
<1> HIDE DEF old, new
<1>8. Solvent'
  BY <1>1, <1>4, <1>6, <1>7 DEF SolventInv, Solvent
<1> QED  BY <1>8 DEF SolventInv

\* An instruction that touches neither stakes nor lamports.
LEMMA SolventFrame ==
  ASSUME SolventInv, TypeOK',
         \A s \in Stakers : positions'[s].amount_staked = positions[s].amount_staked,
         fund.initialized => vault' = vault,
         fund'.initialized /\ ~fund.initialized
           => vault' = RentExempt /\ fund'.accumulated_rewards = 0,
         fund.initialized
           => fund'.initialized /\ fund'.accumulated_rewards = fund.accumulated_rewards,
         overpaid' = overpaid
  PROVE  SolventInv'
<1>1. StakeOf(Stakers)' = StakeOf(Stakers)
  BY LamportsSame DEF StakeOf
<1>2. Solvent'
  <2>1. CASE fund.initialized
    BY <1>1, <2>1 DEF SolventInv, Solvent
  <2>2. CASE ~fund.initialized
    <3>1. Lamports(positions, Stakers) = {}
      BY <2>2 DEF SolventInv, Lamports
    <3>2. StakeOf(Stakers) = 0
      BY <3>1, FS_EmptySet DEF StakeOf
    <3> QED  BY <1>1, <2>2, <3>2, AmountsAssumption DEF SolventInv, TypeOK, Solvent
  <2> QED  BY <2>1, <2>2
<1> QED  BY <1>2 DEF SolventInv

LEMMA SolventStep == SolventInv /\ [Next]_vars => SolventInv'
<1> SUFFICES ASSUME SolventInv, [Next]_vars PROVE SolventInv'
  OBVIOUS
<1>0. /\ TypeOK /\ TypeOK' /\ fund \in FundAccount /\ fund' \in FundAccount
      /\ vault \in Nat /\ positions \in [Stakers -> StakerPosition]
      /\ positions' \in [Stakers -> StakerPosition] /\ Operator \in Stakers
      /\ RentExempt \in Nat /\ fund.accumulated_rewards \in Nat /\ overpaid \in Nat
  BY TypeStep, AmountsAssumption, StakersAssumption DEF SolventInv, TypeOK, FundAccount
<1>1. CASE InitializeFund
  <2>1. ~fund.initialized /\ fund'.accumulated_rewards = 0
    BY <1>1 DEF InitializeFund, NoFund
  <2> QED  BY <1>0, <1>1, <2>1, SolventFrame DEF InitializeFund
<1>2. ASSUME NEW amount \in StakeAmounts, Stake(amount)
      PROVE  SolventInv'
  <2>1. fund'.initialized /\ fund'.accumulated_rewards = fund.accumulated_rewards
    BY <1>0, <1>2 DEF Stake, CanStake, FundAccount
  <2> QED  BY <1>0, <1>2, <2>1, StakeSolvent DEF Stake, CanStake
<1>3. ASSUME NEW s \in Stakers, NEW amount \in StakeAmounts, CommunityStake(s, amount)
      PROVE  SolventInv'
  <2>1. fund'.initialized /\ fund'.accumulated_rewards = fund.accumulated_rewards
    BY <1>0, <1>3 DEF CommunityStake, CanStake, FundAccount
  <2> QED  BY <1>0, <1>3, <2>1, StakeSolvent DEF CommunityStake, CanStake
<1>4. ASSUME NEW s \in Stakers, NEW amount \in WithdrawAmounts(s), WithdrawStake(s, amount)
      PROVE  SolventInv'
  <2>1. /\ positions[s] \in StakerPosition /\ amount \in Nat
        /\ positions[s].amount_staked \in Nat
        /\ amount <= positions[s].amount_staked /\ fund.initialized
        /\ vault' = vault - amount
    BY <1>0, <1>4, AmountsAssumption
    DEF WithdrawStake, CanWithdraw, WithdrawAmounts, StakerPosition
  <2>2. positions[s].amount_staked = positions'[s].amount_staked + amount
    <3>1. positions'[s] = [positions[s] EXCEPT !.amount_staked = SatSub(@, amount)]
      BY <1>0, <1>4 DEF WithdrawStake
    <3>2. positions'[s].amount_staked = SatSub(positions[s].amount_staked, amount)
      BY <2>1, <3>1 DEF StakerPosition
    <3> QED  BY <2>1, <3>2 DEF SatSub
  <2>3. \A t \in Stakers \ {s} : positions'[t].amount_staked = positions[t].amount_staked
    BY <1>0, <1>4 DEF WithdrawStake
  <2>4. StakeOf(Stakers)' = StakeOf(Stakers) - amount
    BY <1>0, <2>1, <2>2, <2>3, StakeShrinks
  <2>5. /\ fund'.initialized /\ fund'.accumulated_rewards = fund.accumulated_rewards
        /\ overpaid' = overpaid
    BY <1>0, <1>4, <2>1 DEF WithdrawStake, FundAfterWithdraw, FundAccount
  <2>6. StakeOf(Stakers) \in Nat
    BY <1>0, SumsType
  <2>7. Solvent'
    BY <1>0, <2>1, <2>4, <2>5, <2>6 DEF SolventInv, Solvent
  <2> QED  BY <1>0, <2>5, <2>7 DEF SolventInv
<1>5. ASSUME NEW s \in Stakers, ClaimRewards(s)
      PROVE  SolventInv'
  <2> DEFINE r == RewardOf(s)
  <2>1. /\ fund.initialized /\ fund'.initialized
        /\ fund'.accumulated_rewards = SatSub(fund.accumulated_rewards, r)
        /\ vault' = vault - r
        /\ overpaid' = overpaid + SatSub(r, fund.accumulated_rewards)
    BY <1>0, <1>5 DEF ClaimRewards, CanClaim, FundAccount
  <2>2. \A t \in Stakers : positions'[t].amount_staked = positions[t].amount_staked
    BY <1>0, <1>5 DEF ClaimRewards, StakerPosition
  <2>3. StakeOf(Stakers)' = StakeOf(Stakers)
    BY <2>2, LamportsSame DEF StakeOf
  <2>4. StakeOf(Stakers) \in Nat
    BY <1>0, SumsType
  <2>5. r \in Nat
    <3>1. vault' \in Nat
      BY <1>0, AmountsAssumption DEF TypeOK
    <3>2. r > 0
      BY <1>5 DEF ClaimRewards, CanClaim
    <3> DEFINE q == (positions[s].amount_staked * fund.accumulated_rewards)
                      \div fund.total_locked_stake
    <3>3. q \in Nat
      <4> DEFINE p == positions[s].amount_staked * fund.accumulated_rewards
      <4>1. p \in Nat /\ fund.total_locked_stake \in Nat \ {0}
        BY <1>0, <1>5 DEF ClaimRewards, CanClaim, FundAccount, StakerPosition
      <4> HIDE DEF p
      <4> QED  BY <4>1 DEF p
    <3> HIDE DEF q
    <3>4. q % (U64Max + 1) \in Nat
      BY <3>3, AmountsAssumption
    <3> QED  BY <3>4 DEF RewardOf, q
  <2> HIDE DEF r
  <2>6. Solvent'
    BY <1>0, <2>1, <2>3, <2>4, <2>5 DEF SolventInv, Solvent, SatSub
  <2> QED  BY <1>0, <2>1, <2>6 DEF SolventInv
<1>6. ASSUME NEW s \in Stakers, ApplySlashToStaker(s)
      PROVE  SolventInv'
  <2>1. CASE positions' = positions
    BY <1>0, <1>6, <2>1, SolventFrame DEF ApplySlashToStaker
  <2>2. CASE positions' # positions
    <3> DEFINE old == positions[s].amount_staked
               new == AfterSlash(old, fund.last_slash_ratio_bps)
    <3>1. old \in U64 /\ fund.last_slash_ratio_bps \in 0..BpsDenominator
      BY <1>0 DEF StakerPosition, FundAccount
    <3>2. new \in Nat /\ new <= old /\ old \in Nat
      BY <3>1, AfterSlashType, AmountsAssumption
    <3>3. /\ positions'[s].amount_staked = new
          /\ \A t \in Stakers \ {s} : positions'[t].amount_staked = positions[t].amount_staked
      BY <1>0, <1>6, <2>2 DEF ApplySlashToStaker, StakerPosition
    <3> HIDE DEF new
    <3>4. PICK a \in Nat : old = new + a
      <4>1. old - new \in Nat /\ old = new + (old - new)
        BY <3>2
      <4> QED  BY <4>1
    <3>5. StakeOf(Stakers)' = StakeOf(Stakers) - a
      BY <1>0, <3>3, <3>4, StakeShrinks
    <3>6. StakeOf(Stakers) \in Nat
      BY <1>0, SumsType
    <3>7. UNCHANGED <<fund, vault, overpaid>> /\ fund.initialized
      BY <1>6 DEF ApplySlashToStaker
    <3>8. Solvent'
      BY <1>0, <3>5, <3>6, <3>7 DEF SolventInv, Solvent
    <3> QED  BY <1>0, <3>7, <3>8 DEF SolventInv
  <2> QED  BY <2>1, <2>2
<1>7. CASE LockFund \/ UnlockFund
  <2>1. /\ fund'.accumulated_rewards = fund.accumulated_rewards
        /\ fund'.initialized /\ fund.initialized
    BY <1>0, <1>7 DEF LockFund, UnlockFund, FundAccount
  <2> QED  BY <1>0, <1>7, <2>1, SolventFrame DEF LockFund, UnlockFund
<1>8. ASSUME NEW amount \in SlashAmounts, NEW c \in Challengers, ExecuteSlash(amount, c)
      PROVE  SolventInv'
  <2>1. /\ fund'.accumulated_rewards = fund.accumulated_rewards
        /\ fund'.initialized /\ fund.initialized
    BY <1>0, <1>8 DEF ExecuteSlash, FundAccount
  <2> QED  BY <1>0, <1>8, <2>1, SolventFrame DEF ExecuteSlash
<1>9. ASSUME NEW amount \in RewardAmounts, DepositRewards(amount)
      PROVE  SolventInv'
  <2>1. amount \in Nat /\ U64Max \in Nat
    BY AmountsAssumption
  <2>2. /\ fund.initialized /\ fund'.initialized
        /\ fund'.accumulated_rewards = SatAdd(fund.accumulated_rewards, amount, U64Max)
        /\ vault' = vault + amount /\ overpaid' = overpaid /\ positions' = positions
    BY <1>0, <1>9 DEF DepositRewards, FundAccount
  <2>3. StakeOf(Stakers)' = StakeOf(Stakers) /\ StakeOf(Stakers) \in Nat
    BY <1>0, <2>2, SumsType DEF StakeOf
  <2>4. Solvent'
    BY <1>0, <2>1, <2>2, <2>3 DEF SolventInv, Solvent, SatAdd
  <2> QED  BY <1>0, <2>2, <2>4 DEF SolventInv
<1>10. CASE Tick \/ UNCHANGED vars
  BY <1>0, <1>10, SolventFrame DEF Tick, vars
<1> QED
  BY <1>1, <1>2, <1>3, <1>4, <1>5, <1>6, <1>7, <1>8, <1>9, <1>10
  DEF Next, StakerNext, AuthorityNext

\* Whatever is staked, withdrawn, deposited, claimed, slashed and applied, in any
\* order: the vault is short of what it owes by what claims took beyond the rewards,
\* and by nothing else.
THEOREM SolventCorrect == Spec => []Solvent
<1>1. Init => SolventInv
  BY SolventInit
<1>2. SolventInv /\ [Next]_vars => SolventInv'
  BY SolventStep
<1>3. SolventInv => Solvent
  BY DEF SolventInv
<1> QED  BY <1>1, <1>2, <1>3, PTL DEF Spec

-----------------------------------------------------------------------------
(* The three programs together implement each of them                       *)

\* What the fund sees of a transaction is one of its own instructions.
LEMMA FundStep ==
  ASSUME [ProtocolNext]_protocolVars
  PROVE  [Next]_vars
<1> USE ProtocolAssumption DEF Next, AuthorityNext
<1>1. ASSUME NEW t \in Tasks, FileChallenge(t)
      PROVE  [Next]_vars
  BY <1>1 DEF FileChallenge, A!FileChallenge, fundVars, vars
<1>2. ASSUME NEW t \in Tasks, SlashAgent(t)
      PROVE  [Next]_vars
  BY <1>2 DEF SlashAgent, SlashFund, SpareFund, A!SlashAgent, fundVars, vars
<1>3. ASSUME NEW t \in Tasks, DismissChallenge(t)
      PROVE  [Next]_vars
  BY <1>3 DEF DismissChallenge, SpareFund, A!DismissChallenge, fundVars, vars
<1>4. CASE OpenFund \/ StakerStep \/ ClockStep
  BY <1>4 DEF OpenFund, StakerStep, ClockStep
<1>5. CASE DirectLock \/ DirectUnlock \/ DirectExecuteSlash
  BY <1>5 DEF DirectLock, DirectUnlock, DirectExecuteSlash
<1>6. CASE RegisterAgent \/ AgentStep \/ DirectRecordSlash
  BY <1>6 DEF RegisterAgent, AgentStep, DirectRecordSlash, fundVars, vars
<1>7. CASE RegisterTask \/ CompleteTask
  BY <1>7 DEF RegisterTask, CompleteTask, A!RegisterTask, A!CompleteTask, fundVars, vars
<1>8. CASE UNCHANGED protocolVars
  BY <1>8 DEF protocolVars, fundVars, vars
<1> QED
  BY <1>1, <1>2, <1>3, <1>4, <1>5, <1>6, <1>7, <1>8 DEF ProtocolNext

\* What the registry sees of a transaction is one of its own instructions.
LEMMA RegistryStep ==
  ASSUME [ProtocolNext]_protocolVars
  PROVE  [R!Next]_(R!vars)
<1> USE DEF R!Next
<1>1. CASE RegisterAgent \/ AgentStep \/ DirectRecordSlash
  BY <1>1 DEF RegisterAgent, AgentStep, DirectRecordSlash
<1>2. ASSUME NEW t \in Tasks, SlashAgent(t)
      PROVE  [R!Next]_(R!vars)
  BY <1>2 DEF SlashAgent, registryVars, R!vars
<1>3. CASE ~ \/ RegisterAgent \/ AgentStep \/ DirectRecordSlash
             \/ \E t \in Tasks : SlashAgent(t)
  BY <1>3
  DEF ProtocolNext, OpenFund, StakerStep, ClockStep, RegisterTask, CompleteTask,
      FileChallenge, DismissChallenge, DirectLock, DirectUnlock, DirectExecuteSlash,
      protocolVars, registryVars, R!vars
<1> QED  BY <1>1, <1>2, <1>3

\* What adjudication sees of a transaction is one of its own instructions.
LEMMA AdjudicationStep ==
  ASSUME [ProtocolNext]_protocolVars
  PROVE  [A!Next]_(A!vars)
<1> USE DEF A!Next
<1>1. CASE RegisterTask \/ CompleteTask
  BY <1>1 DEF RegisterTask, CompleteTask
<1>2. ASSUME NEW t \in Tasks, FileChallenge(t) \/ SlashAgent(t) \/ DismissChallenge(t)
      PROVE  A!Next
  BY <1>2 DEF FileChallenge, SlashAgent, DismissChallenge
<1>3. CASE ClockStep
  BY <1>3 DEF ClockStep, Tick, A!Tick, adjudicationVars
<1>4. CASE \/ OpenFund \/ StakerStep \/ DirectLock \/ DirectUnlock
           \/ DirectExecuteSlash
  BY <1>4
  DEF OpenFund, StakerStep, DirectLock, DirectUnlock, DirectExecuteSlash, InitializeFund,
      StakerNext, Stake, CommunityStake, WithdrawStake, DepositRewards, ClaimRewards,
      ApplySlashToStaker, LockFund, UnlockFund, ExecuteSlash, adjudicationVars, A!vars
<1>5. CASE RegisterAgent \/ AgentStep \/ DirectRecordSlash
  BY <1>5 DEF RegisterAgent, AgentStep, DirectRecordSlash, adjudicationVars, A!vars
<1>6. CASE UNCHANGED protocolVars
  BY <1>6 DEF protocolVars, adjudicationVars, A!vars
<1> QED  BY <1>1, <1>2, <1>3, <1>4, <1>5, <1>6 DEF ProtocolNext

\* Whatever the other programs call, the fund stays within its own specification.
THEOREM FundImplemented == ProtocolSpec => Spec
<1>1. ProtocolInit => Init
  BY DEF ProtocolInit
<1>2. [ProtocolNext]_protocolVars => [Next]_vars
  BY FundStep
<1> QED  BY <1>1, <1>2, PTL DEF ProtocolSpec, Spec

\* So the fund the other programs call keeps what the fund alone promises.
THEOREM FundKeepsItsPromises ==
  ProtocolSpec => /\ [](TypeOK /\ SplitCoversTotal /\ BooksBalance /\ Solvent)
                  /\ LockedStakeStays /\ NoSilentLoss
BY FundImplemented, TypeCorrect, SplitCorrect, BooksCorrect, SolventCorrect, LockCorrect,
   LossCorrect, PTL

\* The registry stays within its specification too.
THEOREM RegistryImplemented == ProtocolSpec => R!Spec
<1>1. ProtocolInit => R!Init
  BY DEF ProtocolInit
<1>2. [ProtocolNext]_protocolVars => [R!Next]_(R!vars)
  BY RegistryStep
<1> QED  BY <1>1, <1>2, PTL DEF ProtocolSpec, R!Spec

\* And so does adjudication: no instruction of the fund or the registry, called
\* by it or by others, takes part in a dispute.
THEOREM AdjudicationImplemented == ProtocolSpec => A!Spec
<1>1. ProtocolInit => A!Init
  BY DEF ProtocolInit
<1>2. [ProtocolNext]_protocolVars => [A!Next]_(A!vars)
  BY AdjudicationStep
<1> QED  BY <1>1, <1>2, PTL DEF ProtocolSpec, A!Spec

-----------------------------------------------------------------------------
(* The lock of the fund and the challenge of a task                         *)

\* Tasks and challenges are well typed and tell the same story: without it a
\* challenge could be filed again after its verdict.
DisputesAgree == A!TypeOK /\ A!StatusesAgree

LEMMA DisputesInit == ProtocolInit => DisputesAgree
BY ProtocolAssumption, BoundsAssumption
DEF ProtocolInit, DisputesAgree, A!TypeOK, A!StatusesAgree, A!Init, A!NoTask,
    A!NoChallenge, A!TaskRecord, A!Challenge, A!TaskStatus, A!ChallengeStatus,
    A!FailureType, A!Time, A!None

LEMMA DisputesStep ==
  ASSUME DisputesAgree, [ProtocolNext]_protocolVars
  PROVE  DisputesAgree'
<1> USE DEF DisputesAgree, A!TypeOK, A!StatusesAgree, A!TaskRecord, A!Challenge,
            A!TaskStatus, A!ChallengeStatus
<1>1. [A!Next]_(A!vars)
  BY AdjudicationStep
<1>2. ASSUME NEW t \in Tasks, NEW w \in Wallets, NEW f \in A!FailureType,
             NEW p \in ProofLengths, A!FileChallenge(t, w, f, p)
      PROVE  DisputesAgree'
  <2> DEFINE c == [status |-> "Filed", challenger |-> w, failure_type |-> f,
                   has_proof |-> p > 0, filed_at |-> now]
  <2>1. c \in A!Challenge /\ c.status = "Filed"
    OBVIOUS
  <2> HIDE DEF c
  <2>2. /\ challenges' = [challenges EXCEPT ![t] = c]
        /\ tasks' = [tasks EXCEPT ![t].status = "Challenged"]
        /\ now' = now
    BY <1>2 DEF A!FileChallenge, c
  <2>3. tasks[t].status \in {"Pending", "Completed"}
    BY <1>2 DEF A!FileChallenge, A!Challengeable
  <2> QED  BY <2>1, <2>2, <2>3
<1>3. ASSUME NEW t \in Tasks, A!SlashAgent(t)
      PROVE  DisputesAgree'
  BY <1>3 DEF A!SlashAgent
<1>4. ASSUME NEW t \in Tasks, A!DismissChallenge(t)
      PROVE  DisputesAgree'
  BY <1>4 DEF A!DismissChallenge
<1>5. ASSUME NEW t \in Tasks, NEW d \in A!Time, A!RegisterTask(t, d)
      PROVE  DisputesAgree'
  BY <1>5 DEF A!RegisterTask, A!NoTask
<1>6. ASSUME NEW t \in Tasks, A!CompleteTask(t)
      PROVE  DisputesAgree'
  BY <1>6 DEF A!CompleteTask
<1>7. CASE A!Tick
  BY <1>7, BoundsAssumption DEF A!Tick, A!Time
<1>8. CASE UNCHANGED A!vars
  BY <1>8 DEF A!vars
<1> QED
  BY <1>1, <1>2, <1>3, <1>4, <1>5, <1>6, <1>7, <1>8 DEF A!Next

\* Opening the fund must not reset a lock, so a locked fund is open.
HeldInv ==
    /\ TypeOK
    /\ DisputesAgree
    /\ held \subseteq Tasks
    /\ fund.challenge_active => fund.initialized
    /\ HeldIsLocked

LEMMA HeldInit == ProtocolInit => HeldInv
<1> SUFFICES ASSUME ProtocolInit PROVE HeldInv
  OBVIOUS
<1>1. TypeOK /\ DisputesAgree
  BY TypeInit, DisputesInit DEF ProtocolInit
<1>2. fund = NoFund /\ held = {}
  BY DEF ProtocolInit, Init
<1> QED
  BY <1>1, <1>2 DEF HeldInv, HeldIsLocked, NoFund

\* Locks and unlocks, of this challenge, of another or of nobody's: each either
\* keeps the lock or ends what it held.
LEMMA HeldStep == HeldInv /\ [ProtocolNext]_protocolVars => HeldInv'
<1> SUFFICES ASSUME HeldInv, [ProtocolNext]_protocolVars PROVE HeldInv'
  OBVIOUS
<1>0. /\ TypeOK' /\ DisputesAgree'
      /\ fund \in FundAccount /\ challenges \in [Tasks -> A!Challenge]
  BY FundStep, TypeStep, DisputesStep DEF HeldInv, TypeOK, DisputesAgree, A!TypeOK
<1> USE DEF HeldInv, HeldIsLocked, Filed
<1>1. ASSUME NEW t \in Tasks, FileChallenge(t)
      PROVE  HeldInv'
  <2>1. /\ challenges'[t].status = "Filed"
        /\ \A u \in Tasks \ {t} : challenges'[u] = challenges[u]
    BY <1>0, <1>1 DEF FileChallenge, A!FileChallenge
  <2>2. CASE LockFund /\ held' = held \cup {t}
    <3>1. fund'.challenge_active /\ fund'.initialized
      BY <1>0, <2>2 DEF LockFund, FundAccount
    <3> QED  BY <1>0, <2>1, <2>2, <3>1
  <2>3. CASE UNCHANGED <<fundVars, held>>
    BY <1>0, <2>1, <2>3 DEF fundVars
  <2> QED  BY <1>1, <2>2, <2>3 DEF FileChallenge
<1>2. ASSUME NEW t \in Tasks, SlashAgent(t) \/ DismissChallenge(t)
      PROVE  HeldInv'
  <2>1. \A u \in Tasks \ {t} : challenges'[u] = challenges[u]
    BY <1>0, <1>2
    DEF SlashAgent, DismissChallenge, A!SlashAgent, A!DismissChallenge
  <2>2. CASE SlashFund(t) \/ (UnlockFund /\ held' = {})
    <3>1. held' = {} /\ ~fund'.challenge_active
      BY <1>0, <2>2 DEF SlashFund, ExecuteSlash, UnlockFund, FundAccount
    <3> QED  BY <1>0, <3>1
  <2>3. CASE SpareFund(t)
    BY <1>0, <2>1, <2>3 DEF SpareFund, fundVars
  <2> QED  BY <1>2, <2>2, <2>3 DEF SlashAgent, DismissChallenge
<1>3. CASE OpenFund
  <2>1. ~fund.initialized /\ ~fund'.challenge_active /\ UNCHANGED <<challenges, held>>
    BY <1>3 DEF OpenFund, InitializeFund, NoFund, adjudicationVars, historyVars
  <2> QED  BY <1>0, <2>1
<1>4. CASE StakerStep
  <2>1. /\ fund'.challenge_active = fund.challenge_active
        /\ fund'.initialized = fund.initialized
    BY <1>0, <1>4
    DEF StakerStep, StakerNext, Stake, CommunityStake, WithdrawStake, FundAfterWithdraw,
        DepositRewards, ClaimRewards, ApplySlashToStaker, FundAccount
  <2>2. UNCHANGED <<challenges, held>>
    BY <1>4 DEF StakerStep, adjudicationVars, historyVars
  <2> QED  BY <1>0, <2>1, <2>2
<1>5. CASE RegisterTask \/ CompleteTask
  <2>1. UNCHANGED <<fund, challenges, held>>
    BY <1>5
    DEF RegisterTask, CompleteTask, A!RegisterTask, A!CompleteTask, fundVars, historyVars
  <2> QED  BY <1>0, <2>1
<1>6. CASE \/ RegisterAgent \/ AgentStep \/ DirectRecordSlash \/ ClockStep
           \/ UNCHANGED protocolVars
  <2>1. UNCHANGED <<fund, challenges, held>>
    BY <1>6
    DEF RegisterAgent, AgentStep, DirectRecordSlash, ClockStep, Tick, protocolVars,
        fundVars, adjudicationVars, historyVars
  <2> QED  BY <1>0, <2>1
<1>7. CASE DirectLock
  <2>1. /\ fund'.challenge_active /\ fund'.initialized /\ UNCHANGED <<challenges, held>>
    BY <1>0, <1>7 DEF DirectLock, LockFund, FundAccount, adjudicationVars, historyVars
  <2> QED  BY <1>0, <2>1
<1>8. CASE DirectUnlock \/ DirectExecuteSlash
  <2>1. held' = {} /\ ~fund'.challenge_active
    BY <1>0, <1>8 DEF DirectUnlock, DirectExecuteSlash, UnlockFund, ExecuteSlash, FundAccount
  <2> QED  BY <1>0, <2>1
<1> QED
  BY <1>1, <1>2, <1>3, <1>4, <1>5, <1>6, <1>7, <1>8 DEF ProtocolNext

\* Whoever calls and whatever accounts a transaction names: a challenge that locked
\* the fund, and that nothing has unlocked since, is open and finds it locked.
THEOREM HeldCorrect == ProtocolSpec => []HeldIsLocked
<1>1. HeldInv => HeldIsLocked
  BY DEF HeldInv
<1> QED  BY <1>1, HeldInit, HeldStep, PTL DEF ProtocolSpec

-----------------------------------------------------------------------------
(* The programs count the verdicts that reach them                          *)

\* Only finitely many verdicts have reached a program, so they can be counted; the
\* registry's counter exists from the start.
SlashesInv ==
    /\ TypeOK
    /\ DisputesAgree
    /\ reached \in [Tasks -> SUBSET Programs]
    /\ \A p \in Programs : IsFiniteSet(SlashedBy(p))
    /\ direct \in [fund : Nat, registry : Nat]
    /\ "slash_count" \in DOMAIN registry
    /\ SlashesAgree

LEMMA SlashesInit == ProtocolInit => SlashesInv
<1> SUFFICES ASSUME ProtocolInit PROVE SlashesInv
  OBVIOUS
<1>1. TypeOK /\ DisputesAgree
  BY TypeInit, DisputesInit DEF ProtocolInit
<1>2. /\ slashes = 0 /\ direct = [fund |-> 0, registry |-> 0]
      /\ reached = [t \in Tasks |-> {}]
      /\ registry = [registered |-> FALSE, reputation_score |-> 0, slash_count |-> 0,
                     declared_stake |-> 0, arweave_cid |-> NoCid]
  BY DEF ProtocolInit, Init, A!Init, R!Init
<1>3. \A p \in Programs : SlashedBy(p) = {}
  BY <1>2 DEF SlashedBy
<1>4. \A p \in Programs : IsFiniteSet(SlashedBy(p)) /\ Cardinality(SlashedBy(p)) = 0
  BY <1>3, FS_EmptySet
<1>5. SlashesAgree
  BY <1>2, <1>4, SlashCountAssumption DEF SlashesAgree, Programs, R!SatAddU8
<1> QED  BY <1>1, <1>2, <1>4, <1>5 DEF SlashesInv

\* record_slash adds one to the registry's counter, as far as a u8 goes, and
\* nothing else touches it.
LEMMA RecordSlashCounts ==
  ASSUME "slash_count" \in DOMAIN registry, R!RecordSlash
  PROVE  /\ "slash_count" \in DOMAIN registry'
         /\ registry'.slash_count = R!SatAddU8(registry.slash_count, 1)
BY DEF R!RecordSlash

LEMMA SlashCountSame ==
  ASSUME "slash_count" \in DOMAIN registry, R!RegisterAgent \/ R!AgentNext
  PROVE  /\ "slash_count" \in DOMAIN registry'
         /\ registry'.slash_count = registry.slash_count
<1>1. \/ UNCHANGED registry
      \/ \E x : registry' = [registry EXCEPT !.registered = x]
      \/ \E x : registry' = [registry EXCEPT !.reputation_score = x]
      \/ \E x : registry' = [registry EXCEPT !.arweave_cid = x]
  BY DEF R!RegisterAgent, R!AgentNext, R!SubmitAttestation,
         R!VerifyAgent, R!WriteArweaveCid
<1> QED  BY <1>1

\* No verdict is taken back.
LEMMA UpheldStays ==
  ASSUME DisputesAgree, [ProtocolNext]_protocolVars, NEW t \in Tasks,
         challenges[t].status = "Resolved"
  PROVE  challenges'[t].status = "Resolved"
<1>0. challenges \in [Tasks -> A!Challenge]
  BY DEF DisputesAgree, A!TypeOK
<1>1. ASSUME NEW u \in Tasks, FileChallenge(u) \/ SlashAgent(u) \/ DismissChallenge(u)
      PROVE  challenges'[t] = challenges[t]
  <2>1. challenges[u].status # "Resolved"
    BY <1>1
    DEF FileChallenge, SlashAgent, DismissChallenge, A!FileChallenge, A!SlashAgent,
        A!DismissChallenge
  <2>2. \A x \in Tasks \ {u} : challenges'[x] = challenges[x]
    BY <1>0, <1>1
    DEF FileChallenge, SlashAgent, DismissChallenge, A!FileChallenge, A!SlashAgent,
        A!DismissChallenge
  <2> QED  BY <2>1, <2>2
<1>2. CASE ~ \E u \in Tasks : FileChallenge(u) \/ SlashAgent(u) \/ DismissChallenge(u)
  <2>1. UNCHANGED challenges
    BY <1>2
    DEF ProtocolNext, RegisterAgent, AgentStep, OpenFund, StakerStep, RegisterTask,
        CompleteTask, DirectLock, DirectUnlock, DirectExecuteSlash, DirectRecordSlash,
        ClockStep, A!RegisterTask, A!CompleteTask, protocolVars, adjudicationVars
  <2> QED  BY <2>1
<1> QED  BY <1>1, <1>2

\* A verdict that reaches a program is one more of those that did.
LEMMA ReachedGrows ==
  ASSUME NEW t \in Tasks, NEW own \in SUBSET Programs, NEW p \in Programs,
         reached \in [Tasks -> SUBSET Programs], reached[t] = {},
         reached' = [reached EXCEPT ![t] = own], IsFiniteSet(SlashedBy(p))
  PROVE  /\ IsFiniteSet(SlashedBy(p)')
         /\ p \in own
              => Cardinality(SlashedBy(p)') = Cardinality(SlashedBy(p)) + 1
         /\ p \notin own => Cardinality(SlashedBy(p)') = Cardinality(SlashedBy(p))
<1>1. t \notin SlashedBy(p)
  BY DEF SlashedBy
<1>2. CASE p \in own
  <2>1. SlashedBy(p)' = SlashedBy(p) \cup {t}
    BY <1>2 DEF SlashedBy
  <2> QED  BY <1>1, <1>2, <2>1, FS_AddElement
<1>3. CASE p \notin own
  <2>1. SlashedBy(p)' = SlashedBy(p)
    BY <1>3 DEF SlashedBy
  <2> QED  BY <1>3, <2>1
<1> QED  BY <1>2, <1>3

\* The one counter of the registry holds n slashes as well as a u8 can.
LEMMA CountNext ==
  ASSUME NEW n \in Nat
  PROVE  R!SatAddU8(R!SatAddU8(0, n), 1) = R!SatAddU8(0, n + 1)
BY SlashCountAssumption DEF R!SatAddU8

\* Each program counts the verdicts that reach it and the direct slashes.
LEMMA SlashesStep == SlashesInv /\ [ProtocolNext]_protocolVars => SlashesInv'
<1> SUFFICES ASSUME SlashesInv, [ProtocolNext]_protocolVars PROVE SlashesInv'
  OBVIOUS
<1> DEFINE f == Cardinality(SlashedBy("fund"))
           r == Cardinality(SlashedBy("registry"))
           f1 == Cardinality(SlashedBy("fund")')
           r1 == Cardinality(SlashedBy("registry")')
<1>0. /\ TypeOK' /\ DisputesAgree' /\ slashes \in Nat
      /\ direct \in [fund : Nat, registry : Nat]
      /\ "slash_count" \in DOMAIN registry
      /\ reached \in [Tasks -> SUBSET Programs]
      /\ IsFiniteSet(SlashedBy("fund")) /\ IsFiniteSet(SlashedBy("registry"))
      /\ challenges \in [Tasks -> A!Challenge]
  BY FundStep, TypeStep, DisputesStep, BoundsAssumption
  DEF SlashesInv, TypeOK, DisputesAgree, A!TypeOK, Programs
<1>1. f \in Nat /\ r \in Nat /\ "fund" \in Programs /\ "registry" \in Programs
  BY <1>0, FS_CardinalityType DEF Programs
<1>2. /\ slashes = f + direct.fund
      /\ registry.slash_count = R!SatAddU8(0, r + direct.registry)
      /\ \A t \in Tasks : reached[t] # {} => challenges[t].status = "Resolved"
  BY DEF SlashesInv, SlashesAgree
<1>3. R!RecordSlash
        => /\ "slash_count" \in DOMAIN registry'
           /\ registry'.slash_count = R!SatAddU8(registry.slash_count, 1)
  BY <1>0, RecordSlashCounts
<1>4. R!SatAddU8(registry.slash_count, 1) = R!SatAddU8(0, r + 1 + direct.registry)
  <2> HIDE DEF r
  <2>1. /\ r + direct.registry \in Nat
        /\ r + direct.registry + 1 = r + 1 + direct.registry
    BY <1>0, <1>1
  <2> QED  BY <1>2, <2>1, CountNext
<1>5. \A t \in Tasks : challenges[t].status = "Resolved"
                        => challenges'[t].status = "Resolved"
  BY UpheldStays DEF SlashesInv
<1> HIDE DEF f, r, f1, r1
<1>6. ASSUME /\ reached' \in [Tasks -> SUBSET Programs]
             /\ IsFiniteSet(SlashedBy("fund")') /\ IsFiniteSet(SlashedBy("registry")')
             /\ direct' \in [fund : Nat, registry : Nat]
             /\ "slash_count" \in DOMAIN registry'
             /\ slashes' = f1 + direct'.fund
             /\ registry'.slash_count = R!SatAddU8(0, r1 + direct'.registry)
             /\ \A t \in Tasks : reached'[t] # {} => challenges'[t].status = "Resolved"
      PROVE  SlashesInv'
  <2>1. SlashesAgree'
    BY <1>6 DEF SlashesAgree, f1, r1
  <2>2. \A p \in Programs : IsFiniteSet(SlashedBy(p)')
    BY <1>6 DEF Programs
  <2> QED  BY <1>0, <1>6, <2>1, <2>2 DEF SlashesInv
<1>7. ASSUME NEW t \in Tasks, SlashAgent(t)
      PROVE  SlashesInv'
  <2>1. challenges[t].status = "Filed" /\ challenges'[t].status = "Resolved"
    BY <1>0, <1>7 DEF SlashAgent, A!SlashAgent, A!Challenge
  <2>2. PICK own \in SUBSET Programs :
          /\ IF "fund" \in own THEN SlashFund(t) ELSE SpareFund(t)
          /\ IF "registry" \in own THEN R!RecordSlash ELSE UNCHANGED registryVars
          /\ reached' = [reached EXCEPT ![t] = own]
    BY <1>7 DEF SlashAgent, Namings
  <2>3. reached[t] = {} /\ direct' = direct
    BY <1>2, <1>7, <2>1 DEF SlashAgent
  <2>4. /\ IsFiniteSet(SlashedBy("fund")')
        /\ "fund" \in own => f1 = f + 1
        /\ "fund" \notin own => f1 = f
    BY <1>0, <1>1, <2>2, <2>3, ReachedGrows DEF f, f1
  <2>5. /\ IsFiniteSet(SlashedBy("registry")')
        /\ "registry" \in own => r1 = r + 1
        /\ "registry" \notin own => r1 = r
    BY <1>0, <1>1, <2>2, <2>3, ReachedGrows DEF r, r1
  <2>6. slashes' = f1 + direct'.fund
    <3>1. "fund" \in own => slashes' = slashes + 1
      BY <2>2 DEF SlashFund, ExecuteSlash
    <3>2. "fund" \notin own => slashes' = slashes
      BY <2>2 DEF SpareFund, fundVars
    <3> QED  BY <1>0, <1>1, <1>2, <2>3, <2>4, <3>1, <3>2
  <2>7. /\ "slash_count" \in DOMAIN registry'
        /\ registry'.slash_count = R!SatAddU8(0, r1 + direct'.registry)
    <3>1. CASE "registry" \in own
      BY <1>3, <1>4, <2>2, <2>3, <2>5, <3>1
    <3>2. CASE "registry" \notin own
      BY <1>0, <1>2, <2>2, <2>3, <2>5, <3>2 DEF registryVars
    <3> QED  BY <3>1, <3>2
  <2>8. /\ reached' \in [Tasks -> SUBSET Programs]
        /\ \A u \in Tasks : reached'[u] # {} => challenges'[u].status = "Resolved"
    BY <1>0, <1>2, <1>5, <2>1, <2>2
  <2> QED  BY <1>0, <1>6, <2>3, <2>4, <2>5, <2>6, <2>7, <2>8
<1>8. CASE ~ \E t \in Tasks : SlashAgent(t)
  <2>1. reached' = reached
    BY <1>8
    DEF ProtocolNext, RegisterAgent, AgentStep, OpenFund, StakerStep, RegisterTask,
        CompleteTask, FileChallenge, DismissChallenge, DirectLock, DirectUnlock,
        DirectExecuteSlash, DirectRecordSlash, ClockStep, protocolVars, historyVars
  <2>2. /\ f1 = f /\ r1 = r
        /\ IsFiniteSet(SlashedBy("fund")') /\ IsFiniteSet(SlashedBy("registry")')
        /\ reached' \in [Tasks -> SUBSET Programs]
        /\ \A t \in Tasks : reached'[t] # {} => challenges'[t].status = "Resolved"
    BY <1>0, <1>2, <1>5, <2>1 DEF f, r, f1, r1, SlashedBy
  <2>3. CASE DirectExecuteSlash
    <3>1. /\ slashes' = slashes + 1 /\ registry' = registry
          /\ direct' = [direct EXCEPT !.fund = @ + 1]
      BY <2>3 DEF DirectExecuteSlash, ExecuteSlash, registryVars
    <3>2. /\ direct' \in [fund : Nat, registry : Nat]
          /\ direct'.fund = direct.fund + 1 /\ direct'.registry = direct.registry
      BY <1>0, <3>1
    <3>3. slashes' = f1 + direct'.fund
      BY <1>0, <1>1, <1>2, <2>2, <3>1, <3>2
    <3> QED  BY <1>0, <1>2, <1>6, <2>2, <3>1, <3>2, <3>3
  <2>4. CASE DirectRecordSlash
    <3>1. /\ slashes' = slashes /\ R!RecordSlash
          /\ direct' = [direct EXCEPT !.registry = @ + 1]
      BY <2>4 DEF DirectRecordSlash, fundVars
    <3>2. /\ direct' \in [fund : Nat, registry : Nat]
          /\ direct'.fund = direct.fund /\ direct'.registry = direct.registry + 1
      BY <1>0, <3>1
    <3>3. r + 1 + direct.registry = r1 + direct'.registry
      BY <1>0, <1>1, <2>2, <3>2
    <3>4. registry'.slash_count = R!SatAddU8(0, r1 + direct'.registry)
      BY <1>3, <1>4, <3>1, <3>3
    <3> QED  BY <1>0, <1>2, <1>3, <1>6, <2>2, <3>1, <3>2, <3>4
  <2>5. CASE ~DirectExecuteSlash /\ ~DirectRecordSlash
    <3>1. slashes' = slashes /\ direct' = direct
      BY <1>8, <2>5
      DEF ProtocolNext, RegisterAgent, AgentStep, OpenFund, StakerStep, RegisterTask,
          CompleteTask, FileChallenge, DismissChallenge, SpareFund, DirectLock,
          DirectUnlock, ClockStep, InitializeFund, StakerNext, Stake, CommunityStake,
          WithdrawStake, DepositRewards, ClaimRewards, ApplySlashToStaker, LockFund,
          UnlockFund, Tick, protocolVars, fundVars, historyVars
    <3>2. /\ "slash_count" \in DOMAIN registry'
          /\ registry'.slash_count = registry.slash_count
      <4>1. CASE RegisterAgent \/ AgentStep
        BY <1>0, <4>1, SlashCountSame DEF RegisterAgent, AgentStep
      <4>2. CASE ~RegisterAgent /\ ~AgentStep
        <5>1. UNCHANGED registry
          BY <1>8, <2>5, <4>2
          DEF ProtocolNext, OpenFund, StakerStep, RegisterTask, CompleteTask,
              FileChallenge, DismissChallenge, DirectLock, DirectUnlock, ClockStep,
              protocolVars, registryVars
        <5> QED  BY <1>0, <5>1
      <4> QED  BY <4>1, <4>2
    <3> QED  BY <1>0, <1>2, <1>6, <2>2, <3>1, <3>2
  <2> QED  BY <2>3, <2>4, <2>5
<1> QED  BY <1>7, <1>8

\* Fund and registry count every verdict that names them once, and the direct
\* slashes, however many tasks there are, whoever calls and whatever is named.
THEOREM SlashesCorrect == ProtocolSpec => []SlashesAgree
<1>1. SlashesInv => SlashesAgree
  BY DEF SlashesInv
<1> QED  BY <1>1, SlashesInit, SlashesStep, PTL DEF ProtocolSpec

-----------------------------------------------------------------------------
(* What a dispute is decided on                                             *)

\* What lets a late completion never be dismissed: no task was completed after
\* the reading of the clock, so the deadline it missed has passed.
CompletionsArePast ==
    \A t \in Tasks :
      /\ tasks[t].status \in {"Unregistered", "Pending"}
           => tasks[t].completed_at = A!None
      /\ tasks[t].completed_at <= now

EvidenceInv == DisputesAgree /\ CompletionsArePast

\* Nothing is completed before the first instruction.
LEMMA CompletionsInit == A!Init => CompletionsArePast
<1> SUFFICES ASSUME A!Init, NEW t \in Tasks
             PROVE  tasks[t].completed_at = A!None /\ tasks[t].completed_at <= now
  BY DEF CompletionsArePast
<1>1. tasks[t] = A!NoTask /\ now = 0
  BY DEF A!Init
<1>2. tasks[t].completed_at = A!None
  BY <1>1 DEF A!NoTask
<1> QED  BY <1>1, <1>2 DEF A!None

\* A completion is entered with the reading of the clock, and time goes forward.
LEMMA CompletionsStep ==
  A!TypeOK /\ CompletionsArePast /\ [A!Next]_(A!vars) => CompletionsArePast'
<1> SUFFICES ASSUME A!TypeOK, CompletionsArePast, [A!Next]_(A!vars)
             PROVE  CompletionsArePast'
  OBVIOUS
<1>0. now \in Nat /\ tasks \in [Tasks -> A!TaskRecord]
  BY BoundsAssumption DEF A!TypeOK, A!Time
<1> SUFFICES ASSUME NEW u \in Tasks
             PROVE  /\ tasks'[u].status \in {"Unregistered", "Pending"}
                         => tasks'[u].completed_at = A!None
                    /\ tasks'[u].completed_at <= now'
  BY DEF CompletionsArePast
<1>a. /\ tasks[u].status \in {"Unregistered", "Pending"}
           => tasks[u].completed_at = A!None
      /\ tasks[u].completed_at <= now /\ tasks[u].completed_at \in Int
  BY <1>0, BoundsAssumption DEF CompletionsArePast, A!TaskRecord, A!Time, A!None
<1> DEFINE Kept == /\ tasks'[u].status \in {"Unregistered", "Pending"}
                        => tasks'[u].completed_at = A!None
                   /\ tasks'[u].completed_at <= now'
<1>1. ASSUME NEW t \in Tasks, NEW d \in A!Time, A!RegisterTask(t, d)
      PROVE  Kept
  BY <1>0, <1>a, <1>1 DEF A!RegisterTask, A!NoTask, A!None
<1>2. ASSUME NEW t \in Tasks, A!CompleteTask(t)
      PROVE  Kept
  BY <1>0, <1>a, <1>2 DEF A!CompleteTask, A!TaskRecord
<1>3. ASSUME NEW t \in Tasks, NEW w \in Wallets, NEW f \in A!FailureType,
             NEW p \in ProofLengths, A!FileChallenge(t, w, f, p)
      PROVE  Kept
  BY <1>0, <1>a, <1>3 DEF A!FileChallenge, A!TaskRecord
<1>4. ASSUME NEW t \in Tasks, A!SlashAgent(t) \/ A!DismissChallenge(t)
      PROVE  Kept
  BY <1>0, <1>a, <1>4 DEF A!SlashAgent, A!DismissChallenge, A!TaskRecord
<1>5. CASE A!Tick
  BY <1>0, <1>a, <1>5 DEF A!Tick
<1>6. CASE UNCHANGED A!vars
  BY <1>a, <1>6 DEF A!vars
<1> QED  BY <1>1, <1>2, <1>3, <1>4, <1>5, <1>6 DEF A!Next

\* What Dispute sees of the work on a task.
LEMMA SeenWork ==
  ASSUME NEW k \in A!TaskRecord
  PROVE  /\ A!WorkOf(k) \in {"unassigned", "due", "in time", "late"}
         /\ A!WorkOf(k) = "unassigned" <=> k.status = "Unregistered"
         /\ A!WorkOf(k) = "due" <=> k.status # "Unregistered" /\ k.completed_at = A!None
         /\ A!WorkOf(k) = "late" <=> /\ k.status # "Unregistered"
                                  /\ k.completed_at > k.deadline
<1> DEFINE done == k.completed_at
<1>1. done \in Nat \cup {A!None} /\ k.deadline \in Nat
  BY BoundsAssumption DEF A!TaskRecord, A!Time
<1>2. CASE k.status = "Unregistered"
  <2>1. A!WorkOf(k) = "unassigned"
    BY <1>2 DEF A!WorkOf
  <2> QED  BY <1>2, <2>1
<1>3. CASE k.status # "Unregistered" /\ done = A!None
  <2>1. ~ done \in 0..k.deadline /\ ~ done > k.deadline
    BY <1>1, <1>3 DEF A!None
  <2>2. A!WorkOf(k) = "due"
    BY <1>3, <2>1 DEF A!WorkOf
  <2> QED  BY <1>3, <2>1, <2>2
<1>4. CASE k.status # "Unregistered" /\ done \in 0..k.deadline
  <2>1. done # A!None /\ ~ done > k.deadline
    BY <1>1, <1>4 DEF A!None
  <2>2. A!WorkOf(k) = "in time"
    BY <1>4, <2>1 DEF A!WorkOf
  <2> QED  BY <1>4, <2>1, <2>2
<1>5. CASE k.status # "Unregistered" /\ done > k.deadline
  <2>1. done # A!None /\ ~ done \in 0..k.deadline
    BY <1>1, <1>5 DEF A!None
  <2>2. A!WorkOf(k) = "late"
    BY <1>5, <2>1 DEF A!WorkOf
  <2> QED  BY <1>5, <2>1, <2>2
<1>6. done = A!None \/ done \in 0..k.deadline \/ done > k.deadline
  BY <1>1
<1> QED  BY <1>2, <1>3, <1>4, <1>5, <1>6

\* What Dispute sees of a challenge.
LEMMA SeenDispute ==
  ASSUME NEW c \in A!Challenge
  PROVE  /\ A!DisputeOf(c) = "none" <=> c.status = "Unfiled"
         /\ A!DisputeOf(c) = "open" <=> c.status = "Filed"
         /\ A!DisputeOf(c) = "upheld" <=> c.status = "Resolved"
         /\ A!DisputeOf(c) = "dismissed" <=> c.status = "Dismissed"
<1>1. c.status \in A!ChallengeStatus
  BY DEF A!Challenge
<1> QED  BY <1>1 DEF A!ChallengeStatus, A!DisputeOf

\* What the challenger holds against the agent.
LEMMA SeenClaim ==
  ASSUME NEW c \in A!Challenge, c.status # "Unfiled"
  PROVE  /\ A!ClaimOf(c) \in A!D!Claims
         /\ A!ClaimOf(c) = "missed deadline" <=> c.failure_type = "MissedDeadline"
         /\ A!ClaimOf(c) = "shown"
              <=> c.failure_type = "OutOfScopeCall" /\ c.has_proof
         /\ A!ClaimOf(c) = "not shown"
              <=> c.failure_type = "OutOfScopeCall" /\ ~c.has_proof
<1>1. c.failure_type \in A!FailureType /\ c.has_proof \in BOOLEAN
  BY DEF A!Challenge
<1> QED  BY <1>1 DEF A!FailureType, A!ClaimOf, A!D!Claims

\* Before the first instruction nothing is assigned or disputed.
LEMMA InitMaps == A!Init => A!D!Init
<1> SUFFICES ASSUME A!Init PROVE A!D!Init
  OBVIOUS
<1>1. A!WorkOf(A!NoTask) = "unassigned"
  BY DEF A!WorkOf, A!NoTask
<1>2. A!DisputeOf(A!NoChallenge) = "none" /\ A!ClaimOf(A!NoChallenge) = "none"
  BY DEF A!DisputeOf, A!ClaimOf, A!NoChallenge
<1> QED
  BY <1>1, <1>2 DEF A!Init, A!D!Init, A!WorkDone, A!DisputeState, A!ClaimMade

\* What both paths of auto_adjudicate do to the two accounts.
Verdict(t, taskStatus, challengeStatus) ==
    /\ challenges[t].status = "Filed"
    /\ challenges' = [challenges EXCEPT ![t].status = challengeStatus]
    /\ tasks' = [tasks EXCEPT ![t].status = taskStatus]

\* A verdict ends the dispute and touches neither work nor claim.
LEMMA VerdictMaps ==
  ASSUME EvidenceInv, NEW t \in Tasks,
         NEW ts \in {"Slashed", "Dismissed"},
         NEW cs \in {"Resolved", "Dismissed"}, Verdict(t, ts, cs)
  PROVE  /\ UNCHANGED <<A!WorkDone, A!ClaimMade>>
         /\ A!DisputeState[t] = "open"
         /\ cs = "Resolved" =>
              A!DisputeState' = [A!DisputeState EXCEPT ![t] = "upheld"]
         /\ cs = "Dismissed" =>
              A!DisputeState' = [A!DisputeState EXCEPT ![t] = "dismissed"]
<1>0. /\ tasks \in [Tasks -> A!TaskRecord] /\ challenges \in [Tasks -> A!Challenge]
  BY DEF EvidenceInv, DisputesAgree, A!TypeOK
<1>1. tasks[t].status = "Challenged" /\ challenges[t].status = "Filed"
  BY DEF Verdict, EvidenceInv, DisputesAgree, A!StatusesAgree
<1>2. PICK k \in A!TaskRecord :
        /\ k.status = ts /\ tasks' = [tasks EXCEPT ![t] = k]
        /\ k.completed_at = tasks[t].completed_at
        /\ k.deadline = tasks[t].deadline
  <2> DEFINE x == [tasks[t] EXCEPT !.status = ts]
  <2>1. /\ x \in A!TaskRecord /\ x.status = ts
        /\ x.completed_at = tasks[t].completed_at
        /\ x.deadline = tasks[t].deadline
    BY <1>0 DEF A!TaskRecord, A!TaskStatus
  <2>2. tasks' = [tasks EXCEPT ![t] = x]
    BY <1>0 DEF Verdict
  <2> HIDE DEF x
  <2> QED  BY <2>1, <2>2
<1>3. PICK c \in A!Challenge :
        /\ c.status = cs /\ challenges' = [challenges EXCEPT ![t] = c]
        /\ c.failure_type = challenges[t].failure_type
        /\ c.has_proof = challenges[t].has_proof
  <2> DEFINE x == [challenges[t] EXCEPT !.status = cs]
  <2>1. /\ x \in A!Challenge /\ x.status = cs
        /\ x.failure_type = challenges[t].failure_type
        /\ x.has_proof = challenges[t].has_proof
    BY <1>0 DEF A!Challenge, A!ChallengeStatus
  <2>2. challenges' = [challenges EXCEPT ![t] = x]
    BY <1>0 DEF Verdict
  <2> HIDE DEF x
  <2> QED  BY <2>1, <2>2
<1>4. A!WorkOf(k) = A!WorkOf(tasks[t])
  <2>1. k.status # "Unregistered" /\ tasks[t].status # "Unregistered"
    BY <1>1, <1>2
  <2> QED  BY <1>0, <1>2, <2>1, SeenWork DEF A!WorkOf
<1>5. A!ClaimOf(c) = A!ClaimOf(challenges[t])
  BY <1>1, <1>3 DEF A!ClaimOf
<1>6. /\ A!DisputeOf(challenges[t]) = "open"
      /\ cs = "Resolved" => A!DisputeOf(c) = "upheld"
      /\ cs = "Dismissed" => A!DisputeOf(c) = "dismissed"
  BY <1>0, <1>1, <1>3, SeenDispute
<1> QED
  BY <1>0, <1>2, <1>3, <1>4, <1>5, <1>6 DEF A!WorkDone, A!DisputeState, A!ClaimMade

\* What valid_proof establishes is a ground of Dispute.
LEMMA EvidenceUpholds ==
  ASSUME EvidenceInv, NEW t \in Tasks,
         challenges[t].status = "Filed", A!ValidProof(t)
  PROVE  A!D!MayUphold(t)
<1>1. tasks[t] \in A!TaskRecord /\ challenges[t] \in A!Challenge
  BY DEF EvidenceInv, DisputesAgree, A!TypeOK
<1>2. tasks[t].status = "Challenged"
  BY DEF EvidenceInv, DisputesAgree, A!StatusesAgree
<1>3. CASE challenges[t].failure_type = "MissedDeadline" /\ A!Missed(t)
  <2>1. A!WorkOf(tasks[t]) \in {"due", "late"}
    BY <1>1, <1>2, <1>3, SeenWork DEF A!Missed
  <2>2. A!ClaimOf(challenges[t]) = "missed deadline"
    BY <1>1, <1>3, SeenClaim
  <2> QED  BY <2>1, <2>2 DEF A!D!MayUphold, A!WorkDone, A!ClaimMade
<1>4. CASE challenges[t].failure_type = "OutOfScopeCall" /\ challenges[t].has_proof
  <2>1. A!ClaimOf(challenges[t]) = "shown"
    BY <1>1, <1>4, SeenClaim
  <2> QED  BY <2>1 DEF A!D!MayUphold, A!ClaimMade
<1> QED  BY <1>3, <1>4 DEF A!ValidProof

\* Where it establishes nothing, Dispute has a ground to dismiss: a late
\* completion is older than the verdict, so its deadline has passed.
LEMMA EvidenceDismisses ==
  ASSUME EvidenceInv, NEW t \in Tasks,
         challenges[t].status = "Filed", ~A!ValidProof(t)
  PROVE  A!D!MayDismiss(t)
<1>1. /\ tasks[t] \in A!TaskRecord /\ challenges[t] \in A!Challenge
      /\ tasks[t].status = "Challenged"
  BY DEF EvidenceInv, DisputesAgree, A!TypeOK, A!StatusesAgree
<1>2. CASE challenges[t].failure_type = "MissedDeadline"
  <2>1. ~A!Missed(t)
    BY <1>2 DEF A!ValidProof
  <2>2. ~ tasks[t].completed_at > tasks[t].deadline
    <3>1. /\ tasks[t].completed_at <= now /\ tasks[t].completed_at \in Int
          /\ tasks[t].deadline \in Int /\ now \in Int
      BY <1>1, BoundsAssumption DEF EvidenceInv, DisputesAgree, CompletionsArePast, A!TypeOK, A!TaskRecord,
           A!Time, A!None
    <3> QED  BY <2>1, <3>1 DEF A!Missed
  <2>3. A!WorkOf(tasks[t]) \in {"due", "in time"}
    BY <1>1, <2>2, SeenWork
  <2>4. A!ClaimOf(challenges[t]) = "missed deadline"
    BY <1>1, <1>2, SeenClaim
  <2> QED  BY <2>3, <2>4 DEF A!D!MayDismiss, A!WorkDone, A!ClaimMade
<1>3. CASE challenges[t].failure_type = "OutOfScopeCall"
  <2>1. ~challenges[t].has_proof
    BY <1>3 DEF A!ValidProof
  <2>2. A!ClaimOf(challenges[t]) = "not shown"
    BY <1>1, <1>3, <2>1, SeenClaim
  <2> QED  BY <2>2 DEF A!D!MayDismiss, A!ClaimMade
<1> QED  BY <1>1, <1>2, <1>3 DEF A!Challenge, A!FailureType

\* register_task assigns a task that was not.
LEMMA AssignMaps ==
  ASSUME EvidenceInv, NEW t \in Tasks, NEW d \in A!Time, A!RegisterTask(t, d)
  PROVE  A!D!Assign(t)
<1> USE DEF A!WorkDone, A!DisputeState, A!ClaimMade
<1>0. /\ tasks \in [Tasks -> A!TaskRecord] /\ challenges \in [Tasks -> A!Challenge]
      /\ A!StatusesAgree
  BY DEF EvidenceInv, DisputesAgree, A!TypeOK
<1>1. PICK k \in A!TaskRecord :
        /\ k.status = "Pending" /\ k.completed_at = A!None
        /\ tasks' = [tasks EXCEPT ![t] = k]
  <2> DEFINE x == [A!NoTask EXCEPT !.status = "Pending", !.deadline = d]
  <2>1. x \in A!TaskRecord /\ x.status = "Pending" /\ x.completed_at = A!None
    BY BoundsAssumption DEF A!NoTask, A!TaskRecord, A!TaskStatus, A!Time
  <2>2. tasks' = [tasks EXCEPT ![t] = x]
    BY DEF A!RegisterTask
  <2> HIDE DEF x
  <2> QED  BY <2>1, <2>2
<1>2. A!WorkOf(tasks[t]) = "unassigned" /\ A!WorkOf(k) = "due"
  BY <1>0, <1>1, SeenWork DEF A!RegisterTask
<1>3. UNCHANGED challenges
  BY DEF A!RegisterTask
<1> QED  BY <1>0, <1>1, <1>2, <1>3 DEF A!D!Assign

\* complete_task delivers a task that is due and not in dispute.
LEMMA DeliverMaps ==
  ASSUME EvidenceInv, NEW t \in Tasks, A!CompleteTask(t)
  PROVE  A!D!Deliver(t)
<1> USE DEF A!WorkDone, A!DisputeState, A!ClaimMade
<1>0. /\ tasks \in [Tasks -> A!TaskRecord] /\ challenges \in [Tasks -> A!Challenge]
      /\ A!StatusesAgree
  BY DEF EvidenceInv, DisputesAgree, A!TypeOK
<1>1. /\ tasks[t].status = "Pending" /\ tasks[t].completed_at = A!None
      /\ challenges[t].status = "Unfiled" /\ now \in Nat
  BY <1>0, BoundsAssumption
  DEF A!CompleteTask, A!StatusesAgree, A!Challenge, A!ChallengeStatus, EvidenceInv, DisputesAgree,
      CompletionsArePast, A!TypeOK, A!Time
<1>2. PICK k \in A!TaskRecord :
        /\ k.status = "Completed" /\ k.completed_at = now
        /\ tasks' = [tasks EXCEPT ![t] = k]
  <2> DEFINE x == [tasks[t] EXCEPT !.status = "Completed", !.completed_at = now]
  <2>1. x \in A!TaskRecord /\ x.status = "Completed" /\ x.completed_at = now
    BY <1>0 DEF EvidenceInv, DisputesAgree, A!TypeOK, A!TaskRecord, A!TaskStatus
  <2>2. tasks' = [tasks EXCEPT ![t] = x]
    BY <1>0 DEF A!CompleteTask
  <2> HIDE DEF x
  <2> QED  BY <2>1, <2>2
<1>3. A!WorkOf(tasks[t]) = "due" /\ A!DisputeOf(challenges[t]) = "none"
  BY <1>0, <1>1, SeenWork, SeenDispute
<1>4. A!WorkOf(k) \in {"in time", "late"}
  <2>1. k.status # "Unregistered" /\ k.completed_at # A!None
    BY <1>1, <1>2 DEF A!None
  <2> QED  BY <2>1, SeenWork
<1>5. UNCHANGED challenges
  BY DEF A!CompleteTask
<1> QED  BY <1>0, <1>2, <1>3, <1>4, <1>5 DEF A!D!Deliver

\* file_challenge opens the only dispute a task will have.
LEMMA OpenMaps ==
  ASSUME EvidenceInv, NEW t \in Tasks, NEW w \in Wallets, NEW f \in A!FailureType,
         NEW p \in ProofLengths, A!FileChallenge(t, w, f, p)
  PROVE  A!D!Open(t)
<1> USE DEF A!WorkDone, A!DisputeState, A!ClaimMade
<1>0. /\ tasks \in [Tasks -> A!TaskRecord] /\ challenges \in [Tasks -> A!Challenge]
      /\ A!StatusesAgree
  BY DEF EvidenceInv, DisputesAgree, A!TypeOK
<1>1. /\ tasks[t].status \in {"Pending", "Completed"}
      /\ challenges[t].status = "Unfiled"
  BY <1>0
  DEF A!FileChallenge, A!Challengeable, A!StatusesAgree, A!Challenge, A!ChallengeStatus
<1>2. PICK c \in A!Challenge :
        c.status = "Filed" /\ challenges' = [challenges EXCEPT ![t] = c]
  <2> DEFINE x == [status |-> "Filed", challenger |-> w, failure_type |-> f,
                   has_proof |-> p > 0, filed_at |-> now]
  <2>1. x \in A!Challenge /\ x.status = "Filed"
    BY DEF EvidenceInv, DisputesAgree, A!TypeOK, A!Challenge, A!ChallengeStatus
  <2>2. challenges' = [challenges EXCEPT ![t] = x]
    BY DEF A!FileChallenge
  <2> HIDE DEF x
  <2> QED  BY <2>1, <2>2
<1>3. PICK k \in A!TaskRecord :
        /\ k.status # "Unregistered" /\ tasks' = [tasks EXCEPT ![t] = k]
        /\ k.completed_at = tasks[t].completed_at
        /\ k.deadline = tasks[t].deadline
  <2> DEFINE x == [tasks[t] EXCEPT !.status = "Challenged"]
  <2>1. /\ x \in A!TaskRecord /\ x.status # "Unregistered"
        /\ x.completed_at = tasks[t].completed_at
        /\ x.deadline = tasks[t].deadline
    BY <1>0 DEF A!TaskRecord, A!TaskStatus
  <2>2. tasks' = [tasks EXCEPT ![t] = x]
    BY <1>0 DEF A!FileChallenge
  <2> HIDE DEF x
  <2> QED  BY <2>1, <2>2
<1>4. A!WorkOf(k) = A!WorkOf(tasks[t]) /\ A!WorkOf(k) # "unassigned"
  BY <1>0, <1>1, <1>3, SeenWork DEF A!WorkOf
<1>5. /\ A!DisputeOf(challenges[t]) = "none" /\ A!DisputeOf(c) = "open"
      /\ A!ClaimOf(c) \in A!D!Claims
  BY <1>0, <1>1, <1>2, SeenDispute, SeenClaim
<1>6. UNCHANGED A!WorkDone
  BY <1>0, <1>3, <1>4
<1>7. A!DisputeState[t] = "none" /\ A!WorkDone[t] # "unassigned"
  BY <1>4, <1>5
<1>8. A!DisputeState' = [A!DisputeState EXCEPT ![t] = "open"]
  BY <1>0, <1>2, <1>5
<1>9. \E x \in A!D!Claims : A!ClaimMade' = [A!ClaimMade EXCEPT ![t] = x]
  BY <1>0, <1>2, <1>5
<1> HIDE DEF A!WorkDone, A!DisputeState, A!ClaimMade
<1> QED  BY <1>6, <1>7, <1>8, <1>9 DEF A!D!Open

\* The first path of auto_adjudicate upholds.
LEMMA UpholdMaps ==
  ASSUME EvidenceInv, NEW t \in Tasks, A!SlashAgent(t)
  PROVE  A!D!Uphold(t)
<1>1. Verdict(t, "Slashed", "Resolved")
  BY DEF A!SlashAgent, Verdict
<1>2. /\ UNCHANGED <<A!WorkDone, A!ClaimMade>> /\ A!DisputeState[t] = "open"
      /\ A!DisputeState' = [A!DisputeState EXCEPT ![t] = "upheld"]
  BY <1>1, VerdictMaps
<1>3. A!D!MayUphold(t)
  BY EvidenceUpholds DEF A!SlashAgent
<1> QED  BY <1>2, <1>3 DEF A!D!Uphold

\* The second one dismisses.
LEMMA DismissMaps ==
  ASSUME EvidenceInv, NEW t \in Tasks, A!DismissChallenge(t)
  PROVE  A!D!Dismiss(t)
<1>1. Verdict(t, "Dismissed", "Dismissed")
  BY DEF A!DismissChallenge, Verdict
<1>2. /\ UNCHANGED <<A!WorkDone, A!ClaimMade>> /\ A!DisputeState[t] = "open"
      /\ A!DisputeState' = [A!DisputeState EXCEPT ![t] = "dismissed"]
  BY <1>1, VerdictMaps
<1>3. A!D!MayDismiss(t)
  BY EvidenceDismisses DEF A!DismissChallenge
<1> QED  BY <1>2, <1>3 DEF A!D!Dismiss

-----------------------------------------------------------------------------
(* The programs together implement Escrow                                   *)

\* Every instruction of adjudication is a step of Dispute, whatever it calls.
LEMMA DisputeMaps ==
  ASSUME EvidenceInv, [A!Next]_(A!vars)
  PROVE  [A!D!Next]_(A!D!vars)
<1>1. CASE A!Tick \/ UNCHANGED A!vars
  BY <1>1 DEF A!Tick, A!vars, A!D!vars, A!WorkDone, A!DisputeState, A!ClaimMade
<1>2. CASE ~A!Tick /\ ~UNCHANGED A!vars
  <2>1. \E t \in Tasks : \/ A!D!Assign(t) \/ A!D!Deliver(t) \/ A!D!Open(t)
                         \/ A!D!Uphold(t) \/ A!D!Dismiss(t)
    BY <1>2, AssignMaps, DeliverMaps, OpenMaps, UpholdMaps, DismissMaps DEF A!Next
  <2> QED  BY <2>1 DEF A!D!Next
<1> QED  BY <1>1, <1>2

\* The evidence is kept by everything the programs do.
LEMMA EvidenceInit == ProtocolInit => EvidenceInv
BY DisputesInit, CompletionsInit DEF ProtocolInit, EvidenceInv

LEMMA EvidenceStep == EvidenceInv /\ [ProtocolNext]_protocolVars => EvidenceInv'
<1> SUFFICES ASSUME EvidenceInv, [ProtocolNext]_protocolVars PROVE EvidenceInv'
  OBVIOUS
<1>1. [A!Next]_(A!vars) /\ DisputesAgree'
  BY AdjudicationStep, DisputesStep DEF EvidenceInv
<1>2. CompletionsArePast'
  BY <1>1, CompletionsStep DEF EvidenceInv, DisputesAgree
<1> QED  BY <1>1, <1>2 DEF EvidenceInv

\* However many tasks there are, and whoever locks, unlocks and slashes directly:
\* each dispute is decided once, on the evidence at its opening.
THEOREM DisputesJudged == ProtocolSpec => A!JudgesDisputes
<1>1. A!Init => A!D!Init
  BY InitMaps
<1>2. ProtocolInit => A!Init
  BY DEF ProtocolInit
<1>3. EvidenceInv /\ [ProtocolNext]_protocolVars => [A!D!Next]_(A!D!vars)
  BY AdjudicationStep, DisputeMaps
<1> QED
  BY <1>1, <1>2, <1>3, EvidenceInit, EvidenceStep, PTL
  DEF ProtocolSpec, A!JudgesDisputes, A!D!Spec

\* What HeldInv does not say: a fund that does not exist has no stake, so
\* initialize_fund takes none away.
EscrowInv ==
    /\ HeldInv
    /\ EvidenceInv
    /\ ~fund.initialized => fund.total_locked_stake = 0

LEMMA EscrowInit == ProtocolInit => EscrowInv
BY HeldInit, EvidenceInit DEF ProtocolInit, Init, NoFund, EscrowInv

LEMMA EscrowStep == EscrowInv /\ [ProtocolNext]_protocolVars => EscrowInv'
<1> SUFFICES ASSUME EscrowInv, [ProtocolNext]_protocolVars PROVE EscrowInv'
  OBVIOUS
<1>0. HeldInv' /\ EvidenceInv' /\ fund \in FundAccount /\ [Next]_vars
  BY HeldStep, EvidenceStep, FundStep DEF EscrowInv, HeldInv, TypeOK
<1>1. CASE UNCHANGED fund
  BY <1>0, <1>1 DEF EscrowInv
<1>2. CASE ~UNCHANGED fund
  <2>1. fund'.initialized
    BY <1>0, <1>2
    DEF Next, StakerNext, AuthorityNext, InitializeFund, Stake, CommunityStake, CanStake,
        WithdrawStake, CanWithdraw, FundAfterWithdraw, DepositRewards, ClaimRewards,
        CanClaim, ApplySlashToStaker, LockFund, UnlockFund, ExecuteSlash, Tick, NoFund,
        FundAccount, vars
  <2> QED  BY <1>0, <2>1 DEF EscrowInv
<1> QED  BY <1>1, <1>2

\* What stakers do to the stake: it grows, or shrinks while the fund is not
\* locked, or stays.
LEMMA StakerMoves ==
  ASSUME TypeOK, StakerNext
  PROVE  /\ fund'.total_locked_stake \in Nat
         /\ \/ fund'.total_locked_stake > fund.total_locked_stake
            \/ /\ fund'.total_locked_stake < fund.total_locked_stake
               /\ ~fund.challenge_active
            \/ fund'.total_locked_stake = fund.total_locked_stake
<1>0. /\ fund \in FundAccount /\ fund.total_locked_stake \in Nat
      /\ U64Max \in Nat /\ StakeAmounts \subseteq Nat /\ MinStakeLamports \in Nat \ {0}
      /\ StakeCap \in Nat /\ StakeCap <= U64Max
  BY AmountsAssumption, BoundsAssumption, CapFits DEF TypeOK, FundAccount
<1>1. ASSUME NEW amount \in StakeAmounts, NEW s \in Stakers,
             Stake(amount) \/ CommunityStake(s, amount)
      PROVE  /\ fund'.total_locked_stake \in Nat
             /\ fund'.total_locked_stake > fund.total_locked_stake
  <2>1. /\ fund'.total_locked_stake = SatAdd(fund.total_locked_stake, amount, U64Max)
        /\ amount >= MinStakeLamports /\ fund.total_locked_stake + amount <= StakeCap
    BY <1>0, <1>1 DEF Stake, CommunityStake, CanStake, WithinCap, FundAccount
  <2> QED  BY <1>0, <2>1 DEF SatAdd
<1>2. ASSUME NEW s \in Stakers, NEW amount \in WithdrawAmounts(s),
             WithdrawStake(s, amount)
      PROVE  /\ fund'.total_locked_stake \in Nat
             /\ fund'.total_locked_stake <= fund.total_locked_stake
             /\ ~fund.challenge_active
  <2>1. fund'.total_locked_stake = SatSub(fund.total_locked_stake, amount)
    BY <1>0, <1>2 DEF WithdrawStake, FundAfterWithdraw, FundAccount
  <2>2. amount \in Nat /\ ~fund.challenge_active
    BY <1>0, <1>2
    DEF WithdrawStake, CanWithdraw, WithdrawAmounts, TypeOK, StakerPosition
  <2> QED  BY <1>0, <2>1, <2>2 DEF SatSub
<1>3. ASSUME \/ \E amount \in RewardAmounts : DepositRewards(amount)
             \/ \E s \in Stakers : ClaimRewards(s)
             \/ \E s \in Stakers : ApplySlashToStaker(s)
      PROVE  fund'.total_locked_stake = fund.total_locked_stake
  BY <1>0, <1>3 DEF DepositRewards, ClaimRewards, ApplySlashToStaker, FundAccount
<1> QED
  BY <1>0, <1>1, <1>2, <1>3, StakersAssumption DEF StakerNext

\* Every instruction of the three programs is a step of Escrow, or one that Escrow
\* does not see.
LEMMA EscrowMaps ==
  ASSUME EscrowInv, [ProtocolNext]_protocolVars
  PROVE  [E!EscrowNext]_(E!escrowVars)
<1> DEFINE total == fund.total_locked_stake
<1>0. /\ TypeOK /\ EvidenceInv /\ HeldIsLocked
      /\ fund \in FundAccount /\ total \in Nat
      /\ challenges \in [Tasks -> A!Challenge]
      /\ DefaultSlash \in Nat /\ SlashAmounts \subseteq Nat
  BY AmountsAssumption, ProtocolAssumption
  DEF EscrowInv, HeldInv, TypeOK, FundAccount, DisputesAgree, A!TypeOK
<1>1. ASSUME NEW t \in Tasks, FileChallenge(t)
      PROVE  E!Contest(t)
  <2>1. E!Open(t)
    BY <1>0, <1>1, OpenMaps DEF FileChallenge, E!Open, A!D!Open, E!Claims, A!D!Claims
  <2>2. total' = total /\ held' \in {held, held \cup {t}}
    BY <1>0, <1>1 DEF FileChallenge, LockFund, FundAccount, fundVars
  <2> QED  BY <2>1, <2>2 DEF E!Contest
<1>2. ASSUME NEW amount \in SlashAmounts, NEW c \in Challengers, ExecuteSlash(amount, c)
      PROVE  total >= amount /\ total' = total - amount
  <2>1. total >= amount /\ total' = SatSub(total, amount)
    BY <1>0, <1>2 DEF ExecuteSlash, FundAccount
  <2> QED  BY <1>0, <2>1 DEF SatSub
<1>3. ASSUME NEW t \in Tasks, SlashAgent(t)
      PROVE  E!Penalise(t) \/ E!Close(t)
  <2>1. E!Uphold(t)
    BY <1>0, <1>3, UpholdMaps
    DEF SlashAgent, E!Uphold, A!D!Uphold, E!MayUphold, A!D!MayUphold
  <2>2. CASE SlashFund(t)
    <3>1. total >= DefaultSlash /\ total' = total - DefaultSlash /\ held' = {}
      BY <1>2, <2>2, ProtocolAssumption DEF SlashFund
    <3> QED  BY <2>1, <3>1 DEF E!Penalise
  <2>3. CASE SpareFund(t)
    BY <2>1, <2>3 DEF SpareFund, fundVars, E!Close
  <2> QED  BY <1>3, <2>2, <2>3 DEF SlashAgent
<1>4. ASSUME NEW t \in Tasks, DismissChallenge(t)
      PROVE  E!Close(t)
  <2>1. E!Dismiss(t)
    BY <1>0, <1>4, DismissMaps
    DEF DismissChallenge, E!Dismiss, A!D!Dismiss, E!MayDismiss, A!D!MayDismiss
  <2>2. total' = total /\ held' \in {{}, held \ {t}}
    BY <1>0, <1>4 DEF DismissChallenge, SpareFund, UnlockFund, FundAccount, fundVars
  <2> QED  BY <2>1, <2>2 DEF E!Close
<1>5. ASSUME RegisterTask \/ CompleteTask
      PROVE  \E t \in Tasks : E!Perform(t)
  <2>1. \E t \in Tasks : E!Assign(t) \/ E!Deliver(t)
    BY <1>0, <1>5, AssignMaps, DeliverMaps
    DEF RegisterTask, CompleteTask, E!Assign, A!D!Assign, E!Deliver, A!D!Deliver
  <2>2. UNCHANGED <<total, held>>
    BY <1>5 DEF RegisterTask, CompleteTask, fundVars, historyVars
  <2> QED  BY <2>1, <2>2 DEF E!Perform
<1>6. ASSUME UNCHANGED <<tasks, challenges>>
      PROVE  UNCHANGED E!vars
  BY <1>6 DEF E!vars, A!WorkDone, A!DisputeState, A!ClaimMade
<1>7. CASE StakerStep
  <2>1. UNCHANGED <<E!vars, held>>
    BY <1>6, <1>7 DEF StakerStep, adjudicationVars, historyVars
  <2>2. CASE total' > total
    BY <2>1, <2>2 DEF E!EscrowNext, E!Deposit
  <2>3. CASE total' \in Nat /\ total' < total /\ ~fund.challenge_active
    <3>1. held = {}
      BY <1>0, <2>3 DEF HeldIsLocked
    <3> QED  BY <2>1, <2>3, <3>1 DEF E!EscrowNext, E!Withdraw
  <2>4. CASE total' = total
    BY <2>1, <2>4 DEF E!escrowVars
  <2> QED  BY <1>0, <1>7, <2>2, <2>3, <2>4, StakerMoves DEF StakerStep
<1>8. CASE OpenFund
  <2>1. total' = 0 /\ total = 0
    BY <1>8 DEF OpenFund, InitializeFund, NoFund, EscrowInv
  <2> QED
    BY <1>6, <1>8, <2>1 DEF OpenFund, adjudicationVars, historyVars, E!escrowVars
<1>9. CASE \/ RegisterAgent \/ AgentStep \/ DirectRecordSlash \/ ClockStep
           \/ UNCHANGED protocolVars
  <2>1. UNCHANGED <<fund, tasks, challenges, held>>
    BY <1>9
    DEF RegisterAgent, AgentStep, DirectRecordSlash, ClockStep, Tick, protocolVars,
        fundVars, adjudicationVars, historyVars
  <2> QED  BY <1>6, <2>1 DEF E!escrowVars
<1>10. CASE DirectLock
  <2>1. total' = total /\ UNCHANGED <<tasks, challenges, held>>
    BY <1>0, <1>10 DEF DirectLock, LockFund, FundAccount, adjudicationVars, historyVars
  <2> QED  BY <1>6, <2>1 DEF E!escrowVars
<1>11. CASE DirectUnlock
  <2>1. total' = total /\ held' = {} /\ UNCHANGED <<tasks, challenges>>
    BY <1>0, <1>11 DEF DirectUnlock, UnlockFund, FundAccount, adjudicationVars
  <2> QED  BY <1>6, <2>1 DEF E!EscrowNext, E!Lift
<1>12. CASE DirectExecuteSlash
  <2>1. PICK amount \in SlashAmounts :
          /\ total >= amount /\ total' = total - amount
          /\ held' = {} /\ UNCHANGED <<tasks, challenges>>
    BY <1>2, <1>12 DEF DirectExecuteSlash, adjudicationVars
  <2>2. total' \in Nat /\ total' <= total
    BY <1>0, <2>1
  <2> QED  BY <1>6, <2>1, <2>2 DEF E!EscrowNext, E!Slash
<1> QED
  BY <1>1, <1>3, <1>4, <1>5, <1>7, <1>8, <1>9, <1>10, <1>11, <1>12
  DEF ProtocolNext, E!EscrowNext

\* The three programs implement Escrow, whoever calls and whatever is named: what
\* others can do is lift the hold or slash, and no more.
THEOREM EscrowCorrect == ProtocolSpec => HoldsInEscrow
<1>1. A!Init => E!Init
  BY InitMaps DEF E!Init, A!D!Init
<1>2. ProtocolInit => E!EscrowInit
  BY <1>1 DEF ProtocolInit, Init, NoFund, E!EscrowInit
<1>3. EscrowInv /\ [ProtocolNext]_protocolVars => EscrowInv'
  BY EscrowStep
<1>4. EscrowInv /\ [ProtocolNext]_protocolVars => [E!EscrowNext]_(E!escrowVars)
  BY EscrowMaps
<1> QED
  BY <1>2, <1>3, <1>4, EscrowInit, PTL DEF ProtocolSpec, HoldsInEscrow, E!EscrowSpec

=============================================================================
