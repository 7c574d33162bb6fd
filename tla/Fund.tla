-------------------------------- MODULE Fund --------------------------------
(***************************************************************************)
(* The dolores_fund program: the FundAccount of one (operator, agent)      *)
(* pair, the StakerPosition of every staker, and the lamports of the vault.*)
(*                                                                         *)
(* Every instruction is one atomic action: a Solana transaction either     *)
(* applies all of an instruction's writes or, when a require!, an account  *)
(* constraint or an inner transfer fails, none.  Fields nothing reads      *)
(* (staked_at, total_claimed, last_reward_epoch, bumps) and the events     *)
(* are left out.                                                           *)
(***************************************************************************)
EXTENDS Integers, FiniteSets

CONSTANTS
    Stakers,            \* wallets that may hold a position
    Operator,           \* the staker that runs the agent
    Challengers,        \* accounts a slash may name as its beneficiary
    NoOne,              \* the default pubkey
    StakeAmounts,       \* lamport amounts passed to stake and withdraw_stake
    RewardAmounts,      \* ... to deposit_rewards
    SlashAmounts,       \* ... to execute_slash
    MinStakeLamports,   \* MIN_STAKE_LAMPORTS
    BpsDenominator,     \* BPS_DENOMINATOR
    RewardEpoch,        \* REWARD_EPOCH_SECS
    RentExempt,         \* rent-exempt balance of an account without data
    U64Max,             \* largest u64
    U16Max,             \* largest u16
    VaultSystemOwned    \* does the system program own the vault?  As the
                        \* comments have it; init makes the program its owner

CONSTANTS               \* bounds of the model
    StakeCap,           \* lamports the fund's stake counters may reach
    RewardCap,          \* lamports the rewards counter may reach
    MaxTime,            \* last reading of the clock
    MaxSlashes          \* executed slashes

ASSUME StakersAssumption ==
    Operator \in Stakers /\ IsFiniteSet(Stakers) /\ NoOne \notin Challengers

ASSUME AmountsAssumption ==
    /\ U64Max \in Nat /\ U16Max \in Nat
    /\ StakeAmounts \cup RewardAmounts \cup SlashAmounts \subseteq 0..U64Max
    /\ MinStakeLamports \in Nat \ {0}
    /\ RentExempt \in 0..U64Max
    /\ RewardEpoch \in Nat
    /\ VaultSystemOwned \in BOOLEAN

ASSUME BpsAssumption == BpsDenominator \in Nat \ {0}

\* A fund below the cap never saturates the u64 product of execute_slash: the
\* real constants give StakeCap = 1.8 million SOL.
ASSUME BoundsAssumption ==
    /\ StakeCap \in Nat /\ RewardCap \in 0..U64Max
    /\ MaxTime \in Nat /\ MaxSlashes \in Nat
    /\ StakeCap * BpsDenominator <= U64Max

VARIABLES
    fund,               \* the FundAccount
    positions,          \* staker -> its StakerPosition
    vault,              \* lamports of the vault PDA
    now,                \* Clock::unix_timestamp
    slashes,            \* history: slashes executed so far
    overpaid            \* history: lamports claims took beyond the rewards

vars == <<fund, positions, vault, now, slashes, overpaid>>

-----------------------------------------------------------------------------
(* Types                                                                    *)

U64 == 0..U64Max

FundAccount ==
    [initialized              : BOOLEAN,
     total_locked_stake       : U64,
     validator_stake          : U64,
     community_stake          : U64,
     accumulated_rewards      : U64,
     staker_count             : 0..U16Max,
     challenge_active         : BOOLEAN,
     last_slash_ratio_bps     : 0..BpsDenominator,
     pending_slash_challenger : Challengers \cup {NoOne},
     pending_slash_amount     : U64]

StakerPosition ==
    [opened        : BOOLEAN,
     amount_staked : U64,
     last_claim_ts : Nat,
     is_validator  : BOOLEAN,
     slash_applied : BOOLEAN]

TypeOK ==
    /\ fund \in FundAccount
    /\ positions \in [Stakers -> StakerPosition]
    /\ vault \in U64
    /\ now \in 0..MaxTime
    /\ slashes \in 0..MaxSlashes
    /\ overpaid \in Nat

-----------------------------------------------------------------------------
(* Machine arithmetic                                                       *)

SatAdd(x, y, max) == IF x + y > max THEN max ELSE x + y

SatSub(x, y) == IF y > x THEN 0 ELSE x - y

SatMul(x, y) == IF x * y > U64Max THEN U64Max ELSE x * y

-----------------------------------------------------------------------------
(* What the Solana runtime asks of the vault's lamports: an account keeps   *)
(* its rent-exempt balance or is emptied, and only the program that owns an *)
(* account may debit it.                                                    *)

CanCredit(amount) ==
    /\ vault + amount <= U64Max
    /\ vault + amount >= RentExempt

CanDebit(amount) ==
    \/ amount = 0
    \/ /\ VaultSystemOwned
       /\ vault >= amount
       /\ vault - amount >= RentExempt \/ vault = amount

-----------------------------------------------------------------------------
(* Initial state and initialize_fund                                        *)

NoFund ==
    [initialized |-> FALSE, total_locked_stake |-> 0, validator_stake |-> 0,
     community_stake |-> 0, accumulated_rewards |-> 0, staker_count |-> 0,
     challenge_active |-> FALSE, last_slash_ratio_bps |-> 0,
     pending_slash_challenger |-> NoOne, pending_slash_amount |-> 0]

NoPosition ==
    [opened |-> FALSE, amount_staked |-> 0, last_claim_ts |-> 0,
     is_validator |-> FALSE, slash_applied |-> FALSE]

Init ==
    /\ fund = NoFund
    /\ positions = [s \in Stakers |-> NoPosition]
    /\ vault = 0
    /\ now = 0
    /\ slashes = 0
    /\ overpaid = 0

\* `init` on the fund and vault PDAs: possible once, pays the vault's rent.
InitializeFund ==
    /\ ~fund.initialized
    /\ fund' = [NoFund EXCEPT !.initialized = TRUE]
    /\ vault' = RentExempt
    /\ UNCHANGED <<positions, now, slashes, overpaid>>

-----------------------------------------------------------------------------
(* Staking                                                                  *)

WithinCap(amount) ==
    /\ fund.total_locked_stake + amount <= StakeCap
    /\ fund.validator_stake + fund.community_stake + amount <= StakeCap

CanStake(amount) ==
    /\ fund.initialized
    /\ amount >= MinStakeLamports
    /\ CanCredit(amount)
    /\ WithinCap(amount)

\* A position is (re)opened whenever it is found empty, and keeps its
\* slash_applied flag.
OpenedPosition(s, validator) ==
    IF positions[s].amount_staked = 0
    THEN [positions[s] EXCEPT !.opened = TRUE,
                              !.is_validator = validator,
                              !.last_claim_ts = now]
    ELSE positions[s]

StakedPosition(s, amount, validator) ==
    [OpenedPosition(s, validator) EXCEPT
        !.amount_staked = SatAdd(@, amount, U64Max)]

StakerCountAfterStake(s) ==
    IF positions[s].amount_staked = 0
    THEN SatAdd(fund.staker_count, 1, U16Max)
    ELSE fund.staker_count

Stake(amount) ==
    /\ CanStake(amount)
    /\ fund' = [fund EXCEPT
                  !.validator_stake = SatAdd(@, amount, U64Max),
                  !.total_locked_stake = SatAdd(@, amount, U64Max),
                  !.staker_count = StakerCountAfterStake(Operator)]
    /\ positions' = [positions EXCEPT
                       ![Operator] = StakedPosition(Operator, amount, TRUE)]
    /\ vault' = vault + amount
    /\ UNCHANGED <<now, slashes, overpaid>>

CommunityStake(s, amount) ==
    /\ s # Operator
    /\ CanStake(amount)
    /\ fund' = [fund EXCEPT
                  !.community_stake = SatAdd(@, amount, U64Max),
                  !.total_locked_stake = SatAdd(@, amount, U64Max),
                  !.staker_count = StakerCountAfterStake(s)]
    /\ positions' = [positions EXCEPT ![s] = StakedPosition(s, amount, FALSE)]
    /\ vault' = vault + amount
    /\ UNCHANGED <<now, slashes, overpaid>>

-----------------------------------------------------------------------------
(* Withdrawing                                                              *)

CanWithdrawLocked(s, amount) ==          \* mutation: ignores the challenge lock
    /\ fund.initialized
    /\ positions[s].opened
    /\ positions[s].amount_staked >= amount
    /\ CanDebit(amount)

CanWithdrawUnchecked(s, amount) ==       \* mutation: relies on saturation
    /\ fund.initialized
    /\ positions[s].opened
    /\ ~fund.challenge_active
    /\ CanDebit(amount)

\* The position is taken as it is stored: a slash that was not yet applied to
\* it is not subtracted first.
CanWithdraw(s, amount) ==
    /\ fund.initialized
    /\ positions[s].opened
    /\ ~fund.challenge_active
    /\ positions[s].amount_staked >= amount
    /\ CanDebit(amount)

FundAfterWithdrawOneHalf(s, amount) ==   \* mutation: community part forgotten
    [fund EXCEPT
       !.validator_stake = SatSub(@, amount),
       !.total_locked_stake = SatSub(@, amount),
       !.staker_count = IF positions[s].amount_staked = amount
                        THEN SatSub(@, 1) ELSE @]

\* The counter drops on every withdrawal that leaves nothing, also one of zero
\* lamports from a position that was already empty.
FundAfterWithdraw(s, amount) ==
    [fund EXCEPT
       !.validator_stake = IF positions[s].is_validator
                           THEN SatSub(@, amount) ELSE @,
       !.community_stake = IF positions[s].is_validator
                           THEN @ ELSE SatSub(@, amount),
       !.total_locked_stake = SatSub(@, amount),
       !.staker_count = IF positions[s].amount_staked = amount
                        THEN SatSub(@, 1) ELSE @]

WithdrawStake(s, amount) ==
    /\ CanWithdraw(s, amount)
    /\ fund' = FundAfterWithdraw(s, amount)
    /\ positions' = [positions EXCEPT ![s].amount_staked = SatSub(@, amount)]
    /\ vault' = vault - amount
    /\ UNCHANGED <<now, slashes, overpaid>>

-----------------------------------------------------------------------------
(* Rewards                                                                  *)

DepositRewards(amount) ==
    /\ fund.initialized
    /\ amount > 0
    /\ CanCredit(amount)
    /\ fund.accumulated_rewards + amount <= RewardCap
    /\ fund' = [fund EXCEPT !.accumulated_rewards = SatAdd(@, amount, U64Max)]
    /\ vault' = vault + amount
    /\ UNCHANGED <<positions, now, slashes, overpaid>>

\* u128 arithmetic, then `as u64`.
RewardOf(s) ==
    ((positions[s].amount_staked * fund.accumulated_rewards)
        \div fund.total_locked_stake) % (U64Max + 1)

CanClaim(s) ==
    /\ fund.initialized
    /\ positions[s].opened
    /\ now >= positions[s].last_claim_ts + RewardEpoch
    /\ fund.total_locked_stake > 0
    /\ fund.accumulated_rewards > 0
    /\ RewardOf(s) > 0
    /\ CanDebit(RewardOf(s))

ClaimRewardsKeepPot(s) ==                \* mutation: the pot is not reduced
    /\ CanClaim(s)
    /\ positions' = [positions EXCEPT ![s].last_claim_ts = now]
    /\ vault' = vault - RewardOf(s)
    /\ UNCHANGED <<fund, now, slashes, overpaid>>

ClaimRewards(s) ==
    /\ CanClaim(s)
    /\ fund' = [fund EXCEPT !.accumulated_rewards = SatSub(@, RewardOf(s))]
    /\ positions' = [positions EXCEPT ![s].last_claim_ts = now]
    /\ vault' = vault - RewardOf(s)
    /\ overpaid' = overpaid + SatSub(RewardOf(s), fund.accumulated_rewards)
    /\ UNCHANGED <<now, slashes>>

-----------------------------------------------------------------------------
(* Slashing                                                                 *)

SlashRatioBpsOfRest(amount) ==           \* mutation: the total is reduced first
    (amount * BpsDenominator) \div (fund.total_locked_stake - amount)

SlashRatioBps(amount) ==
    (amount * BpsDenominator) \div fund.total_locked_stake

AfterSlash(stake, ratio) ==
    SatMul(stake, BpsDenominator - ratio) \div BpsDenominator

\* The amount must be covered; with nothing locked the ratio divides by zero
\* and the transaction aborts.  Only the books change: no lamports move.
ExecuteSlash(amount, challenger) ==
    /\ fund.initialized
    /\ fund.total_locked_stake >= amount
    /\ fund.total_locked_stake > 0
    /\ slashes < MaxSlashes
    /\ LET ratio == SlashRatioBps(amount) IN
       fund' = [fund EXCEPT
                  !.total_locked_stake = SatSub(@, amount),
                  !.validator_stake = AfterSlash(@, ratio),
                  !.community_stake = AfterSlash(@, ratio),
                  !.challenge_active = FALSE,
                  !.last_slash_ratio_bps = ratio,
                  !.pending_slash_challenger = challenger,
                  !.pending_slash_amount = amount]
    /\ slashes' = slashes + 1
    /\ UNCHANGED <<positions, vault, now, overpaid>>

LockFund ==
    /\ fund.initialized
    /\ fund' = [fund EXCEPT !.challenge_active = TRUE]
    /\ UNCHANGED <<positions, vault, now, slashes, overpaid>>

UnlockFund ==
    /\ fund.initialized
    /\ fund' = [fund EXCEPT !.challenge_active = FALSE]
    /\ UNCHANGED <<positions, vault, now, slashes, overpaid>>

SlashDueAgain(s) == fund.last_slash_ratio_bps > 0   \* mutation: flag ignored

SlashDue(s) ==
    fund.last_slash_ratio_bps > 0 /\ ~positions[s].slash_applied

\* Anyone may call this for any open position; nobody has to.
ApplySlashToStaker(s) ==
    /\ fund.initialized
    /\ positions[s].opened
    /\ positions' =
         IF SlashDue(s)
         THEN [positions EXCEPT
                 ![s].amount_staked = AfterSlash(@, fund.last_slash_ratio_bps),
                 ![s].slash_applied = TRUE]
         ELSE positions
    /\ UNCHANGED <<fund, vault, now, slashes, overpaid>>

-----------------------------------------------------------------------------
(* The whole program                                                        *)

Tick ==
    /\ now < MaxTime
    /\ now' = now + 1
    /\ UNCHANGED <<fund, positions, vault, slashes, overpaid>>

\* A staker withdraws one of the amounts, nothing, or everything it has.
WithdrawAmounts(s) == StakeAmounts \cup {0, positions[s].amount_staked}

StakerNext ==
    \/ \E amount \in StakeAmounts : Stake(amount)
    \/ \E s \in Stakers, amount \in StakeAmounts : CommunityStake(s, amount)
    \/ \E s \in Stakers : \E amount \in WithdrawAmounts(s) :
         WithdrawStake(s, amount)
    \/ \E amount \in RewardAmounts : DepositRewards(amount)
    \/ \E s \in Stakers : ClaimRewards(s)
    \/ \E s \in Stakers : ApplySlashToStaker(s)

\* Instructions meant for dolores_adjudication, open to every signer.
AuthorityNext ==
    \/ LockFund
    \/ UnlockFund
    \/ \E amount \in SlashAmounts, c \in Challengers : ExecuteSlash(amount, c)

Next == InitializeFund \/ StakerNext \/ AuthorityNext \/ Tick

Spec == Init /\ [][Next]_vars

-----------------------------------------------------------------------------
(* Properties that hold                                                     *)

\* The lamports that the members of S have staked, one by one, and how many they
\* are: a sum over S, without recursion.
Lamports(p, S) == UNION {{s} \X (1..p[s].amount_staked) : s \in S}

StakeOf(S) == Cardinality(Lamports(positions, S))

Funded == {s \in Stakers : positions[s].amount_staked > 0}

\* execute_slash rounds the two halves of the stake down on their own, and
\* withdraw_stake saturates all three counters on their own.  Still the halves
\* never fall short of total_locked_stake by more than a lamport per slash.
SplitCoversTotal ==
    fund.total_locked_stake
      <= fund.validator_stake + fund.community_stake + slashes

\* Until the first slash the three counters, the positions, the staker counter
\* and the vault's lamports all tell the same story, so the vault can pay every
\* position and all the rewards.
BooksBalance ==
    fund.initialized /\ slashes = 0 =>
      /\ fund.total_locked_stake = StakeOf(Stakers)
      /\ fund.validator_stake = StakeOf(Stakers \cap {Operator})
      /\ fund.community_stake = StakeOf(Stakers \ {Operator})
      /\ fund.staker_count <= Cardinality(Funded)
      /\ vault = RentExempt + fund.total_locked_stake
                   + fund.accumulated_rewards

\* Whatever has been slashed and applied to whom: what the vault is short of the
\* stored positions and the rewards is what claims took beyond the rewards, and
\* nothing else.  Withdrawals, deposits and slashes never make it worse.
Solvent ==
    fund.initialized =>
      vault + overpaid
        >= RentExempt + StakeOf(Stakers) + fund.accumulated_rewards

\* What the lock of lock_fund is for: between lock and unlock the stake a slash
\* can reach does not shrink, so a slash that the fund could cover when the
\* challenge was filed stays covered.
LockedStakeStays ==
    [][fund.challenge_active /\ fund'.challenge_active
         => fund'.total_locked_stake >= fund.total_locked_stake]_vars

\* A staker loses stake in two ways only: the vault pays it out, or the one
\* slash its position will ever have applied to it.
NoSilentLoss ==
    [][\A s \in Stakers :
         LET loss == positions[s].amount_staked - positions'[s].amount_staked
         IN  loss > 0 => \/ vault' = vault - loss
                         \/ /\ ~positions[s].slash_applied
                            /\ positions'[s].slash_applied
                            /\ slashes > 0]_vars

-----------------------------------------------------------------------------
(* Properties the comments and documents state, and the code breaks         *)

\* "slash_applied: whether last slash has been applied": right after a slash it
\* has been applied to nobody.
EverySlashApplies ==
    [][slashes' > slashes =>
         \A s \in Funded : ~positions'[s].slash_applied]_vars

\* "Partial withdrawals supported", "The vault PDA is a system account that
\* holds the actual SOL": a staker of an unlocked fund gets its stake out.  The
\* vault is the program's, as init creates it, and the transfer of withdraw_stake
\* fails.
StakeRecoverable ==
    \A s \in Stakers :
      /\ positions[s].amount_staked > 0
      /\ ~fund.challenge_active
      /\ slashes = 0
      => ENABLED WithdrawStake(s, positions[s].amount_staked)

=============================================================================
