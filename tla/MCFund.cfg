SPECIFICATION Spec
CONSTANTS
    Operator = op
    alice = alice
    Stakers <- MCStakers
    Challengers = {carol}
    NoOne = NoOne
    StakeAmounts <- MCStakeAmounts
    RewardAmounts <- MCRewardAmounts
    SlashAmounts <- MCSlashAmounts
    MinStakeLamports = 10
    BpsDenominator = 10000
    RewardEpoch = 1
    RentExempt = 1
    U64Max = 1000000
    U16Max = 65535
    VaultSystemOwned = TRUE
    StakeCap = 20
    RewardCap = 5
    MaxTime = 1
    MaxSlashes = 2
INVARIANTS SplitCoversTotal BooksBalance Solvent
PROPERTIES LockedStakeStays NoSilentLoss
