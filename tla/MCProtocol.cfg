SPECIFICATION ProtocolSpec
CONSTANTS
    alice = alice
    user = user
    t1 = t1
    t2 = t2
    Operator = op
    Stakers = {op}
    Challengers = {user}
    NoOne = NoOne
    StakeAmounts = {10}
    RewardAmounts = {}
    SlashAmounts = {10}
    MinStakeLamports = 10
    BpsDenominator = 10000
    RewardEpoch = 1
    RentExempt = 1
    U64Max = 1000000
    U16Max = 65535
    VaultSystemOwned = TRUE
    StakeCap = 20
    RewardCap = 0
    MaxSlashes = 2
    Callers = {}
    Outputs = {}
    Scores = {}
    StakeWeights = {}
    DeclaredAmounts = {}
    MinReputations = {}
    Cids = {cid}
    NoCid = NoCid
    MaxReputation = 150
    SlashMultiplier = 35
    U8Max = 4
    MaxAttestations = 0
    Tasks = {t1, t2}
    Agent = agent
    Wallets = {agent, user}
    ProofLengths = {32}
    MaxTime = 1
    DefaultSlash = 10
    MaxDirect = 1
    AnyCaller = TRUE
SYMMETRY TaskSymmetry
INVARIANTS HeldIsLocked SlashesAgree
PROPERTY HoldsInEscrow
