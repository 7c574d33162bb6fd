SPECIFICATION Spec
CONSTANTS
    dex = dex
    lender = lender
    o1 = o1
    o2 = o2
    Callers = {dex, lender}
    Outputs = {o1, o2}
    Scores = {0, 85, 101}
    StakeWeights = {5, 10, 11}
    DeclaredAmounts = {0, 10}
    MinReputations = {0, 40}
    Cids = {cid}
    NoCid = NoCid
    MaxReputation = 150
    SlashMultiplier = 35
    U8Max = 4
    MaxAttestations = 2
SYMMETRY RegistrySymmetry
INVARIANT ReputationIsEarned
PROPERTY BanIsPermanent
