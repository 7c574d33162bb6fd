SPECIFICATION ClientSpec
CONSTANTS
    w1 = w1
    w2 = w2
    a1 = a1
    a2 = a2
    tA = tA
    tB = tB
    Wallets = {w1, w2}
    None = None
    Agents = {a1, a2}
    OperatorOf <- MCOperatorOf
    RowsOf <- MCRowsOf
    PAGE_SIZE = 2
    MaxRequests = 2
    Templates = {tA, tB}
    MaxAgents = 2
    MaxClicks = 2
    Attestations = {a1, a2}
    WithFund <- MCWithFund
    MaxFilings = 2
    MaxPending = 2
    MaxNonces = 3
    Pages = {"session", "register", "challenge", "tasks", "list", "owned"}
INVARIANTS  OneRegistrationAtATime
    ChallengeNamesItsTask PendingIsOfWallet RowsAreOfPage
PROPERTIES SpentNonceIsRefused PollingSettles
CHECK_DEADLOCK FALSE
