SPECIFICATION WorkstationSpec
CONSTANTS
    Templates = {"SOL_TRANSFER", "JUPITER_SWAP"}
    SolTransfer = "SOL_TRANSFER"
    None = "None"
    Amounts = {1, 2}
    SlashAmount = 1
    MaxAgents = 2
    MaxTasks = 1
    MaxCommands = 3
    MaxTerminals = 2
    Tools <- MCTools
    SolAmounts = {1200}
    TokenAmounts = {3000}
    SlippageBps = 500
    MaxRuns = 2
    MaxTrades = 1
    MaxTxs = 2
    MaxStarted = 3
INVARIANTS AwaitedStepsHappened DeclaredWasDeposited
    TransfersAreAuthorised
    RecordsInOrder FullLoopIsTrue SlippageIsBounded RoundTripCosts
CHECK_DEADLOCK FALSE
