SPECIFICATION WorkstationSpec
CONSTANTS
    Templates = {"SOL_TRANSFER", "JUPITER_SWAP"}
    SolTransfer = "SOL_TRANSFER"
    None = "None"
    Amounts = {1, 2}
    SlashAmount = 1
    MaxAgents = 2
    MaxTasks = 1
    MaxCommands = 2
    MaxTerminals = 2
    Tools <- MCTools
    SolAmounts = {1200}
    TokenAmounts = {3000}
    SlippageBps = 500
    MaxRuns = 1
    MaxTrades = 1
    MaxTxs = 2
    MaxStarted = 3
INVARIANT RegisteredKeepsItsKeypair
CHECK_DEADLOCK FALSE
