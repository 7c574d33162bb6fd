SPECIFICATION Spec
CONSTANTS
    Agent = agent
    user = user
    t1 = t1
    t2 = t2
    Tasks = {t1, t2}
    Wallets = {agent, user}
    ProofLengths = {0, 1024, 1025}
    MaxTime = 4
SYMMETRY TaskSymmetry
INVARIANTS StatusesAgree InTimeNeverSlashed
PROPERTIES VerdictIsFinal JudgesDisputes
CHECK_DEADLOCK FALSE
