SPECIFICATION Spec
CONSTANTS
    p1 = p1
    p2 = p2
    t1 = t1
    t2 = t2
    NoTask = NoTask
    NoHash = NoHash
    Ticks = {p1, p2}
    Tasks = {t1, t2}
    MaxTime = 1
    MaxPayments = 2
SYMMETRY RuntimeSymmetry
INVARIANTS CompletedWasExecuted OneReceiptPerTask
