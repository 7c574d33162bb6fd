SPECIFICATION Spec
CONSTANTS
    t1 = t1
    t2 = t2
    Tasks = {t1, t2}
    Times = {1, 2}
    MaxEvents = 5
    Limit = 1
    Offsets = {0, 1}
INVARIANTS InSyncWhenQuiet
PROPERTIES ListIsSound ServesThePast Settles
CHECK_DEADLOCK FALSE
