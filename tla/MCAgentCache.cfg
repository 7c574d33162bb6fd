SPECIFICATION Spec
CONSTANTS
    Undescribed = {1}
    MaxCids = 2
    MaxAttestations = 2
    MaxChanges = 3
    MaxJobs = 2
INVARIANTS NameIsOfCid ScoreHasItsTime CurrentWhenQuiet ReceiptIsLinked
CHECK_DEADLOCK FALSE
