CONSTANTS
    MaxVersion = 3
    Files = {f1}
    Keep = 1
    MaxTries = 2
    MaxFaults = 1
    Downgrade = TRUE
    CutManual = FALSE
SPECIFICATION FairSpec
INVARIANTS
    LockHeld
    NeverMixed
    Recoverable
    Coherent
PROPERTIES
    OutcomeRecorded
    RefinesAtomicUpdate
    
    LockReleased
CHECK_DEADLOCK FALSE
