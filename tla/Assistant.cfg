SPECIFICATION Spec
CONSTANTS
    Tabs = {t1, t2}
    MaxRounds = 2
    History = 4
    MaxCalls = 2
    Texts <- MCTexts
    MaxMsgs = 5
    MaxActs = 1
    MaxTurns = 2
    MaxOpens = 1
    MaxFaults = 1
INVARIANTS
    Decided
    WellFormed
    FollowedWhole
SYMMETRY Symmetry
CHECK_DEADLOCK FALSE
