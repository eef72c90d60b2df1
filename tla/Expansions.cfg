SPECIFICATION GrowthFairSpec
CONSTANTS
    Volumes = {v1}
    Xfs = {v1}
    Procs = {w, c}
    Worker = w
    Nothing = none
    MaxSize = 3
    MaxPlans = 2
    MaxFaults = 2
PROPERTIES RecordedEnds FailureWarned FinisherGrows
