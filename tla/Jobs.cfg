SPECIFICATION FairSpec
CONSTANTS
    FileJobs = {f1}
    ContainerJobs = {c1}
    MaxInFlight = 2
    MaxDeliver = 2
    MaxCrashes = 3
    None = none
INVARIANTS CompletedDone SlotsBalanced
PROPERTY JobSettles
CHECK_DEADLOCK FALSE
