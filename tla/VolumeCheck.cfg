SPECIFICATION DiskFairSpec
CONSTANTS
    Worker = worker
    Shells = {shell}
    MaxIncidents = 5
    MaxFails = 2
PROPERTIES OnlyReturned ReturnMounted
