SPECIFICATION Spec
CONSTANTS
    Runs = {"p1", "p1 by hand", "p2", "p3"}
    ByHand = {"p1 by hand"}
    Plans = {"p1", "p2", "p3"}
    Repositories = {"near", "far"}
    Apps = {"x", "y"}
    PlanOf <- MCPlanOf
    RepositoryOf <- MCRepositoryOf
    StopApps <- MCStopApps
    MaxStarts = 2
    MaxTroubles = 2
    MaxTouches = 0
INVARIANTS
    OutageIsCritical
CHECK_DEADLOCK FALSE
