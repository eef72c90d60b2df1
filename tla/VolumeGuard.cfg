SPECIFICATION FairSpec
CONSTANTS
    Volumes = {v1, v2}
    Apps = {a1}
    Uses <- UsesAll
    Calls = {c1, c2}
    MaxEvents = 5
    MaxFaults = 1
INVARIANT NotForgotten
PROPERTIES MissingBlocked BackAnnounced
