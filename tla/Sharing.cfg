SPECIFICATION Spec
CONSTANTS
    Users = {u1, u2}
    Places = {p1}
    MaxEdits = 2
    MaxFaults = 1
INVARIANTS
    Reflects
    GoneIsGone
CHECK_DEADLOCK FALSE
PROPERTY
    Drains
