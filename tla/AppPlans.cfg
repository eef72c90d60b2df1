SPECIFICATION Spec
CONSTANTS
    t1 = t1
    t2 = t2
    None = None
    Tabs = {t1, t2}
    Images = {1, 2, 3}
    Catalog = 3
    Revs = {0, 1}
    Inputs <- MCInputs
    MaxOpens = 2
    MaxDirects = 1
    MaxFaults = 1
INVARIANTS
    AppliedAsShown
    RemovedAsAsked
    InStep
PROPERTIES
    RefinesAppLife
CHECK_DEADLOCK FALSE
SYMMETRY Symmetry
