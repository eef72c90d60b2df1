SPECIFICATION Spec
CONSTANTS
    Connectors = {1}
    Hosts = {1, 2}
    Limit = 1
    Window = 2
    Delay = 1
    MaxAttempts = 2
    Batch = 2
    QueueCap = 1
    Keep = 1
    CacheTtl = 1
    TickTime = 1
    MaxResults = 2
    MaxTold = 2
    MaxUpsets = 1
INVARIANTS
    SecretsBound
    JournalTrue
    ResultsTold
PROPERTIES
    RowsEnd
CHECK_DEADLOCK FALSE
