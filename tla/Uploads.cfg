SPECIFICATION UploadSpec
CONSTANTS
    Chunks = {1, 2}
    Picks = {1, 2}
    Ids = {1, 2}
    Slots = {1, 2}
    ChunkAttempts = 2
    MaxTries = 1
    MaxMishaps = 2
INVARIANTS
    Landed
    Owned
    Exclusive
PROPERTIES
    TransferSettles
CHECK_DEADLOCK FALSE
