SPECIFICATION Spec
CONSTANTS
    ann = ann
    bob = bob
    any = any
    Clients = {ann, bob}
    Garbage = any
    NTASK = 3
    NTIMER = 4
    NSENDER = 3
    NACTION = 2
    NSCAN = 2
    SaveStarts = {0}
    UniqueIds = TRUE
    MaxMessages = 3
    Commands <- OrderlyCommands
    Requests <- OrderlyRequests
INVARIANTS
    OneTimerPerDevice
CHECK_DEADLOCK FALSE
