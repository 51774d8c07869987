SPECIFICATION Spec
CONSTANTS
    ann = ann
    bob = bob
    any = any
    Clients = {ann, bob}
    Garbage = any
    NTASK = 3
    NTIMER = 4
    NSENDER = 3
    NACTION = 4
    NSCAN = 3
    SaveStarts = {0}
    UniqueIds = FALSE
    MaxMessages = 3
    Commands <- MixedCommands
    Requests <- MixedRequests
INVARIANTS
    OneTaskPerId
CHECK_DEADLOCK FALSE
