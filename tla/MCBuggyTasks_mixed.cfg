SPECIFICATION Spec
CONSTANTS
    ann = ann
    bob = bob
    any = any
    Clients = {ann, bob}
    Garbage = any
    NTASK = 2
    NTIMER = 2
    NSENDER = 2
    NACTION = 4
    NSCAN = 3
    SaveStarts = {0, 20}
    UniqueIds = FALSE
    MaxMessages = 3
    Commands <- MixedCommands
    Requests <- MixedRequests
INVARIANTS
    TypeOK
    NeverEndsEarly
    NoEventForNoTask
    SenderPerTask
CHECK_DEADLOCK FALSE
