SPECIFICATION FairSpec
CONSTANTS
    NSOCKET = 6
    NMESSAGE = 2
    Allowed <- Troubles
INVARIANTS TypeOK ArrivesInOrder
PROPERTIES LinkComesBack ServedIfUndisturbed PublishedArrives
CHECK_DEADLOCK FALSE
