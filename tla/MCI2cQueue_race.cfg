SPECIFICATION FairSpec
CONSTANTS
    mainLoop = mainLoop
    timerTask = timerTask
    Producers = {mainLoop, timerTask}
    NQUEUE = 3
    MaxRequests = 3
INVARIANTS
    TypeOK
    RunOnce
    InOrderAndWhole
PROPERTIES
    EveryAcceptedRuns
CHECK_DEADLOCK FALSE
