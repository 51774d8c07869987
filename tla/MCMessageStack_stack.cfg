SPECIFICATION FairSpec
CONSTANTS
    NSTACK = 3
    RandomId = 4711
    Ids <- SomeIds
    Parsed <- TextsRead
    ClientID = "algo_1"
    Robots <- OurRobots
    NumberOf <- SomeDevices
    BUFLEN = 200
    DEPTH = 8
    PREC = 2
    Scripts <- AllScripts
INVARIANTS TakenOnce
PROPERTIES IsQueue EveryAckedTaken  AnswersAsMeant
CHECK_DEADLOCK FALSE
