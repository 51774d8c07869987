SPECIFICATION Spec
CONSTANTS
    NSTACK = 2
    RandomId = 4711
    Ids <- SomeIds
    Parsed <- TextsRead
    ClientID = "algo_1"
    Robots <- OurRobots
    NumberOf <- SomeDevices
    BUFLEN = 200
    DEPTH = 8
    PREC = 2
    Scripts <- InTurnsUnnamed
INVARIANTS NoneLost
CHECK_DEADLOCK FALSE
