SPECIFICATION FairSpec
CONSTANTS
    NTIMER = 3
    NBLED = 2
    NBPWM = 1
    NBSERVO = 1
    Motor <- MCMotors
    Rpms = {0, 100}
    SpeedLimit = 100
    VelocityLimit = 100
    CounterLimit = 4
    ByteLimit = 2
    MaxTurns = 4
    StepsPerTurn = 8
    StepperInverted = FALSE
    Scripts <- MCScripts
INVARIANTS BridgeNeverShorted BoardShowsOrders RunningMotorIsTimed IntegralBounded
PROPERTIES OthersUndisturbed NotBeforeDistance BlinksAsOrdered StopsInTheEnd 
CHECK_DEADLOCK TRUE
