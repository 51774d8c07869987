SPECIFICATION FairSpec
CONSTANTS
    NTIMER = 2
    NBLED = 1
    NBPWM = 1
    NBSERVO = 1
    Motor <- MCTwins
    Rpms = {0, 100}
    SpeedLimit = 100
    VelocityLimit = 100
    CounterLimit = 8
    ByteLimit = 2
    MaxTurns = 0
    StepsPerTurn = 8
    StepperInverted = FALSE
    Scripts <- MCTwinScripts
PROPERTIES MotorReachesSetpoint
CHECK_DEADLOCK TRUE
