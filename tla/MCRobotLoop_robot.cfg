SPECIFICATION FairSpec
CONSTANTS
    NBMOTOR = 1
    NBSTEPPER = 1
    NBLED = 1
    DefaultPeriod = 2
    NBDIN = 2
    NBBTN = 1
    NBSONAR = 1
    NBRGBC = 1
    NBAIN = 1
    NENTRY = 2
    ColourOrder <- MCColourOrder
    Dialogues <- MCDialogues
INVARIANTS HostKnowsInputs  SoundUnlessTorn
PROPERTIES ChangesAreAnswered LoadGivesBack UnnamedMotorsKept OutOfRangeIsTold StreamFlows
CHECK_DEADLOCK TRUE
