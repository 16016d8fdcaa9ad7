CONSTANTS
    Bins = 20
    Limit = 20
    Unit = 2
    Most = 40
    Scale = 12
    Tolerance = 1
    Word = 128
    FrameBufs = 2
    StatBufs = 2
    Settings <- MCSettings
    Fails = TRUE
SPECIFICATION FairSpec
CHECK_DEADLOCK FALSE
INVARIANTS
    TypeOK
PROPERTIES
    StepsNeverOvershoot
    Settles
    BalanceSettles
    EchoKeeps
