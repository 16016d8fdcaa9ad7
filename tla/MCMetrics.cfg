CONSTANTS
    Names = {"cap", "out"}
    Clients = {c1, c2}
SPECIFICATION FairSpec
INVARIANTS
    OneCounterPerName
    TimerHasEvent
    LateReportsWhole
PROPERTIES
    ReportsGoOn
CHECK_DEADLOCK FALSE
