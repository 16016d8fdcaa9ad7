CONSTANTS
    Bridges = 2
    Controls = 1
    Bufs = 3
    SinkBufs = 2
    MaxRuns = 2
    Fails = TRUE
SPECIFICATION FairSpec
CHECK_DEADLOCK FALSE
INVARIANTS
    TypeOK
    CallbacksNeverBlock
    WholeOrOff
PROPERTIES
    FrameArrives
    StopEnds
    UsesAsImplemented
