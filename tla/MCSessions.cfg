\* Two sessions, one after another or at once; every ioctl and every pipeline may fail.
CONSTANTS
    s1 = s1
    s2 = s2
    IO = IO
    Sessions <- TwoSessions
    Threads <- TwoSessionsAndIO
    Holders <- TwoSessions
    MaxBufs = 2
    Limits = {1, 2}
    Discards = 1
    Kinds = {"plain", "bridged"}
    PipelineFails = TRUE
    IoctlFails = TRUE
SPECIFICATION FairSessSpec
INVARIANTS
    SessTypeOK
    StopsAfterOwnFrame
    NoThreadOutlives
PROPERTIES
    FollowsDiscipline
    NextIsAnswered
    SessionsEnd
CHECK_DEADLOCK FALSE
