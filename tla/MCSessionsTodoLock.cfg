\* Two sessions at once, and nothing fails.
CONSTANTS
    s1 = s1
    s2 = s2
    IO = IO
    Sessions <- TwoSessions
    Threads <- TwoSessionsAndIO
    Holders <- TwoSessions
    MaxBufs = 2
    Limits = {2}
    Discards = 1
    Kinds = {"plain"}
    PipelineFails = FALSE
    IoctlFails = FALSE
SPECIFICATION SessSpec
INVARIANT OnlyDeviceKills
CHECK_DEADLOCK FALSE
