CONSTANTS
    Bridges = 2
    Sizes = {"small", "large"}
    Codecs = {"raw", "MJPG"}
    SinkCodec = "MJPG"
    Settings <- MCSettings
    Takes <- MCTakes
    MaxPrepares = 3
    Fails = TRUE
SPECIFICATION Spec
CHECK_DEADLOCK FALSE
INVARIANTS
    TypeOK
    BuffersAgree
    PreparedChainAgrees
