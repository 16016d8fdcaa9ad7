CONSTANTS
    MaxBufs = 3
    Threads = {t1, t2}
    Holders = {h1, h2}
SYMMETRY Symmetry
SPECIFICATION Spec
INVARIANTS
    OnlyDeviceKills
    OneOwner
PROPERTIES
    ImplementsSupply
CHECK_DEADLOCK FALSE
