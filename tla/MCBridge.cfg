CONSTANTS
    MaxBufs = 3
    MaxRuns = 3
SPECIFICATION Spec
INVARIANTS
    TypeOK
    OneOwner
    NoStaleImport
    GaugesTrack
PROPERTIES
    FdsFollowBuffers
    ImplementsRing
    ImplementsRelay
