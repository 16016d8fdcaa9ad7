CONSTANTS
    camera = camera
    isp = isp
    encoder = encoder
    other = other
    Nodes <- MCNodes
    Configs <- MCConfigs
    Kinds <- MCKinds
    Algorithms <- MCAlgorithms
    Decoders <- MCDecoders
    MaxLoads = 2
    MaxUsers = 2
SPECIFICATION Spec
CHECK_DEADLOCK FALSE
INVARIANTS
    TypeOK
    OneHandlePerNode
PROPERTIES
    UsersKeepDevices
