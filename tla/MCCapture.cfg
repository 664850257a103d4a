\* Every method, every failure path of the code; the safety properties that hold.
CONSTANTS
    c1 = c1
    c2 = c2
    cfgA = cfgA
    cfgB = cfgB
    e1 = e1
    Clients <- MCClients
    Configs <- MCConfigs
    ErrKinds <- MCErrKinds
    InitConfig = cfgA
    Ops = {"Status", "Update", "Rotate"}
    ReadOps = {"Status"}
    ErrorThreshold = 1
    MaxHandles = 2
    MaxPackets = 2
    NoHandle = NoHandle
    NoClient = NoClient
    NoConfig = NoConfig
SPECIFICATION Spec
SYMMETRY ClientSymmetry
INVARIANTS
    TypeOK
    HandlesNotLeaked
CHECK_DEADLOCK FALSE
