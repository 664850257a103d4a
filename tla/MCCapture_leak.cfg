\* No client: cancellation races a capture error of process().
CONSTANTS
    c1 = c1
    c2 = c2
    cfgA = cfgA
    cfgB = cfgB
    e1 = e1
    Clients = {}
    Configs <- MCConfigs
    ErrKinds <- MCErrKinds
    InitConfig = cfgA
    Ops = {"Status"}
    ReadOps = {"Status"}
    ErrorThreshold = 1
    MaxHandles = 2
    MaxPackets = 2
    NoHandle = NoHandle
    NoClient = NoClient
    NoConfig = NoConfig
SPECIFICATION FairSpec
PROPERTY
    ProcessTerminates
CHECK_DEADLOCK FALSE
