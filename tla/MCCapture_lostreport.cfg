\* Rotate against process(): a packet logged between the two reads of packetsLogged.
CONSTANTS
    c1 = c1
    c2 = c2
    cfgA = cfgA
    cfgB = cfgB
    e1 = e1
    Clients <- MCClients
    Configs <- MCConfigs
    ErrKinds <- MCErrKinds
    InitConfig = cfgA
    Ops = {"Rotate"}
    ReadOps = {}
    ErrorThreshold = 1
    MaxHandles = 2
    MaxPackets = 2
    NoHandle = NoHandle
    NoClient = NoClient
    NoConfig = NoConfig
SPECIFICATION Spec
INVARIANT
    PacketsReportedOnce
CHECK_DEADLOCK FALSE
