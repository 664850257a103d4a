\* After an Update the goroutine of the replaced source still acts on the Capture.
CONSTANTS
    c1 = c1
    c2 = c2
    cfgA = cfgA
    cfgB = cfgB
    e1 = e1
    Clients <- MCClients
    Configs <- MCConfigs
    ErrKinds <- MCErrKinds
    InitConfig = cfgA
    Ops = {"Update"}
    ReadOps = {}
    ErrorThreshold = 1
    MaxHandles = 2
    MaxPackets = 2
    NoHandle = NoHandle
    NoClient = NoClient
    NoConfig = NoConfig
SPECIFICATION Spec
PROPERTY
    ProcessConfinedToItsSource
CHECK_DEADLOCK FALSE
