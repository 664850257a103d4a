\* The runtime info gpctl prints against what goProbe and the server know.
CONSTANTS
    Ifaces <- MCIfaces
    Names <- MCNames
    MaxPkts = 1
    MaxTime = 2
    Failures <- AllFailures
SPECIFICATION Spec
INVARIANT
    StatusReportFaithful
CHECK_DEADLOCK FALSE
