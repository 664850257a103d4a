\* With crashes, failed appends and header writes: what a write reported stays.
CONSTANTS
    d1 = d1
    d2 = d2
    NoData = NoData
    NoRead = NoRead
    NumElements = 2
    Timestamps = {0, 1, 2}
    Data <- MCData
    CompLen <- MCCompLen
    UncompLen <- MCUncompLen
    Failures <- AllFailures
    MaxFileCells = 4
SPECIFICATION Spec
INVARIANTS
    TypeOK
    WrittenBlocksDurable
    ExtentsWithinFile
CHECK_DEADLOCK FALSE
