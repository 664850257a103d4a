\* Without failures: headers round-trip and stored blocks decode.
CONSTANTS
    d1 = d1
    d2 = d2
    NoData = NoData
    NoRead = NoRead
    NumElements = 2
    Timestamps = {0, 1, 2}
    Data <- MCData
    CompLen <- MCCompLen
    UncompLen <- MCUncompLen
    Failures <- NoFailures
    MaxFileCells = 4
SPECIFICATION Spec
INVARIANTS
    
    StoredBlocksDecode
    DiskHeaderCurrent
    BlocksUsedIsNextWriteSlot
PROPERTY
    BlockStoreRefined
