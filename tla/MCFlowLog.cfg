\* A flow log under Add and Rotate, with the classifier checked against its test table.
CONSTANTS
    Pkts <- MCPkts
    MaxAdds = 4
    MaxRotations = 2
SPECIFICATION Spec
INVARIANTS
    TypeOK
    ClassifierMatchesTests
    ReplySharesKey
CHECK_DEADLOCK FALSE
