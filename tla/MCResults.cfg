\* Merging per-host rows in any order and by either path, then ToRows and End.
CONSTANTS
    h1 = h1
    h2 = h2
    k1 = k1
    k2 = k2
    Hosts <- MCHosts
    Keys <- MCKeys
    Counts = {1, 2}
    MaxRows = 2
SPECIFICATION Spec
INVARIANT
    TypeOK
    MergeIsPerKeySum
CHECK_DEADLOCK FALSE
