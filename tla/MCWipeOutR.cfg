CONSTANTS
    MaxLen = 4
    Assignment = {m1, m2, m3}
    Element <- MCElement
    Suites <- MCSuites
SPECIFICATION FairSpec
INVARIANTS
    NothingIsLost
    NothingIsRedundant
PROPERTIES
    Termination
CHECK_DEADLOCK FALSE
