CONSTANTS
    None = None
    t1 = t1
    t2 = t2
    Threads = {t1, t2}
    Keys <- MCKeys
    Calls <- MCCalls
    MaxProfilers = 1
    MaxSessions = 2
    MaxCalls = 2
SPECIFICATION Spec
SYMMETRY Symmetry
INVARIANTS
    CountsAreExact
    StaleRecordsAreFew
    TypesAgree
CHECK_DEADLOCK FALSE
