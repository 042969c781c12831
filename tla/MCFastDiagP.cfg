CONSTANTS
    MaxLen = 4
    MaxCalls = 2
    Cpus = {2, 3, 6}
    Constraint <- MCConstraint
    Tasks <- MCTasks
SPECIFICATION FairSpecP
INVARIANTS
    FailsOnlyBelowThreeCpus
    ChecksAreServed
PROPERTIES
    RunsFastDiag
    FirstCallReturns
CHECK_DEADLOCK FALSE
