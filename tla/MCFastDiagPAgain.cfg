CONSTANTS
    MaxLen = 4
    MaxCalls = 2
    Cpus = {6}
    Constraint <- MCConstraint
    Tasks <- MCTasks
SPECIFICATION FairSpecP
PROPERTIES
    EachCallReturns
CHECK_DEADLOCK FALSE
