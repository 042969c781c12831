CONSTANTS
    MaxLen = 5
    Constraint <- MCConstraint
    Tasks <- MCTasks
SPECIFICATION FairSpec
INVARIANTS
    CallsOK
    ConflictIsPreferred
PROPERTIES
    AnswersWithMinimalConflict
    Termination
CHECK_DEADLOCK FALSE
