CONSTANTS
    MaxLen = 5
    Constraint <- MCConstraint
    Tasks <- MCTasks
SPECIFICATION FairSpec
INVARIANTS
    CallsOK
    DiagnosisIsPreferred
PROPERTIES
    AnswersWithMinimalDiagnosis
    Termination
CHECK_DEADLOCK FALSE
