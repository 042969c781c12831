CONSTANTS
    MaxLen = 5
    Background = 11
    NegatedTestCase = 12
    FirstTestCase = 21
    SecondTestCase = 22
    Constraint <- MCConstraint
    TestCase <- MCTestCase
    Tasks <- MCTasks
SPECIFICATION FairSpec
INVARIANTS
    CallsOK
    DiagnosisIsPreferred
PROPERTIES
    AnswersWithDiagnosis
    Termination
CHECK_DEADLOCK FALSE
