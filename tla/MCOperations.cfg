CONSTANTS
    Nothing = Nothing
    MaxRuns = 3
    MaxChecks = 3
    LimitValues <- MCLimitValues
SPECIFICATION OperationSpec
INVARIANTS
    SolversReleased
    ResultsAccountedFor
    ResultsRestOnAnswers
CHECK_DEADLOCK FALSE
