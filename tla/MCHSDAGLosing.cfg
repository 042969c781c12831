CONSTANTS
    MaxLen = 4
    NoTestCase = 0
    FirstTestCase = 101
    SecondTestCase = 102
    NegatedTestCase = 103
    Initial <- Losing
    Limits <- MCLimits
    GetType <- MCGetType
    GetLabel <- MCGetLabel
    Recorded <- MCRecorded
    NewNodeParameters <- MCNewNodeParameters
    Inconsistent <- MCInconsistent
    Minimal <- MCMinimal
SPECIFICATION FairSpec
INVARIANT
    FindsADiagnosis
CHECK_DEADLOCK FALSE
