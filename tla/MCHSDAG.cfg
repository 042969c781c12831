CONSTANTS
    MaxLen = 4
    NoTestCase = 0
    FirstTestCase = 101
    SecondTestCase = 102
    NegatedTestCase = 103
    Initial <- MCInitial
    Limits <- MCLimits
    GetType <- MCGetType
    GetLabel <- MCGetLabel
    Recorded <- MCRecorded
    NewNodeParameters <- MCNewNodeParameters
    Inconsistent <- MCInconsistent
    Minimal <- MCMinimal
SPECIFICATION FairSpec
INVARIANTS
    TypeOK
    LabelsAreSound
    ReportsAreSound
    LimitsRespected
    ShortestFirst
    Complete
    NoReportTwice
    LabelerKeepsPromise
    OneNodePerPath
PROPERTIES
    DecidedOnce
    Termination
CHECK_DEADLOCK FALSE
