CONSTANTS
    None = None
    MaxInputs = 3
    Sources <- MCSources
    Configurations <- MCConfigurations
    Suites <- MCSuites
SPECIFICATION Spec
INVARIANT
    EveryCheckIsRight
CHECK_DEADLOCK FALSE
