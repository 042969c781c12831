CONSTANTS
    None = None
    MaxInputs = 3
    Sources <- MCSources
    Configurations <- MCConfigurations
    Suites <- MCSuites
SPECIFICATION Spec
INVARIANTS
    TypeOK
    IdsApart
    ChecksMeanSelections
    InputsHaveRoles
CHECK_DEADLOCK FALSE
