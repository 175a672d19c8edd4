SPECIFICATION Spec
CONSTANTS
    NoBox = NoBox
    PiiTypes <- MCPiiTypes
    Detectors <- MCDetectors
    Inputs <- MCInputs
    Thresholds <- MCThresholds
    MaxLen = 3
INVARIANT
    AgreementIsTrusted
CHECK_DEADLOCK FALSE
