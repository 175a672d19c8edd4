SPECIFICATION Spec
CONSTANTS
    NoBox = NoBox
    PiiTypes <- MCPiiTypes
    Detectors <- MCDetectors
    Inputs <- MCInputs
    Thresholds <- MCThresholds
    MaxLen = 4
INVARIANTS
    TypeOK
    ThresholdOneDropsNothing
    ComputesVote
CHECK_DEADLOCK FALSE
