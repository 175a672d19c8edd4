SPECIFICATION Spec
CONSTANTS
    None = None
    NoBox = NoBox
    Absent = Absent
    Stale = Stale
    Partial = Partial
    PiiTypes <- MCPiiTypes
    Detectors <- MCDetectors
    Policies <- MCPolicies
    Raws <- MCRaws
    Moments <- MCMoments
    ShortEdges <- MCShortEdges
    ShortTimes <- MCShortTimes
    MaxFlagged = 2
    Width = 24
    Height = 2
    HalfWindow = 1
INVARIANTS
    TypeOK
    ReportDescribesOutput
    VerdictIsEarned
    OnlyVerifiedOutput
    NoTempLeak
    TrustedIsHidden
PROPERTIES
    RetryHidesMore
    Ends
    ImplementsJob
CHECK_DEADLOCK FALSE
