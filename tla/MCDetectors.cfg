SPECIFICATION Spec
CONSTANTS
    NoBox = NoBox
    None = None
    NoTime = NoTime
    PiiTypes <- MCPiiTypes
    Detectors <- MCDetectors
    Medias <- MCMedias
    Policies <- MCPolicies
    Registered <- MCRegistered
    Blank = " "
    Blanks <- MCBlanks
    LowerCase <- MCLowerCase
    Keywords <- MCKeywords
    MaxMatches = 1
    FrameArea = 800
    MergePasses = 2
    FrameMs = 30
    MinDuration = 200
INVARIANTS
    TypeOK
    Clustered
    MergingKeeps
    Converged
    StretchesFound
    TimesAreTheWords
    EverythingReported
    KeywordsAreFound
CHECK_DEADLOCK FALSE
