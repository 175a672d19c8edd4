SPECIFICATION Spec
CONSTANTS
    None = None
    NoBox = NoBox
    PiiTypes <- MCPiiTypes
    Detectors = {ocr}
    Moments <- MCMoments
    ShortEdges <- MCShortEdges
    ShortTimes <- MCShortTimes
    Clips <- MCClips
    SpanLists <- MCSpanLists
    Margins <- MCMargins
    Width = 6
    Height = 2
    HalfWindow = 2
    FramePeriod = 2
INVARIANTS
    TypeOK
    HidesWhatIsTrusted
    SoundStaysInPlace
    SamplesTile
CHECK_DEADLOCK FALSE
