SPECIFICATION Spec
CONSTANTS
    clip1 = clip1
    clip2 = clip2
    talk = talk
    Files <- MCFiles
    Base <- MCBase
    None = None
    Limits <- MCLimits
    Absent = Absent
    Stale = Stale
    Partial = Partial
INVARIANT
    EveryFileIsReported
CHECK_DEADLOCK FALSE
