SPECIFICATION Spec
CONSTANTS
    u1 = u1
    u2 = u2
    u3 = u3
    w1 = w1
    w2 = w2
    Uploads <- MCUploads
    Workers <- MCWorkers
    None = None
    Absent = Absent
    Partial = Partial
    MaxCrashes = 1
    MaxDbErrors = 1
INVARIANTS
    TypeOK
    OneHolder
    NoOvertaking
    DoneIsDelivered
PROPERTIES
    SettledIsFinal
    Settles
    ImplementsBoard
CHECK_DEADLOCK FALSE
