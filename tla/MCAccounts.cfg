SPECIFICATION Spec
CONSTANTS
    r1 = r1
    r2 = r2
    r3 = r3
    b1 = b1
    b2 = b2
    ann = ann
    bob = bob
    pw1 = pw1
    pw2 = pw2
    None = None
    Requests <- MCRequests
    Browsers <- MCBrowsers
    Emails <- MCEmails
    Passwords <- MCPasswords
    MaxRestarts = 1
SYMMETRY Symmetric
INVARIANTS
    TypeOK
    OneAccountPerEmail
    SessionIsEarned
CHECK_DEADLOCK FALSE
