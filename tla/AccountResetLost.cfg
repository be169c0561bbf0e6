\* A login that began before a password reset writes the old row back.
SPECIFICATION Spec
CONSTANTS
    p1 = p1
    p2 = p2
    w1 = w1
    w2 = w2
    Requests = {p1, p2}
    Registrars = {p1}
    Verifiers = {p2}
    Logins = {p1}
    Rotators = {p2}
    Requesters = {p1}
    Confirmers = {p2}
    Passwords = {w1, w2}
    LockAfter = 2
    LockTime = 1
    TokenTime = 0
    Window = 0
    MaxPerWindow = 1
    MaxResets = 2
    MaxAttempts = 2
    MaxVersion = 2
    MaxTime = 1
PROPERTY ResetKept
CHECK_DEADLOCK FALSE
