\* p1 registers and signs in while p2 verifies, rotates and confirms resets;
\* both ask for resets.
SPECIFICATION Spec
CONSTANTS
    p1 = p1
    p2 = p2
    w1 = w1
    w2 = w2
    Requests = {p1, p2}
    Registrars = {p1}
    Verifiers = {p2}
    Logins = {p1}
    Rotators = {p2}
    Requesters = {p1, p2}
    Confirmers = {p2}
    Passwords = {w1, w2}
    LockAfter = 1
    LockTime = 1
    TokenTime = 0
    Window = 0
    MaxPerWindow = 1
    MaxResets = 3
    MaxAttempts = 2
    MaxVersion = 2
    MaxTime = 1
INVARIANTS
    TypeOK
    ResetLimit
PROPERTIES
    SpentForGood
    LockHolds
    RotationStands
    ReplacedForGood
CHECK_DEADLOCK FALSE
