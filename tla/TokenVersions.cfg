\* Two global rotations beside a refresh and a login of one session.
SPECIFICATION Spec
CONSTANTS
    u1 = u1
    s1 = s1
    s2 = s2
    r1 = r1
    r2 = r2
    l1 = l1
    g1 = g1
    g2 = g2
    w1 = w1
    v1 = v1
    Users = {u1}
    Sessions = {s1}
    UserOf <- OwnerOf
    MaxTokens = 2
    Refreshers = {r1}
    Logins = {l1}
    Rotators = {g1, g2}
    UserRotators = {}
    Revokers = {}
    Grace = 0
    MaxVersion = 3
    MaxTime = 1
CHECK_DEADLOCK FALSE
INVARIANT
    RulesAgree
PROPERTIES
    VersionsBackOnlyByOverlap
    GloballyRefusedStaysRefused
    RotationReachesCache
