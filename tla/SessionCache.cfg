\* Two requests of any kind, logins among them; Redis may fail.
SPECIFICATION Spec
CONSTANTS
    s1 = s1
    s2 = s2
    s3 = s3
    p1 = p1
    p2 = p2
    Sessions = {s1, s2}
    Requests = {p1, p2}
    Creators = {p1, p2}
    MaxSessions = 1
    RedisFails = TRUE
INVARIANT TypeOK
PROPERTIES
    LimitExceededOnlyByOverlap
    GoneForGood
    RevocationReachesCache
