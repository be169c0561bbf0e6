\* Two requests and a Redis that never fails: copies that outlive revocation.
SPECIFICATION Spec
CONSTANTS
    s1 = s1
    s2 = s2
    s3 = s3
    p1 = p1
    p2 = p2
    Sessions = {s1, s2}
    Requests = {p1, p2}
    Creators = {p1}
    MaxSessions = 1
    RedisFails = FALSE
INVARIANT RevokedIsUncached
