\* Two refreshes that present the same token.
SPECIFICATION Spec
CONSTANTS
    u1 = u1
    s1 = s1
    s2 = s2
    r1 = r1
    r2 = r2
    l1 = l1
    g1 = g1
    g2 = g2
    w1 = w1
    v1 = v1
    Users = {u1}
    Sessions = {s1}
    UserOf <- OwnerOf
    MaxTokens = 3
    Refreshers = {r1, r2}
    Logins = {l1}
    Rotators = {}
    UserRotators = {}
    Revokers = {}
    Grace = 0
    MaxVersion = 1
    MaxTime = 0
CHECK_DEADLOCK FALSE
INVARIANTS
    OneSuccessor
