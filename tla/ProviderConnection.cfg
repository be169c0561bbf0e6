\* Two requests of one user, one OAuth state, two rows; Redis may fail.
SPECIFICATION Spec
CONSTANTS
    c1 = c1
    c2 = c2
    p1 = p1
    p2 = p2
    st1 = st1
    Connections = {c1, c2}
    States = {st1}
    Requests = {p1, p2}
    RedisFails = TRUE
INVARIANTS
    TypeOK
    Paired
PROPERTIES
    RevivedOnlyByOverlap
    SecondOnlyByOverlap
    DisconnectShows
