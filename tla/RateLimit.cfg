\* Two requests whose calls may run a tick late and in either order.
SPECIFICATION Spec
CONSTANTS
    p1 = p1
    p2 = p2
    Requests = {p1, p2}
    Cap = 3
    Cost = 2
    Buffer = 1
    Lag = 1
    MaxTime = 5
SYMMETRY Interchangeable
INVARIANTS
    TypeOK
    WindowBound
    NoUndueRefusal
PROPERTY
    ExpiryIsInvisible
