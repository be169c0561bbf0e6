\* Two syncs at a time, three announcements, one of them sent twice, one browser;
\* the stream keeps two entries for sure.
SPECIFICATION Spec
CONSTANTS
    r1 = r1
    r2 = r2
    Recalcs = {r1, r2}
    Totals = {0, 1}
    MaxEvents = 3
    MaxResends = 1
    MaxLen = 2
SYMMETRY Symmetry
INVARIANTS
    TypeOK
    Settled
    NothingElseMissed
PROPERTIES
    Chained
    OnlyForward
