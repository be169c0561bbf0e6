\* Two overlapping synchronisations of an account with two positions and two
\* transactions.
SPECIFICATION Spec
CONSTANTS
    h1 = h1
    h2 = h2
    t1 = t1
    t2 = t2
    p1 = p1
    p2 = p2
    Holdings = {h1, h2}
    Transactions = {t1, t2}
    Requests = {p1, p2}
SYMMETRY Symmetry
INVARIANTS
    TypeOK
    NeverBlocked
    NothingLost
PROPERTIES
    ReplacedAsAWhole
    OnlyAsReported
    ReopenedOnlyByOverlap
