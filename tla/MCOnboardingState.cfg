\* Two scripts at a time, a second set of wallets, two addresses and two
\* request ids: the smallest numbers with which a record can be mixed up.
\* The work may stop for good: a last wallet file torn, no more keys to draw.
SPECIFICATION MCSpec
CONSTANTS
    Runs = {p1, p2}
    Keys = {k1, k2}
    Contracts = {a1, a2}
    Requests = {r1, r2}
    Holders = 3
    None = None
SYMMETRY Symmetry
CHECK_DEADLOCK FALSE
INVARIANTS
    TypeOK
    RecordsAreTrue
    StatusOfRequest
    RegisteredByOwner
    PassesInOrder
