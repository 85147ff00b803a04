\* Two requests of one operation, any mix of the three endpoints, with Redis
\* and the chain failing.  "kill" is left to the other runs: a killed request
\* is one that takes no further step, which nothing obliges it to do here.
SPECIFICATION FairSpec
CONSTANTS
    q1 = q1
    q2 = q2
    o1 = o1
    o2 = o2
    h1 = h1
    h2 = h2
    none = none
    Requests = {q1, q2}
    Scopes = {"fund", "distribute", "release"}
    Operations = {o1}
    Cohort <- OneHolder
    Bodies <- OneOperation
    Earlier = {o1}
    NoTarget = none
    MaxFunds = 1
    Faults = {"redis", "rpc"}
CHECK_DEADLOCK FALSE
INVARIANTS
    TypeOK
    OneTxPerReservation
    ConfirmedMeansMined
PROPERTIES
    KeysExpire
