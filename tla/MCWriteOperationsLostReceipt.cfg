SPECIFICATION Spec
CONSTANTS
    q1 = q1
    q2 = q2
    o1 = o1
    o2 = o2
    h1 = h1
    h2 = h2
    none = none
    Requests = {q1, q2}
    Scopes = {"distribute", "release"}
    Operations = {o1, o2}
    Cohort <- OneHolder
    Bodies <- Distributions
    Earlier = {}
    NoTarget = none
    MaxFunds = 1
    Faults = {"rpc"}
CHECK_DEADLOCK FALSE
SYMMETRY Everyone
INVARIANTS
    FailedMeansNoEffect
