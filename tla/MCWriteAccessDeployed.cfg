SPECIFICATION Spec
CONSTANTS
    q1 = q1
    q2 = q2
    s1 = s1
    s2 = s2
    Requests = {q1, q2}
    Secrets = {s1, s2}
    NoSecret = missing
    Asked <- Endpoints
    Limited <- Deployed
    SessionAge = 2
    ArmAge = 1
    MaxTime = 4
    MaxRequests = 3
CHECK_DEADLOCK FALSE
SYMMETRY Interchangeable
INVARIANTS
    ArmingAvailable
