SPECIFICATION Spec
CONSTANTS
    q1 = q1
    q2 = q2
    q3 = q3
    o1 = o1
    o2 = o2
    Requests = {q1, q2, q3}
    Scopes = {"deploy-runtime-vault"}
    Operations = {o1, o2}
    Faults = {"redis", "rpc", "kill"}
CHECK_DEADLOCK FALSE
SYMMETRY Interchangeable
INVARIANTS
    TypeOK
    ConfirmedMeansDeployed
    LateNeverDeploys
