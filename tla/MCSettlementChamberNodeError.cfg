SPECIFICATION Spec
CONSTANTS
    Calls = {c1, c2}
    Cohort = 2
    Fickle = {2}
INVARIANTS
    BlockedByPolicy
