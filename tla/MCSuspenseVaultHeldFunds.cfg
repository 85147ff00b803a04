SPECIFICATION Spec
CONSTANTS
    a1 = a1
    a2 = a2
    a3 = a3
    r1 = r1
    r2 = r2
    zero = zero
    Ids = {a1, a2, a3}
    Recipients = {r1, r2}
    ZeroAddress = zero
    Owner = owner
    Callers = {owner}
    Calls <- Pairs
    MaxBatch = 2
    MaxUint = 5
    VaultPolicy = cleanverse
    TokenPolicy = cleanverse
    Deposits = {3}
    Burns = {}
    MaxBalance = 4
INVARIANTS
    SuspendedFullyHeld
