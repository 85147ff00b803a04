SPECIFICATION Spec
CONSTANTS
    a1 = a1
    a2 = a2
    a3 = a3
    r1 = r1
    r2 = r2
    zero = zero
    Ids = {a1, a2, a3}
    Recipients = {r1, r2}
    ZeroAddress = zero
    Owner = owner
    Callers = {owner, stranger}
    Calls <- MCCalls
    MaxBatch = 2
    MaxUint = 5
    VaultPolicy = cleanverse
    TokenPolicy = tokenPolicy
    Deposits = {1, 3}
    Burns = {1}
    MaxBalance = 4
INVARIANTS
    TypeOK
    PaidExactlyOnce
    BatchCovered
    LedgerInv
PROPERTIES
    Lifecycle
    BlockedNeverAborts
    ItemsOnRecord
    LedgerSpec
