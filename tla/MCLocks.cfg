CONSTANTS
    Clients = {c1, c2, c3}
    Ids = {a, b}
    DbMayFail = TRUE
SPECIFICATION LockFairSpec
INVARIANTS
    LockTypeOK
    ExclusiveWithinLease
    HeldIsBacked
PROPERTY
    AbandonedRowGoes
