CONSTANTS
    p = p
    b1 = b1
    b2 = b2
    b3 = b3
    alice = alice
    bob = bob
    carol = carol
    i1 = i1
    i2 = i2
    i3 = i3
    i4 = i4
    NoRequest = NoRequest
    Replica = {p, b1, b2, b3}
    Primary = p
    F = 1
    InitialBalance = 10
    Down = {}
    ByzantineBackup = {}
    Client = {alice, bob, carol}
    Item = {i1, i2, i3}
    Request <- CompetingTransfers
    MaxSeq = 2
    MaxReclaims = 0
    LockWaitMayExpire = TRUE
SPECIFICATION Spec
SYMMETRY Backups
INVARIANTS
    TypeOK
    CertificatesAreBacked
    
    AppliedAtMostOnce
    PrimaryHoldsItsLocks
    FundsStayReserved
CHECK_DEADLOCK FALSE
