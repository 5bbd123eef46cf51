CONSTANTS
    p = p
    b1 = b1
    b2 = b2
    b3 = b3
    alice = alice
    bob = bob
    carol = carol
    i1 = i1
    i2 = i2
    i3 = i3
    i4 = i4
    NoRequest = NoRequest
    Replica = {p, b1}
    Primary = p
    F = 0
    InitialBalance = 10
    Down = {}
    ByzantineBackup = {}
    Client = {alice, bob, carol}
    Item = {i1, i2, i3, i4}
    Request <- OpenLoopTransfers
    MaxSeq = 3
    MaxReclaims = 0
    LockWaitMayExpire = FALSE
SPECIFICATION Spec
INVARIANT
    AppliedAtMostOnce
CHECK_DEADLOCK FALSE
