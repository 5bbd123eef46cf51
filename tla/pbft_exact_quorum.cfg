CONSTANTS
    p = p
    b1 = b1
    b2 = b2
    b3 = b3
    alice = alice
    bob = bob
    carol = carol
    i1 = i1
    i2 = i2
    i3 = i3
    i4 = i4
    NoRequest = NoRequest
    Replica = {p, b1, b2, b3}
    Primary = p
    F = 1
    InitialBalance = 10
    Down = {b3}
    ByzantineBackup = {}
    Client = {alice, bob}
    Item = {i1, i2, i3}
    Request <- ContendingTransfers
    MaxSeq = 2
    MaxReclaims = 0
    LockWaitMayExpire = FALSE
SPECIFICATION FairSpec
INVARIANTS
    
    AppliedInOrder
PROPERTIES
    EveryTransferAnswered
CHECK_DEADLOCK FALSE
