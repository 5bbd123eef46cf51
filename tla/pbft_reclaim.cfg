CONSTANTS
    p = p
    b1 = b1
    b2 = b2
    b3 = b3
    alice = alice
    bob = bob
    carol = carol
    i1 = i1
    i2 = i2
    i3 = i3
    i4 = i4
    NoRequest = NoRequest
    Replica = {p, b1}
    Primary = p
    F = 0
    InitialBalance = 10
    Down = {}
    ByzantineBackup = {}
    Client = {alice, bob, carol}
    Item = {i1, i2, i3, i4}
    Request <- DisjointTransfers
    MaxSeq = 1
    MaxReclaims = 2
    LockWaitMayExpire = FALSE
SPECIFICATION Spec
INVARIANTS
    CommittedAgreement
PROPERTIES
    CommitmentIsFinal
    
CHECK_DEADLOCK FALSE
