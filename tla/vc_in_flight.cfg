CONSTANTS
    a = a
    b = b
    c = c
    d = d
    alice = alice
    bob = bob
    i1 = i1
    i2 = i2
    i3 = i3
    i4 = i4
    NoRequest = NoRequest
    Replica = {a, b, c, d}
    F = 1
    Down = {}
    ByzantineLeader = {}
    ByzantineBackup = {}
    Client = {alice, bob}
    Item = {i1, i2, i3, i4}
    MaxSeq = 2
    MaxView = 1
    LeaderOf <- Leaders
    Request <- Contending
    Funded <- Contending
    Reached <- Divided
SPECIFICATION Spec
SYMMETRY Symmetric
INVARIANTS
    TypeOK
    ExecutedOnce
    AgreementUnlessLateVotes
CHECK_DEADLOCK FALSE
