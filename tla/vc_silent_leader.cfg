CONSTANTS
    a = a
    b = b
    c = c
    d = d
    alice = alice
    bob = bob
    i1 = i1
    i2 = i2
    i3 = i3
    i4 = i4
    NoRequest = NoRequest
    Replica = {a, b, c, d}
    F = 1
    Down = {}
    ByzantineLeader = {a}
    ByzantineBackup = {}
    Client = {alice, bob}
    Item = {i1, i2, i3, i4}
    MaxSeq = 2
    MaxView = 1
    LeaderOf <- Leaders
    Request <- JustAlice
    Funded <- JustAlice
    Reached <- TwoBackups
SPECIFICATION FairSpec
PROPERTIES
    EveryTransferAnswered
CHECK_DEADLOCK FALSE
