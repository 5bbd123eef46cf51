SPECIFICATION Spec
CONSTANTS
    c1 = c1
    c2 = c2
    a1 = a1
    a2 = a2
    b1 = b1
    b2 = b2
    alice = alice
    bob = bob
    NoTransfer = NoTransfer
    Cluster = {c1, c2}
    Item = {a1, b1, b2}
    Home <- TwoClusters
    Client = {alice, bob}
    Transfer <- SharedSender
    InitialBalance = 10
    MaxHandlers = 2
    MaxCopies = 1
    MaxReclaims = 1
    PrepareMayTimeOut = FALSE
CHECK_DEADLOCK FALSE
INVARIANTS  OneCoordPrepareAtATime
