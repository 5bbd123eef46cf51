SPECIFICATION Spec
CONSTANTS
    c1 = c1
    c2 = c2
    a1 = a1
    a2 = a2
    b1 = b1
    b2 = b2
    alice = alice
    bob = bob
    NoTransfer = NoTransfer
    Cluster = {c1, c2}
    Item = {a1, b1}
    Home <- TwoClusters
    Client = {alice, bob}
    Transfer <- Single
    InitialBalance = 10
    MaxHandlers = 1
    MaxCopies = 2
    MaxReclaims = 0
    PrepareMayTimeOut = TRUE
CHECK_DEADLOCK FALSE
INVARIANTS TypeOK DecidedOnce SourceAccounted
