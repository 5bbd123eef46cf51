CONSTANTS
    NumClusters = 2
    ItemsPerCluster = 3
    CustomersPerCluster = 1
    FundCustomers = 1
    FundAmt = 1
    Txns = 6
    Amt = 2
    InitialBalance = 2
SPECIFICATION Spec
CHECK_DEADLOCK FALSE
CONSTANT Draws <- OppositeDraws
INVARIANTS TypeOK NoFalseAlarm AmalgamateInOrder
