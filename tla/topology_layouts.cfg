CONSTANTS
    Layout <- SmallLayouts
    MaxView = 9
SPECIFICATION Spec
INVARIANTS
    QuorumReachable
    ItemsAreSharded
    EveryReplicaLeads
CHECK_DEADLOCK FALSE
