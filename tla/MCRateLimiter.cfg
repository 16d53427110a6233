SPECIFICATION Spec
CONSTANTS
    ip1 = ip1
    ip2 = ip2
    Clients = {ip1, ip2}
    Cost = 3
    Burst = 2
    Idle = 3
    Period = 2
    MaxNow = 12
SYMMETRY Symmetry
INVARIANTS
    TypeOK
    RateBound
    EntriesExpire
PROPERTY ImplementsTokenBucket
CHECK_DEADLOCK FALSE
