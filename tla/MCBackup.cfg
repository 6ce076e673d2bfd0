SPECIFICATION Spec
CONSTANTS
    k1 = k1
    k2 = k2
    k3 = k3
    Key = {k1, k2, k3}
    LastPage = 2
    Home <- MCHome
    MaxTxn = 2
    MaxSeg = 3
    Workloads <- MCWorkloads
SYMMETRY Swap
CHECK_DEADLOCK FALSE
INVARIANTS
    
    PublishedHolds
    ReopenSame
