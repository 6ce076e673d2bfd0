SPECIFICATION Spec
CONSTANTS
    k1 = k1
    k2 = k2
    r1 = r1
    Key = {k1, k2}
    Reader = {r1}
    MaxTxn = 3
    MaxUndo = 3
    Workloads <- MCWorkloads
INVARIANTS
    SnapshotStable
    FreshReadIsCommitted
    

    
