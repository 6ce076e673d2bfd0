SPECIFICATION Spec
CONSTANTS
    k1 = k1
    k2 = k2
    Key = {k1, k2}
    Upper = {k2}
    MaxTxn = 4
    Workloads <- MCWorkloads
INVARIANTS
    
    UndoCovers
    
