SPECIFICATION Spec
CONSTANTS
    Nodes = {n1, n2, n3}
    None = None
    MaxTxn = 3
    Workloads <- MCWorkloads
SYMMETRY Members
INVARIANTS
    ShowsWhatIsDecided
    
    ApplyNeverStuck
    ReadyIsSettled
