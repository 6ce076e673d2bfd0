SPECIFICATION Spec
CONSTANTS
    Consumers = {c1}
    Wanted = "a"
    MaxPending = 3
    ScanRecords = 2
    SegmentRecords = 2
    Workloads <- MCWorkloads

    
PROPERTY
    CatchesUp
