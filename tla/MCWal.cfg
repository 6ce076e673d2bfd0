SPECIFICATION Spec
CHECK_DEADLOCK FALSE
CONSTANTS
    Proc = {p1, p2}
    NoProc = NoProc
    SegmentSize = 2
    NonceBatch = 2
    ImageBatch = 2
    Workloads <- MCWorkloads
INVARIANTS
    AckedRecoverable
    DiscardedNeverWritten
    
    NonceFresh
PROPERTY
    CallsEnd
