SPECIFICATION Spec
CONSTANTS
    MaxTxn = 3
    Cap = 7
    IdsPerMeta = 1
    Workloads <- MCWorkloads
CHECK_DEADLOCK FALSE
INVARIANTS
    PageOwnedOnce
    OpensAgain
    NothingLost
