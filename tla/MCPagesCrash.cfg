SPECIFICATION Spec
CONSTANTS
    MaxTxn = 3
    Cap = 7
    IdsPerMeta = 1
    Workloads <- MCMergeCrash
CHECK_DEADLOCK FALSE
INVARIANTS
    OpensAgain
