SPECIFICATION LiveSpec
CONSTANTS
    Txn = {t1, t2, t3}
    NoBound = NoBound
    Requests <- MCWriterRequests
INVARIANTS
    NoConflict
    WaitForExact
    NoUndetectedDeadlock
    NoLeakedGrant
PROPERTIES
    ReleaseServesQueue
    WaiterAnswered
