--------------------------- MODULE MCLockManager ---------------------------
(* Instances of LockManager for TLC.                                       *)
EXTENDS LockManager, TLC

KeyReq(m, k) == [mode |-> m, on |-> [key |-> k]]
RangeReq(m, s, e) == [mode |-> m, on |-> [start |-> s, end |-> e]]

\* Two keys in both modes and two overlapping ranges, one of them open below
\* and one above.
MCRequests ==
    {KeyReq(m, k) : m \in Mode, k \in {1, 2}}
        \cup {RangeReq(Shared, 2, NoBound), RangeReq(Exclusive, NoBound, 3)}

\* Exclusive and shared locks of two keys.
MCKeyRequests == {KeyReq(m, k) : m \in Mode, k \in {1, 2}}

\* Two keys and three ranges, none of them in both modes: no request can
\* replace a lock by a weaker one.
MCWriterRequests ==
    {KeyReq(Exclusive, k) : k \in {1, 2}}
        \cup {RangeReq(Shared, 2, NoBound), RangeReq(Shared, NoBound, 2), RangeReq(Exclusive, 1, 2)}

TxnSymmetry == Permutations(Txn)
=============================================================================
