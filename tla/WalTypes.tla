------------------------------ MODULE WalTypes ------------------------------
(***************************************************************************)
(* The records of the write-ahead log and what its threads, its writes and *)
(* its held record are like at rest: the part of Wal.tla that the facts    *)
(* about sequences of records (WalSteps.tla) need.                         *)
(***************************************************************************)
EXTENDS Integers, Sequences, Functions

CONSTANTS
    Proc,           \* the threads that call the log
    NoProc          \* no thread

ASSUME NoProcAssumption == NoProc \notin Proc

Records == [id : Nat \ {0}, lsn : Nat \ {0}]
NoHold == [off |-> 0, len |-> 0, lsn |-> 0, prevLast |-> 0]
NoIO == [by |-> NoProc, n |-> 0, last |-> 0, written |-> FALSE]
Idle == [pc |-> "idle", kind |-> "append", recs |-> <<>>]

Last(s) == s[Len(s)]
=============================================================================
