------------------------------- MODULE MCMvcc -------------------------------
(* Instances of Mvcc for TLC.                                              *)
EXTENDS Mvcc

CONSTANTS k1, k2, r1

Base ==
    [key |-> {k1}, reader |-> {}, txns |-> 3, undo |-> 3, active |-> 3, iso |-> {SNAPSHOT},
     kinds |-> {"insert", "update"}, savepoints |-> FALSE, onlineBuild |-> FALSE]

\* Three writers on one row, locking only when they meet.
Writers == [Base EXCEPT !.iso = {RC, SNAPSHOT}]
\* The same beside a reader.
Readers == [Base EXCEPT !.reader = {r1}]
\* Tombstones and their purge, one writer at a time, beside a reader.
Deletes == [Base EXCEPT !.reader = {r1}, !.active = 1, !.iso = {RC, SNAPSHOT}, !.kinds = {"update", "delete"}]
\* Rollback to savepoints, with every write locked.
SavepointUse == [Base EXCEPT !.key = {k1, k2}, !.txns = 2, !.savepoints = TRUE, !.onlineBuild = TRUE]
\* Lock-based serializability of one row.
OneRow == [Base EXCEPT !.iso = {SERIALIZABLE}]

MCWorkloads == {Writers, Readers, Deletes, SavepointUse, OneRow}

\* A delete that took no lock meets a second writer.
MCUnlockedDelete == {[Base EXCEPT !.txns = 2, !.undo = 2, !.kinds = {"update", "delete"}]}
\* Serializability of two rows.
MCTwoRows ==
    {[Base EXCEPT !.key = {k1, k2}, !.txns = 2, !.undo = 2, !.iso = {SERIALIZABLE}, !.kinds = {"update"}]}
\* Savepoints without locks.
MCUnlockedSavepoint == {[Base EXCEPT !.txns = 2, !.undo = 2, !.savepoints = TRUE]}

=============================================================================
