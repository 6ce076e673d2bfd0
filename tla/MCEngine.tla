------------------------------ MODULE MCEngine ------------------------------
(* Instances of Engine for TLC.                                            *)
EXTENDS Engine

CONSTANTS k1, k2

Base ==
    [absent |-> {}, begin |-> 2, write |-> 2, split |-> 0, checkpoint |-> 1, crash |-> 1, rollback |-> FALSE,
     flushInWrite |-> FALSE, rollbackInCheckpoint |-> FALSE]

MCWorkloads ==
    {[Base EXCEPT !.rollback = TRUE],
     [Base EXCEPT !.split = 1, !.checkpoint = 0, !.rollback = TRUE, !.absent = {k2}],
     [Base EXCEPT !.split = 1, !.begin = 1],
     [Base EXCEPT !.crash = 2, !.begin = 1]}

\* A transaction splits a leaf and inserts into it; two crashes, with a
\* checkpoint between them.
MCSplitUndo == {[Base EXCEPT !.split = 1, !.write = 1, !.crash = 2, !.absent = {k2}]}

\* A rollback overlaps a checkpoint.
MCRollbackInCheckpoint == {[Base EXCEPT !.rollback = TRUE, !.rollbackInCheckpoint = TRUE]}

\* A crash loses a Begin record but not the undo that follows it; the
\* transaction that gets the same id rolls back.
MCReusedId == {[Base EXCEPT !.rollback = TRUE, !.crash = 2, !.checkpoint = 0]}

\* FlushAll meets a page-writing operation.
MCFlushInWrite == {[Base EXCEPT !.flushInWrite = TRUE]}

=============================================================================
