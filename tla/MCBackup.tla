------------------------------ MODULE MCBackup ------------------------------
(* Instances of Backup for TLC.                                            *)
EXTENDS Backup, TLC

CONSTANTS k1, k2, k3

MCHome == [k \in Key |-> IF k = k3 THEN 2 ELSE 1]

Swap == Permutations({k1, k2})

Base ==
    [begin |-> 2, write |-> 3, rollback |-> 0, rotate |-> 0, checkpoint |-> 0, remove |-> 0, vacuum |-> 0, torn |-> 0,
     archiver |-> FALSE, pitr |-> FALSE, overlap |-> FALSE, vacuumInCopy |-> FALSE, early |-> FALSE, stale |-> FALSE,
     open |-> FALSE]

\* A transaction that writes a row again, and two that share a page, beside the
\* copy; a rollback; a page that is read while it is written, and a vacuum; checkpoints of the controller
\* that make a segment obsolete; restores to an LSN, and from the archive.
MCWorkloads ==
    {[Base EXCEPT !.begin = 1],
     [Base EXCEPT !.write = 2, !.rollback = 1],
     [Base EXCEPT !.write = 2, !.torn = 1, !.vacuum = 1],
     [Base EXCEPT !.begin = 1, !.write = 2, !.rotate = 1, !.checkpoint = 1, !.remove = 1],
     [Base EXCEPT !.write = 2, !.pitr = TRUE],
     [Base EXCEPT !.begin = 1, !.write = 1, !.pitr = TRUE, !.archiver = TRUE, !.checkpoint = 1, !.rotate = 1,
                  !.remove = 1]}

\* A checkpoint of the controller while the pages are copied.
MCOverlap == {[Base EXCEPT !.begin = 1, !.write = 1, !.checkpoint = 1, !.overlap = TRUE]}

\* The undo log is rewritten between the copy of the log and its own.
MCVacuumInCopy == {[Base EXCEPT !.write = 2, !.vacuum = 1, !.vacuumInCopy = TRUE]}

\* A restore to an LSN that the copied pages have passed.
MCEarly == {[Base EXCEPT !.begin = 1, !.write = 2, !.pitr = TRUE, !.early = TRUE]}

\* An archive whose copy of the active segment is older than the backup's.
MCStaleArchive == {[Base EXCEPT !.write = 2, !.pitr = TRUE, !.archiver = TRUE, !.stale = TRUE]}

\* A transaction that begins after the backup is open at the restored LSN.
MCOpenAtTarget == {[Base EXCEPT !.write = 2, !.pitr = TRUE, !.archiver = TRUE, !.checkpoint = 1, !.open = TRUE]}

\* A segment in the middle goes after its LSN range was read.
MCHole == {[Base EXCEPT !.begin = 1, !.write = 1, !.rotate = 2, !.checkpoint = 1, !.remove = 2]}

\* A page that only a rollback has dirtied is read while it is written.
MCTornRollback == {[Base EXCEPT !.write = 2, !.torn = 1, !.rollback = 1]}

=============================================================================
