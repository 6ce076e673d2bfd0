------------------------------- MODULE MCWal -------------------------------
(* Instances of Wal for TLC.                                               *)
EXTENDS Wal

Base == [append |-> 0, images |-> 0, hold |-> 0, checkpoint |-> 0, fault |-> 0, crash |-> 0,
         rotationRace |-> FALSE, encryptRace |-> FALSE]

\* Appends and commits with rotations, a fault and a restart; a held commit
\* beside them; images that are overtaken while they are encrypted; and
\* segments removed after a checkpoint.
MCWorkloads ==
    {[Base EXCEPT !.append = 3, !.fault = 1, !.crash = 1],
     [Base EXCEPT !.append = 2, !.hold = 1, !.fault = 1, !.crash = 1],
     [Base EXCEPT !.append = 1, !.images = 1, !.hold = 1, !.crash = 1],
     [Base EXCEPT !.append = 2, !.images = 1, !.hold = 1, !.encryptRace = TRUE],
     [Base EXCEPT !.append = 4, !.checkpoint = 1, !.crash = 1]}

\* Two appends that meet at the end of a segment.
MCRotationRace == {[Base EXCEPT !.append = 4, !.crash = 0, !.rotationRace = TRUE]}

\* Records that are flushed before images with lower LSNs, then a power loss and
\* a checkpoint.
MCEncryptRace == {[Base EXCEPT !.append = 4, !.images = 1, !.checkpoint = 1, !.crash = 1, !.encryptRace = TRUE]}
=============================================================================
