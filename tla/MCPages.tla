------------------------------ MODULE MCPages ------------------------------
(* Instances of Pages for TLC. *)
EXTENDS Pages

Nothing ==
    [begin |-> 2, split |-> 0, fail |-> 0, merge |-> 0, create |-> 0, drop |-> 0,
     checkpoint |-> 0, crash |-> 0, close |-> 0, rollback |-> 0, stale |-> FALSE]

(* Trees that grow, with crashes, checkpoints and rollbacks; everything that  *)
(* frees and reuses pages, in one process and over clean restarts; and the    *)
(* first reclaim of a database, with a crash at every step.                   *)
MCWorkloads ==
    { [Nothing EXCEPT !.split = 1, !.create = 1, !.checkpoint = 1, !.crash = 1],
      [Nothing EXCEPT !.begin = 1, !.split = 1, !.create = 1, !.checkpoint = 1, !.crash = 2],
      [Nothing EXCEPT !.split = 2, !.rollback = 1, !.checkpoint = 1, !.crash = 1],
      [Nothing EXCEPT !.split = 2, !.fail = 1, !.merge = 1, !.create = 1, !.rollback = 1],
      [Nothing EXCEPT !.begin = 3, !.create = 2, !.drop = 1, !.rollback = 1, !.checkpoint = 1],
      [Nothing EXCEPT !.begin = 3, !.split = 1, !.merge = 1, !.create = 1, !.drop = 1, !.close = 1],
      [Nothing EXCEPT !.split = 2, !.fail = 1, !.merge = 1, !.create = 1, !.rollback = 1, !.close = 2],
      [Nothing EXCEPT !.create = 1, !.drop = 1, !.checkpoint = 1, !.crash = 2] }

(* A leaf is merged away, and the server crashes. *)
MCMergeCrash == { [Nothing EXCEPT !.split = 1, !.merge = 1, !.crash = 1] }

(* Two tables are dropped one after the other, and the server crashes. *)
MCReclaimTwice == { [Nothing EXCEPT !.begin = 4, !.create = 2, !.drop = 2, !.crash = 1] }

(* A transaction that created a table is rolled back, and the server crashes. *)
MCAbortedCreate == { [Nothing EXCEPT !.create = 1, !.rollback = 1, !.crash = 1] }

(* A checkpoint logs the allocator state that it read before a split. *)
MCStaleCheckpoint == { [Nothing EXCEPT !.split = 1, !.checkpoint = 1, !.crash = 1, !.stale = TRUE] }
=============================================================================
