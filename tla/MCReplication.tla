--------------------------- MODULE MCReplication ---------------------------
(***************************************************************************)
(* A three-member cluster.  Every workload bounds one kind of trouble and  *)
(* leaves the others out.                                                  *)
(***************************************************************************)
EXTENDS Replication, TLC

Calm == [begins |-> 2, rollbacks |-> 0, elections |-> 0, crashes |-> 0,
         stalls |-> 0, checkpoints |-> 0, snapshots |-> 0, reconciles |-> 0]

MCWorkloads == {
    [Calm EXCEPT !.begins = 3, !.elections = 1],
    [Calm EXCEPT !.elections = 2],
    [Calm EXCEPT !.begins = 3, !.rollbacks = 1],
    [Calm EXCEPT !.rollbacks = 1, !.elections = 1],
    [Calm EXCEPT !.crashes = 1, !.elections = 1],
    [Calm EXCEPT !.crashes = 1, !.snapshots = 1],
    [Calm EXCEPT !.stalls = 1, !.elections = 1, !.reconciles = 1],
    [Calm EXCEPT !.begins = 1, !.checkpoints = 1, !.crashes = 1]}

\* One transaction rolls back beside a commit, and the leader changes.
StrongWorkloads == {[Calm EXCEPT !.rollbacks = 1, !.elections = 1]}

Members == Permutations(Nodes)
============================================================================
