------------------------------ MODULE MCTasks ------------------------------
(* Instances of Tasks for TLC. *)
EXTENDS Tasks, TLC

CONSTANTS n1, n2, w1, w2, w3, c1, s1, s2

MCHome == [w \in Workers |-> IF w = w3 THEN n2 ELSE n1]

Nothing ==
  [create |-> 0, drop |-> 0, rename |-> 0, dropflow |-> 0, cancel |-> 0, refuse |-> 0,
   error |-> 0, corrupt |-> 0, doubt |-> 0, move |-> 0, crash |-> 0, close |-> 0,
   skew |-> 0, retention |-> 9, until |-> 4, kinds |-> {"at"}]

Swap == Permutations({w1, w2}) \cup Permutations({s1, s2})

Once == [Nothing EXCEPT !.create = 1]

(* Overruns, retries and the last attempt against a cancellation; the next     *)
(* boundary against a task that is not over, and the purge of what is; crashes, *)
(* changes of leader, commits in doubt and clocks that differ; two tasks, a     *)
(* pool of two and a shutdown; and the DDL of one session.                      *)
MCWorkloads ==
  { [Once EXCEPT !.cancel = 1, !.error = 1],
    [Once EXCEPT !.cancel = 1, !.kinds = {"every"}, !.until = 5, !.retention = 2],
    [Once EXCEPT !.crash = 1, !.error = 1, !.kinds = {"cron"}],
    [Once EXCEPT !.move = 1, !.doubt = 1],
    [Once EXCEPT !.move = 1, !.refuse = 1, !.skew = 1, !.until = 3],
    [Once EXCEPT !.create = 2, !.until = 3],
    [Once EXCEPT !.close = 1, !.corrupt = 1, !.retention = 1],
    [Once EXCEPT !.rename = 1, !.drop = 1, !.dropflow = 1, !.until = 3] }

(* The clocks agree: a task dated by a clock that is ahead is not claimed by *)
(* another node before that node's clock has caught up.                      *)
LiveWorkloads ==
  { [Once EXCEPT !.crash = 1, !.error = 1],
    [Once EXCEPT !.move = 1],
    [Once EXCEPT !.refuse = 1, !.kinds = {"every"}],
    [Once EXCEPT !.close = 1, !.error = 1] }

(* More than the retention passes between the creation and a claim. *)
LateWorkloads == { [Once EXCEPT !.retention = 1] }
=============================================================================
