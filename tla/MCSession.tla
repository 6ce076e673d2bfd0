----------------------------- MODULE MCSession -----------------------------
(* Instances of Session for TLC.                                             *)
EXTENDS Session, TLC

CONSTANTS a, b, c

\* The sessions of the resource group have the higher priority.
MCPriority == [s \in Sessions |-> IF s \in Grouped THEN 1 ELSE 0]

Quiet ==
    [begin |-> 0, write |-> 0, ddl |-> 0, select |-> 0, commit |-> 0, rollback |-> 0,
     expire |-> 0, timeout |-> 0, teardown |-> 0, alter |-> 0,
     slots |-> 2, queue |-> 1, bound |-> 0, keys |-> {1}, queries |-> {1}, who |-> Sessions]

MCWorkloads ==
    { [Quiet EXCEPT !.begin = 1, !.commit = 1, !.write = 2, !.expire = 1, !.bound = 1],
      [Quiet EXCEPT !.begin = 1, !.commit = 1, !.write = 3],
      [Quiet EXCEPT !.begin = 2, !.commit = 2, !.write = 4, !.keys = {1, 2}, !.who = {a, c}],
      [Quiet EXCEPT !.begin = 1, !.commit = 1, !.write = 2, !.rollback = 1, !.timeout = 1, !.teardown = 1],
      [Quiet EXCEPT !.slots = 1, !.queue = 2, !.select = 4, !.expire = 1],
      [Quiet EXCEPT !.select = 4, !.alter = 1, !.bound = 1],
      [Quiet EXCEPT !.select = 3, !.write = 1, !.queries = {1, 2}],
      [Quiet EXCEPT !.select = 2, !.write = 2],
      [Quiet EXCEPT !.select = 3, !.ddl = 1] }

\* One commit, and the statements that may find it in the cache.
StaleWorkloads == { [Quiet EXCEPT !.select = 2, !.write = 1] }
=============================================================================
