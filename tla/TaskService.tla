---------------------------- MODULE TaskService ----------------------------
(***************************************************************************)
(* What the task runtime promises of every boundary of a schedule: one     *)
(* task at most, whose workflow takes effect at most once, together with   *)
(* the task becoming SUCCEEDED; a cancelled or failed task has no effect;  *)
(* a finished task stays finished and, once purged, never comes back.      *)
(* Tasks.tla is shown to implement it.                                     *)
(***************************************************************************)
EXTENDS Naturals

CONSTANT TaskIds

VARIABLES status,   \* [TaskIds -> Status]
          effects   \* [TaskIds -> Nat]: how often a workflow body has taken effect

Terminal == {"succeeded", "failed", "cancelled", "final_failed"}
Status == {"none", "open", "purged"} \cup Terminal

Init ==
  /\ status = [i \in TaskIds |-> "none"]
  /\ effects = [i \in TaskIds |-> 0]

(* One transaction may move a batch of tasks: each from "from" to one of "to". *)
Batch(from, to) ==
  /\ status' \in [TaskIds -> Status]
  /\ \A i \in TaskIds : status'[i] # status[i] => status[i] \in from /\ status'[i] \in to
  /\ UNCHANGED effects

Create == Batch({"none"}, {"open"})
End    == Batch({"open"}, Terminal \ {"succeeded"})
Purge  == Batch(Terminal, {"purged"})

Succeed(i) ==
  /\ status[i] = "open"
  /\ status' = [status EXCEPT ![i] = "succeeded"]
  /\ effects' = [effects EXCEPT ![i] = @ + 1]

Next == Create \/ End \/ Purge \/ \E i \in TaskIds : Succeed(i)

Spec == Init /\ [][Next]_<<status, effects>>

-----------------------------------------------------------------------------
(* What follows from it *)

\* The body of a task has taken effect at most once, and only if the task
\* succeeded; while it is open, failed or cancelled it has taken no effect.
AtMostOnce ==
  \A i \in TaskIds :
    /\ effects[i] <= 1
    /\ effects[i] = 1 => status[i] \in {"succeeded", "purged"}
    /\ status[i] = "succeeded" => effects[i] = 1

\* What a task has come to is final: it may only be purged, and has no further
\* effect.
FinalIsFinal ==
  [][\A i \in TaskIds :
       status[i] \in Terminal \cup {"purged"} =>
         status'[i] \in {status[i], "purged"} /\ effects'[i] = effects[i]]_<<status, effects>>
=============================================================================
