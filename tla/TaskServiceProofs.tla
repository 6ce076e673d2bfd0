------------------------- MODULE TaskServiceProofs -------------------------
(***************************************************************************)
(* What the promise of TaskService amounts to, for any set of tasks: a     *)
(* task takes effect at most once, and its outcome is final.               *)
(***************************************************************************)
EXTENDS TaskService, TLAPS

Typed == status \in [TaskIds -> Status] /\ effects \in [TaskIds -> Nat]

\* A task that has not come to its end has had no effect, one that succeeded
\* has had one, and one that ended otherwise none; purging forgets which.
Counted ==
  \A i \in TaskIds :
    /\ status[i] \in Status \ {"succeeded", "purged"} => effects[i] = 0
    /\ status[i] = "succeeded" => effects[i] = 1
    /\ status[i] = "purged" => effects[i] \in {0, 1}

IInv == Typed /\ Counted

\* A transaction that moves a batch of tasks, none of them to SUCCEEDED,
\* keeps the count of effects right.
LEMMA BatchKeeps ==
  ASSUME IInv, NEW from, NEW to, Batch(from, to),
         "succeeded" \notin to, from \cap to = {}, "succeeded" \in from => to = {"purged"},
         "purged" \notin from, "purged" \in to => to = {"purged"}
  PROVE  IInv'
<1>1. Typed'
  BY DEF IInv, Typed, Batch
<1>2. Counted'
  <2> SUFFICES ASSUME NEW i \in TaskIds
               PROVE /\ status'[i] \in Status \ {"succeeded", "purged"} => effects'[i] = 0
                     /\ status'[i] = "succeeded" => effects'[i] = 1
                     /\ status'[i] = "purged" => effects'[i] \in {0, 1}
    BY DEF Counted
  <2>1. effects'[i] = effects[i] /\ status[i] \in Status /\ status'[i] \in Status
    BY DEF Batch, IInv, Typed
  <2>2. CASE status'[i] = status[i]
    BY <2>1, <2>2 DEF IInv, Counted
  <2>3. CASE status'[i] # status[i]
    <3>1. status[i] \in from /\ status'[i] \in to
      BY <2>3 DEF Batch
    <3>2. effects[i] \in {0, 1}
      BY <2>1 DEF IInv, Counted
    <3>3. status[i] # "purged" /\ status'[i] # "succeeded"
      BY <3>1
    <3>4. status'[i] # "purged" => effects[i] = 0
      BY <2>1, <3>1, <3>3 DEF IInv, Counted
    <3> QED
      BY <2>1, <3>2, <3>3, <3>4
  <2> QED
    BY <2>2, <2>3
<1> QED
  BY <1>1, <1>2 DEF IInv

\* The workflow of an open task takes effect in the step that makes it
\* SUCCEEDED.
LEMMA SucceedKeeps ==
  ASSUME IInv, NEW i \in TaskIds, Succeed(i)
  PROVE  IInv'
<1>1. Typed'
  BY DEF IInv, Typed, Succeed, Status, Terminal
<1>2. effects[i] = 0
  BY DEF IInv, Counted, Succeed, Status
<1>3. Counted'
  BY <1>2 DEF IInv, Typed, Counted, Succeed
<1> QED
  BY <1>1, <1>3 DEF IInv

\* IInv is inductive: every task's effects match what became of it.
THEOREM EffectsCounted == Spec => []IInv
<1>1. Init => IInv
  BY DEF Init, IInv, Typed, Counted, Status
<1>2. IInv /\ [Next]_<<status, effects>> => IInv'
  <2> SUFFICES ASSUME IInv, [Next]_<<status, effects>>
               PROVE IInv'
    OBVIOUS
  <2>1. CASE Create
    BY <2>1, BatchKeeps DEF Create
  <2>2. CASE End
    <3>1. "succeeded" \notin Terminal \ {"succeeded"} /\ "purged" \notin Terminal
      BY DEF Terminal
    <3> QED
      BY <2>2, <3>1, BatchKeeps DEF End, Terminal
  <2>3. CASE Purge
    BY <2>3, BatchKeeps DEF Purge, Terminal
  <2>4. ASSUME NEW i \in TaskIds, Succeed(i)
        PROVE IInv'
    BY <2>4, SucceedKeeps
  <2>5. CASE UNCHANGED <<status, effects>>
    BY <2>5 DEF IInv, Typed, Counted
  <2> QED
    BY <2>1, <2>2, <2>3, <2>4, <2>5 DEF Next
<1> QED
  BY <1>1, <1>2, PTL DEF Spec

\* A task takes effect at most once, exactly when it succeeds: what a client
\* may rely on whatever crashes, retries and late workers there are, since the
\* task runtime implements TaskService.
THEOREM ExactlyOnceIfSucceeded == Spec => []AtMostOnce
<1>1. IInv => AtMostOnce
  <2> SUFFICES ASSUME IInv, NEW i \in TaskIds
               PROVE /\ effects[i] <= 1
                     /\ effects[i] = 1 => status[i] \in {"succeeded", "purged"}
                     /\ status[i] = "succeeded" => effects[i] = 1
    BY DEF AtMostOnce
  <2>1. status[i] \in Status
    BY DEF IInv, Typed
  <2> QED
    BY <2>1 DEF IInv, Counted
<1> QED
  BY <1>1, EffectsCounted, PTL

\* A finished task stays finished: no step reopens it, changes its outcome or
\* lets it take effect again.
THEOREM OutcomeFinal == Spec => FinalIsFinal
<1> DEFINE Kept == \A i \in TaskIds :
             status[i] \in Terminal \cup {"purged"} =>
               status'[i] \in {status[i], "purged"} /\ effects'[i] = effects[i]
<1>1. IInv /\ [Next]_<<status, effects>> => [Kept]_<<status, effects>>
  <2> SUFFICES ASSUME IInv, Next, NEW i \in TaskIds, status[i] \in Terminal \cup {"purged"}
               PROVE  status'[i] \in {status[i], "purged"} /\ effects'[i] = effects[i]
    OBVIOUS
  <2>1. CASE Create
    BY <2>1 DEF Create, Batch, Terminal
  <2>2. CASE End
    BY <2>2 DEF End, Batch, Terminal
  <2>3. CASE Purge
    BY <2>3 DEF Purge, Batch
  <2>4. ASSUME NEW j \in TaskIds, Succeed(j)
        PROVE  status'[i] = status[i] /\ effects'[i] = effects[i]
    BY <2>4 DEF Succeed, Terminal, IInv, Typed
  <2> QED
    BY <2>1, <2>2, <2>3, <2>4 DEF Next
<1> QED
  BY <1>1, EffectsCounted, PTL DEF Spec, FinalIsFinal
=============================================================================
