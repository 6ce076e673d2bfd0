------------------------------- MODULE Tasks -------------------------------
(***************************************************************************)
(* The task runtime: schedules that come due become durable task rows, a   *)
(* node's coordinator leases the due tasks to the workers of its pool, a   *)
(* worker runs the workflow in one transaction with the SUCCEEDED row, and *)
(* failures, cancellations, expired leases, restarts and changes of leader *)
(* all go through the same rows.                                           *)
(*                                                                         *)
(* The catalog tree is a set of rows [key, val].  A transaction reads the  *)
(* set as it was at its start and commits the rows it changed, provided    *)
(* none of them was changed since: snapshot isolation with the first       *)
(* committer winning, as Mvcc.tla has it for the rows themselves.  Times   *)
(* are small numbers; every node's clock is the time plus its skew.        *)
(***************************************************************************)
EXTENDS Naturals, Sequences, FiniteSets, FiniteSetsExt, SequencesExt

CONSTANTS Nodes, Workers,
          Home,          \* [Workers -> Nodes]: whose pool a worker belongs to
          Clients,       \* client sessions
          Names,         \* schedule names
          MaxAttempts,   \* defaultTaskAttempts
          Timeout,       \* defaultTaskTimeout, the length of a lease
          Backoff,       \* defaultTaskBackoff
          Spec_,         \* the period of EVERY and CRON schedules
          MaxTime,       \* bound on the time, of any workload
          MaxID,         \* bound on the catalog identities handed out
          NoSnap,
          Workloads      \* the bounded scenarios a behaviour may follow

ASSUME TaskAssumption ==
  /\ Home \in [Workers -> Nodes]
  /\ {MaxAttempts, Timeout, Spec_} \subseteq Nat \ {0}
  /\ {Backoff, MaxTime, MaxID} \subseteq Nat

VARIABLES
  db,        \* the committed rows
  nextID,    \* [Nodes -> Nat]: Store.nextID, kept in memory
  now,       \* the time
  skew,      \* [Nodes -> Nat]: how far a node's clock is ahead
  leader,    \* the node that may write
  co,        \* [Nodes -> ...]: the coordinator of a node's TaskRuntime
  slots,     \* [Nodes -> Nat]: tokens in TaskPool.slots
  jobs,      \* [Nodes -> Seq(claim)]: TaskPool.jobs
  inFlight,  \* [Nodes -> Nat]: TaskRuntime.inFlight
  life,      \* [Nodes -> {"open", "closing", "closed"}]
  wk,        \* [Workers -> ...]: a pool worker and the claim it runs
  cancels,   \* [Nodes -> set of <<task id, worker>>]: DB.taskCancels
  cl,        \* [Clients -> ...]: a client session and its statement
  seen,      \* history: the task ids ever created
  effects,   \* history: the tasks whose body committed, with multiplicity
  acked,     \* history: the tasks whose cancellation was committed
  budget     \* what is left of the chosen workload

vars == <<db, nextID, now, skew, leader, co, slots, jobs, inFlight, life, wk,
          cancels, cl, seen, effects, acked, budget>>

Terminal == {"succeeded", "failed", "cancelled", "final_failed"}
PoolSize(n) == Cardinality({w \in Workers : Home[w] = n})
Clock(n) == now + skew[n]
Retention == budget.retention   \* defaultTaskRetention
TaskIds == (1..MaxID) \X (0..MaxTime + 1)

-----------------------------------------------------------------------------
(* Rows and transactions. *)

Row(k, v) == [key |-> k, val |-> v]
RowsOf(S, K) == {r \in S : r.key \in K}
Has(S, k) == \E r \in S : r.key = k
Get(S, k) == (CHOOSE r \in S : r.key = k).val
Del(S, k) == {r \in S : r.key # k}
Put(S, k, v) == Del(S, k) \cup {Row(k, v)}

TaskKey(i) == <<"task", i>>
TaskDueKey(t, i) == <<"due", t, i>>
TaskActiveKey(s) == <<"active", s>>
TaskRetentionKey(t, i) == <<"retention", t, i>>
TaskWorkflowKey(f, i) == <<"workflow", f, i>>
TaskOwnerKey(i) == <<"owner", i>>
ScheduleKey(name) == <<"schedule", name>>
ScheduleDueKey(t, s) == <<"sdue", t, s>>
WorkflowKey == <<"flow">>

DueTasks(S, t) == {r \in S : r.key[1] = "due" /\ r.key[2] <= t}
DueSchedules(S, t) == {r \in S : r.key[1] = "sdue" /\ r.key[2] <= t}
Expired(S, t) == {r \in S : r.key[1] = "retention" /\ r.key[2] <= t}
ScheduleRows(S) == {r \in S : r.key[1] = "schedule"}
TaskRows(S) == {r \in S : r.key[1] = "task"}

(* A row the transaction changed must still be the row it read. *)
Touched(old, new) == {r.key : r \in (old \ new) \cup (new \ old)}
\* Fault: a commit does not look whether its rows are still those it read.
NoConflictBlind(old, new) == TRUE

NoConflict(old, new) ==
  RowsOf(db, Touched(old, new)) = RowsOf(old, Touched(old, new))
Merged(old, new) == (db \ (old \ new)) \cup (new \ old)

(* Cluster.AllowWrite at the node, and the commit's own proposal. *)
AllowWrite(n) == leader = n
CanCommit(n, old, new) == AllowWrite(n) /\ NoConflict(old, new)

(* validateTask: what EncodeTask refuses ends the transaction. *)
Valid(k) ==
  /\ k.updated >= k.created
  /\ k.attempt <= MaxAttempts
  /\ k.ret >= k.updated
  /\ IF k.state = "running" THEN k.attempt > 0 /\ k.lease > k.updated
                            ELSE k.lease = 0

-----------------------------------------------------------------------------
(* DispatchDueSchedules on the rows S at time t: a pure function of them. *)

CronNext(t) == (t \div Spec_ + 1) * Spec_

NextFire(c, due, t) ==
  CASE c.kind = "at"    -> 0
    [] c.kind = "every" -> due + ((t - due) \div Spec_ + 1) * Spec_
    [] c.kind = "cron"  -> CronNext(t)

NewTask(c, due, t) ==
  [state |-> "pending", flow |-> c.flow, due |-> due, created |-> t,
   updated |-> t, attempt |-> 0, lease |-> 0, cancel |-> FALSE,
   ret |-> t + Retention]

CreateTask(S, i, k) ==
  S \cup {Row(TaskKey(i), k), Row(TaskDueKey(k.due, i), i),
          Row(TaskWorkflowKey(k.flow, i), i), Row(TaskOwnerKey(i), i),
          Row(TaskActiveKey(i[1]), i)}

(* The index mismatches that make the dispatch fail as a whole. *)
DispatchOK(S, r) ==
  LET c == Get(S, ScheduleKey(r.val))
      i == <<r.key[3], r.key[2]>>
      a == TaskActiveKey(r.key[3])
  IN /\ Has(S, ScheduleKey(r.val))
     /\ c.id = r.key[3] /\ c.enabled /\ c.next = r.key[2]
     /\ Has(S, a) => /\ Has(S, TaskKey(Get(S, a)))
                     /\ Get(S, TaskKey(Get(S, a))).state \notin Terminal
                     /\ Get(S, a) = i => Get(S, TaskKey(i)).due = r.key[2]
     /\ Has(S, TaskKey(i)) => Has(S, a)

DispatchOne(S, r, t) ==
  LET c == Get(S, ScheduleKey(r.val))
      due == r.key[2]
      i == <<c.id, due>>
      created == IF Has(S, TaskActiveKey(c.id)) \/ Has(S, TaskKey(i))
                 THEN S ELSE CreateTask(S, i, NewTask(c, due, t))
      c2 == [c EXCEPT !.enabled = c.kind # "at", !.next = NextFire(c, due, t)]
      moved == Put(Del(created, r.key), ScheduleKey(r.val), c2)
  IN IF c2.enabled
     THEN Put(moved, ScheduleDueKey(c2.next, c.id), r.val) ELSE moved

Dispatch(S, t) ==
  FoldSet(LAMBDA r, acc : DispatchOne(acc, r, t), S, DueSchedules(S, t))

-----------------------------------------------------------------------------
(* The other transactions on task rows, again as functions of what they read. *)

Reserved(S, i) == Has(S, TaskActiveKey(i[1])) /\ Get(S, TaskActiveKey(i[1])) = i

Finished(k, state, t) ==
  [k EXCEPT !.state = state, !.due = 0, !.updated = t, !.lease = 0, !.ret = t + Retention]

(* terminalizeTask and the two other places that end a task: out of the due, *)
(* active and workflow indexes, into the retention index.                    *)
Finish(S, i, k, state, t) ==
  LET gone == {TaskDueKey(k.due, i), TaskActiveKey(i[1]), TaskWorkflowKey(k.flow, i)}
  IN Put({r \in S : r.key \notin gone}, TaskKey(i), Finished(k, state, t))
       \cup {Row(TaskRetentionKey(t + Retention, i), i)}

FinishOK(S, i, k, t) ==
  /\ Has(S, TaskDueKey(k.due, i)) /\ Has(S, TaskWorkflowKey(k.flow, i)) /\ Reserved(S, i)
  /\ Valid(Finished(k, "cancelled", t))

Leased(k, t) ==
  [k EXCEPT !.state = "running", !.attempt = @ + 1, !.updated = t,
            !.lease = t + Timeout, !.due = t + Timeout]

(* The row of a task that stays in the queue, under its new due time. *)
Requeue(S, i, k, k2) ==
  Put(Put(Del(S, TaskDueKey(k.due, i)), TaskKey(i), k2), TaskDueKey(k2.due, i), i)

DueOrder(a, b) ==
  \/ a.key[2] < b.key[2]
  \/ a.key[2] = b.key[2] /\ a.val[1] < b.val[1]
  \/ a.key[2] = b.key[2] /\ a.val[1] = b.val[1] /\ a.val[2] < b.val[2]

ClaimEntryOK(S, r) ==
  LET k == Get(S, TaskKey(r.val))
  IN /\ Has(S, TaskKey(r.val)) /\ k.due = r.key[2]
     /\ \/ k.state \in {"pending", "retrying"}
        \/ k.state = "running" /\ k.lease = k.due

(* ClaimDueTasks walks the due index in key order until limit tasks are leased. *)
ClaimStep(acc, r, t, limit) ==
  LET i == r.val
      k == Get(acc.rows, TaskKey(i))
  IN IF Len(acc.claimed) >= limit THEN acc
     ELSE IF k.cancel
     THEN [acc EXCEPT !.rows = Finish(@, i, k, "cancelled", t),
                      !.ok = @ /\ FinishOK(acc.rows, i, k, t)]
     ELSE IF k.attempt >= MaxAttempts
     THEN [acc EXCEPT !.rows = Finish(@, i, k, "final_failed", t),
                      !.ok = @ /\ FinishOK(acc.rows, i, k, t)]
     ELSE [rows |-> Requeue(acc.rows, i, k, Leased(k, t)),
           claimed |-> Append(acc.claimed,
                              [id |-> i, attempt |-> k.attempt + 1, lease |-> t + Timeout]),
           ok |-> acc.ok /\ Reserved(acc.rows, i) /\ Valid(Leased(k, t))]

Claim(S, t, limit) ==
  FoldLeft(LAMBDA acc, r : ClaimStep(acc, r, t, limit),
           [rows |-> S, claimed |-> <<>>, ok |-> \A r \in DueTasks(S, t) : ClaimEntryOK(S, r)],
           SetToSortSeq(DueTasks(S, t), DueOrder))

(* requestTaskCancellationTxn; a finished task is left alone. *)
Marked(k, t) ==
  [k EXCEPT !.cancel = TRUE, !.updated = t, !.ret = IF @ < t THEN t + Retention ELSE @]

CancelNow(k, t) == k.state \in {"pending", "retrying"} \/ t >= k.lease

CancelTask(S, i, t) ==
  LET k == Get(S, TaskKey(i))
  IN IF k.state \in Terminal THEN S
     ELSE IF CancelNow(k, t) THEN Finish(S, i, [k EXCEPT !.cancel = TRUE], "cancelled", t)
     ELSE Put(S, TaskKey(i), Marked(k, t))

CancelOK(S, i, t) ==
  LET k == Get(S, TaskKey(i))
  IN /\ Has(S, TaskKey(i))
     /\ k.state \notin Terminal =>
          IF CancelNow(k, t) THEN FinishOK(S, i, k, t) ELSE Valid(Marked(k, t))

RetryDelay(k) == Backoff * 2 ^ (k.attempt - 1)

Retrying(k, t) ==
  [k EXCEPT !.state = "retrying", !.updated = t, !.lease = 0, !.due = t + RetryDelay(k),
            !.ret = t + Retention]

(* finishTaskFailure for a claim that is still current. *)
FailState(k, how) ==
  CASE k.cancel -> "cancelled"
    [] ~k.cancel /\ how = "corrupt" -> "failed"
    [] ~k.cancel /\ how # "corrupt" /\ k.attempt >= MaxAttempts -> "final_failed"
    [] OTHER -> "retrying"

FailTask(S, i, t, how) ==
  LET k == Get(S, TaskKey(i))
  IN IF FailState(k, how) = "retrying" THEN Requeue(S, i, k, Retrying(k, t))
     ELSE Finish(S, i, k, FailState(k, how), t)

FailOK(S, i, t, how) ==
  LET k == Get(S, TaskKey(i))
  IN IF FailState(k, how) = "retrying" THEN Valid(Retrying(k, t)) ELSE FinishOK(S, i, k, t)

Current(S, c) ==
  /\ Has(S, TaskKey(c.id))
  /\ LET k == Get(S, TaskKey(c.id))
     IN k.state = "running" /\ k.attempt = c.attempt /\ k.lease = c.lease

(* PurgeTaskHistory. *)
Purge(S, t) ==
  LET old == {r.val : r \in Expired(S, t)}
      gone == {TaskKey(i) : i \in old} \cup {TaskOwnerKey(i) : i \in old}
  IN (S \ Expired(S, t)) \ RowsOf(S, gone)

PurgeOK(S, t) ==
  \A r \in Expired(S, t) :
    /\ Has(S, TaskKey(r.val))
    /\ LET k == Get(S, TaskKey(r.val)) IN k.ret = r.key[2] /\ k.state \in Terminal

-----------------------------------------------------------------------------
(* The processes. *)

Idle == [pc |-> "idle", t |-> 0, snap |-> NoSnap, got |-> 0, claims |-> <<>>]
Free == [pc |-> "free", job |-> NoSnap, snap |-> NoSnap, how |-> "none", sig |-> FALSE]
Quiet == [pc |-> "quiet", op |-> NoSnap, snap |-> NoSnap, node |-> NoSnap, t |-> 0]

Spend(f) == budget[f] > 0 /\ budget' = [budget EXCEPT ![f] = @ - 1]

(* A catalog with one workflow, and nothing scheduled yet. *)
Init ==
  /\ db = {Row(WorkflowKey, 1)}
  /\ nextID = [n \in Nodes |-> 2]
  /\ now = 1
  /\ budget \in Workloads
  /\ skew \in {f \in [Nodes -> 0..budget.skew] : \E n \in Nodes : f[n] = 0}
  /\ leader \in Nodes
  /\ co = [n \in Nodes |-> Idle]
  /\ slots = [n \in Nodes |-> PoolSize(n)]
  /\ jobs = [n \in Nodes |-> <<>>]
  /\ inFlight = [n \in Nodes |-> 0]
  /\ life = [n \in Nodes |-> "open"]
  /\ wk = [w \in Workers |-> Free]
  /\ cancels = [n \in Nodes |-> {}]
  /\ cl = [c \in Clients |-> Quiet]
  /\ seen = {} /\ acked = {}
  /\ effects = [i \in TaskIds |-> 0]

poolVars == <<slots, jobs, inFlight, wk, cancels>>
envVars == <<nextID, now, skew, leader, life, budget>>
history == <<seen, effects, acked>>

Created(old, new) == {r.key[2] : r \in TaskRows(new)} \ {r.key[2] : r \in TaskRows(old)}

-----------------------------------------------------------------------------
(* TaskRuntime.cycle and the purge tick, one coordinator per node. *)

(* A cycle reads the clock once and uses it for the dispatch and the claim. *)
(* A cycle that finds nothing due, or no leadership, changes nothing.       *)
CycleBegin(n) ==
  /\ co[n].pc = "idle" /\ life[n] = "open" /\ AllowWrite(n)
  /\ IF DueSchedules(db, Clock(n)) # {}
     THEN co' = [co EXCEPT ![n] = [Idle EXCEPT !.pc = "dispatch", !.t = Clock(n), !.snap = db]]
     ELSE /\ DueTasks(db, Clock(n)) # {}
          /\ co' = [co EXCEPT ![n] = [Idle EXCEPT !.pc = "slots", !.t = Clock(n)]]
  /\ UNCHANGED <<db, cl, poolVars, envVars, history>>

(* A dispatch that fails, for whatever reason, is left to the next cycle; the *)
(* cycle goes on to the claim.                                                *)
DispatchEnd(n) ==
  LET S == co[n].snap
      new == Dispatch(S, co[n].t)
      done == CanCommit(n, S, new) /\ \A r \in DueSchedules(S, co[n].t) : DispatchOK(S, r)
  IN /\ co[n].pc = "dispatch"
     /\ co' = [co EXCEPT ![n].pc = "slots", ![n].snap = NoSnap]
     /\ \/ /\ done
           /\ db' = Merged(S, new)
           /\ seen' = seen \cup Created(S, new)
        \/ /\ ~done \/ life[n] = "closing"
           /\ UNCHANGED <<db, seen>>
     /\ UNCHANGED <<cl, poolVars, envVars, effects, acked>>

(* acquireSlots takes what is free; with nothing free it waits, and the timer  *)
(* or the end of the context gives up.  The claim's transaction starts next.   *)
AcquireSlots(n) ==
  /\ co[n].pc = "slots" /\ slots[n] > 0 /\ AllowWrite(n) /\ DueTasks(db, co[n].t) # {}
  /\ co' = [co EXCEPT ![n].pc = "claim", ![n].snap = db, ![n].got = slots[n]]
  /\ slots' = [slots EXCEPT ![n] = 0]
  /\ UNCHANGED <<db, cl, jobs, inFlight, wk, cancels, envVars, history>>

AcquireNone(n) ==
  /\ co[n].pc = "slots"
  /\ slots[n] = 0 \/ life[n] = "closing" \/ ~AllowWrite(n) \/ DueTasks(db, co[n].t) = {}
  /\ co' = [co EXCEPT ![n] = Idle]
  /\ UNCHANGED <<db, cl, poolVars, envVars, history>>

ClaimEnd(n) ==
  LET S == co[n].snap
      c == Claim(S, co[n].t, co[n].got)
      done == c.ok /\ CanCommit(n, S, c.rows)
  IN /\ co[n].pc = "claim"
     /\ \/ /\ done
           /\ db' = Merged(S, c.rows)
           /\ slots' = [slots EXCEPT ![n] = @ + co[n].got - Len(c.claimed)]
           /\ co' = [co EXCEPT ![n] = [Idle EXCEPT !.pc = "submit", !.claims = c.claimed]]
        \/ /\ ~done \/ life[n] = "closing"
           /\ slots' = [slots EXCEPT ![n] = @ + co[n].got]
           /\ co' = [co EXCEPT ![n] = Idle]
           /\ UNCHANGED db
     /\ UNCHANGED <<cl, jobs, inFlight, wk, cancels, envVars, history>>

(* The claim is counted in flight before the send that hands it over. *)
Submit(n) ==
  /\ co[n].pc = "submit"
  /\ IF co[n].claims = <<>>
     THEN /\ co' = [co EXCEPT ![n] = Idle]
          /\ UNCHANGED <<jobs, inFlight>>
     ELSE /\ jobs' = [jobs EXCEPT ![n] = Append(@, Head(co[n].claims))]
          /\ inFlight' = [inFlight EXCEPT ![n] = @ + 1]
          /\ co' = [co EXCEPT ![n].claims = Tail(@)]
  /\ UNCHANGED <<db, cl, slots, wk, cancels, envVars, history>>

\* Fault: the claims that are dropped keep their slots.
SubmitStoppedLeaks(n) ==
  /\ co[n].pc = "submit" /\ life[n] = "closing" /\ co[n].claims # <<>>
  /\ co' = [co EXCEPT ![n] = Idle]
  /\ UNCHANGED <<db, cl, poolVars, envVars, history>>

(* Once the runtime closes, the select may drop the claims not yet sent; their *)
(* leases are left to run out.                                                 *)
SubmitStopped(n) ==
  /\ co[n].pc = "submit" /\ life[n] = "closing" /\ co[n].claims # <<>>
  /\ slots' = [slots EXCEPT ![n] = @ + Len(co[n].claims)]
  /\ co' = [co EXCEPT ![n] = Idle]
  /\ UNCHANGED <<db, cl, jobs, inFlight, wk, cancels, envVars, history>>

PurgeBegin(n) ==
  /\ co[n].pc = "idle" /\ life[n] = "open" /\ AllowWrite(n)
  /\ Expired(db, Clock(n)) # {}
  /\ co' = [co EXCEPT ![n] = [Idle EXCEPT !.pc = "purge", !.t = Clock(n), !.snap = db]]
  /\ UNCHANGED <<db, cl, poolVars, envVars, history>>

PurgeEnd(n) ==
  LET S == co[n].snap
      new == Purge(S, co[n].t)
      done == PurgeOK(S, co[n].t) /\ CanCommit(n, S, new)
  IN /\ co[n].pc = "purge"
     /\ co' = [co EXCEPT ![n] = Idle]
     /\ \/ done /\ db' = Merged(S, new)
        \/ (~done \/ life[n] = "closing") /\ UNCHANGED db
     /\ UNCHANGED <<cl, poolVars, envVars, history>>

-----------------------------------------------------------------------------
(* TaskPool.worker running one claim: runClaimedTask and executeClaimedTask. *)

Step(w, pc) == wk' = [wk EXCEPT ![w].pc = pc, ![w].snap = NoSnap]
StepFail(w, how) == wk' = [wk EXCEPT ![w].pc = "fail", ![w].snap = NoSnap, ![w].how = how]
StepUnleased(w) ==
  wk' = [wk EXCEPT ![w].pc = "fail", ![w].snap = NoSnap, ![w].how = "error", ![w].job.lease = 0]

(* The worker takes the job and registers the task's cancel function. *)
TakeJob(w) ==
  LET n == Home[w] IN
  /\ wk[w].pc = "free" /\ jobs[n] # <<>>
  /\ wk' = [wk EXCEPT ![w] = [Free EXCEPT !.pc = "start", !.job = Head(jobs[n])]]
  /\ jobs' = [jobs EXCEPT ![n] = Tail(@)]
  /\ cancels' = [cancels EXCEPT ![n] = {c \in @ : c[1] # Head(jobs[n]).id}
                                         \cup {<<Head(jobs[n]).id, w>>}]
  /\ UNCHANGED <<db, cl, co, slots, inFlight, envVars, history>>

(* The write gate or the admission gate turns the task away: nothing is      *)
(* written and the lease is left to run out.                                 *)
ExecRefused(w) ==
  /\ wk[w].pc = "start"
  /\ \/ ~AllowWrite(Home[w]) /\ UNCHANGED budget
     \/ Spend("refuse")
  /\ Step(w, "done")
  /\ UNCHANGED <<db, cl, co, slots, jobs, inFlight, cancels, nextID, now, skew, leader,
                 life, history>>

\* Fault: a cancel request is left to the signal, which may have come too early.
ExecBeginUncancelled(w) ==
  LET n == Home[w]
      c == wk[w].job
  IN /\ wk[w].pc = "start" /\ AllowWrite(n)
     /\ IF ~Current(db, c) \/ Clock(n) >= Get(db, TaskKey(c.id)).lease THEN Step(w, "done")
        ELSE wk' = [wk EXCEPT ![w].pc = "body", ![w].snap = db]
     /\ UNCHANGED <<db, cl, co, slots, jobs, inFlight, cancels, envVars, history>>

(* The transaction starts and checks the lease, the cancel request and the     *)
(* workflow before it runs the body.                                           *)
ExecBegin(w) ==
  LET n == Home[w]
      c == wk[w].job
      k == Get(db, TaskKey(c.id))
  IN /\ wk[w].pc = "start" /\ AllowWrite(n)
     /\ IF ~Current(db, c) \/ Clock(n) >= k.lease THEN Step(w, "done")
        ELSE IF k.cancel \/ ~Has(db, WorkflowKey) THEN StepFail(w, "error")
        ELSE IF Get(db, WorkflowKey) # k.flow THEN StepFail(w, "corrupt")
        ELSE wk' = [wk EXCEPT ![w].pc = "body", ![w].snap = db]
     /\ UNCHANGED <<db, cl, co, slots, jobs, inFlight, cancels, envVars, history>>

BodySpent == <<cl, co, slots, jobs, inFlight, cancels, nextID, now, skew, life, seen, acked>>

\* Fault: the body's writes are committed before the SUCCEEDED row is.
BodyCommitApart(w) ==
  LET n == Home[w]
      i == wk[w].job.id
      S == wk[w].snap
      k == Get(S, TaskKey(i))
      new == Finish(S, i, k, "succeeded", Clock(n))
  IN /\ wk[w].pc = "body"
     /\ effects' = [effects EXCEPT ![i] = @ + 1]
     /\ IF FinishOK(S, i, k, Clock(n)) /\ CanCommit(n, S, new)
        THEN db' = Merged(S, new) /\ Step(w, "done")
        ELSE StepUnleased(w) /\ UNCHANGED db
     /\ UNCHANGED <<BodySpent, leader, budget>>

(* The body and the SUCCEEDED row commit together.  The row is made in the same *)
(* record the failure would be reported with, so a commit that fails goes to    *)
(* finishTaskFailure with no lease, which refuses it: the task waits for its    *)
(* lease to run out.                                                            *)
BodyCommit(w) ==
  LET n == Home[w]
      i == wk[w].job.id
      S == wk[w].snap
      k == Get(S, TaskKey(i))
      new == Finish(S, i, k, "succeeded", Clock(n))
  IN /\ wk[w].pc = "body"
     /\ IF FinishOK(S, i, k, Clock(n)) /\ CanCommit(n, S, new)
        THEN /\ db' = Merged(S, new)
             /\ effects' = [effects EXCEPT ![i] = @ + 1]
             /\ Step(w, "done")
        ELSE /\ StepUnleased(w)
             /\ UNCHANGED <<db, effects>>
     /\ UNCHANGED <<BodySpent, leader, budget>>

(* The commit takes effect and its answer is lost with the leadership: the    *)
(* worker sees an error.                                                       *)
BodyInDoubt(w) ==
  LET n == Home[w]
      i == wk[w].job.id
      S == wk[w].snap
      k == Get(S, TaskKey(i))
      new == Finish(S, i, k, "succeeded", Clock(n))
  IN /\ wk[w].pc = "body"
     /\ FinishOK(S, i, k, Clock(n)) /\ CanCommit(n, S, new)
     /\ Spend("doubt")
     /\ leader' \in Nodes
     /\ db' = Merged(S, new)
     /\ effects' = [effects EXCEPT ![i] = @ + 1]
     /\ StepUnleased(w)
     /\ UNCHANGED BodySpent

(* The body fails by itself, runs out of time, or has its context cancelled. *)
BodyError(w) ==
  /\ wk[w].pc = "body"
  /\ \/ /\ wk[w].sig \/ life[Home[w]] # "open" \/ Clock(Home[w]) >= wk[w].job.lease
        /\ StepFail(w, "error") /\ UNCHANGED budget
     \/ Spend("error") /\ StepFail(w, "error")
     \/ Spend("corrupt") /\ StepFail(w, "corrupt")
  /\ UNCHANGED <<BodySpent, db, effects, leader>>

(* finishTaskFailure is a transaction of its own. *)
FailBegin(w) ==
  /\ wk[w].pc = "fail"
  /\ IF AllowWrite(Home[w]) /\ Current(db, wk[w].job)
     THEN wk' = [wk EXCEPT ![w].pc = "failing", ![w].snap = db]
     ELSE Step(w, "done")
  /\ UNCHANGED <<BodySpent, db, effects, leader, budget>>

FailEnd(w) ==
  LET n == Home[w]
      i == wk[w].job.id
      S == wk[w].snap
      new == FailTask(S, i, Clock(n), wk[w].how)
  IN /\ wk[w].pc = "failing"
     /\ IF FailOK(S, i, Clock(n), wk[w].how) /\ CanCommit(n, S, new)
        THEN db' = Merged(S, new) ELSE UNCHANGED db
     /\ Step(w, "done")
     /\ UNCHANGED <<BodySpent, effects, leader, budget>>

\* Fault: a worker that is done keeps its slot.
JobDoneLeaks(w) ==
  LET n == Home[w] IN
  /\ wk[w].pc = "done"
  /\ wk' = [wk EXCEPT ![w] = Free]
  /\ cancels' = [cancels EXCEPT ![n] = {c \in @ : c[1] # wk[w].job.id}]
  /\ inFlight' = [inFlight EXCEPT ![n] = @ - 1]
  /\ UNCHANGED <<db, cl, co, slots, jobs, envVars, history>>

(* The worker removes the registration of its task, whoever made it, gives its *)
(* slot back and reports the claim as done.                                    *)
JobDone(w) ==
  LET n == Home[w] IN
  /\ wk[w].pc = "done"
  /\ wk' = [wk EXCEPT ![w] = Free]
  /\ cancels' = [cancels EXCEPT ![n] = {c \in @ : c[1] # wk[w].job.id}]
  /\ slots' = [slots EXCEPT ![n] = @ + 1]
  /\ inFlight' = [inFlight EXCEPT ![n] = @ - 1]
  /\ UNCHANGED <<db, cl, co, jobs, envVars, history>>

-----------------------------------------------------------------------------
(* The client sessions: schedule and workflow DDL, and CANCEL TASK.  A statement *)
(* is bound and its transaction started in one step, and committed in another.  *)

FirstFire(kind, t) ==
  CASE kind = "at" -> t + 1 [] kind = "every" -> t + Spec_ [] kind = "cron" -> CronNext(t)

ClientBegin(c, op) ==
  /\ cl[c].pc = "quiet" /\ AllowWrite(leader) /\ life[leader] = "open"
  /\ cl' = [cl EXCEPT ![c] = [pc |-> "bound", op |-> op, snap |-> db, node |-> leader,
                               t |-> Clock(leader)]]
  /\ UNCHANGED <<db, co, poolVars, now, skew, leader, life, history>>

(* CREATE SCHEDULE reserves its identity when it is bound. *)
CreateSchedule(c, name, kind) ==
  /\ Spend("create")
  /\ ~Has(db, ScheduleKey(name)) /\ Has(db, WorkflowKey) /\ nextID[leader] <= MaxID
  /\ nextID' = [nextID EXCEPT ![leader] = @ + 1]
  /\ ClientBegin(c, [op |-> "create", name |-> name, kind |-> kind, id |-> nextID[leader]])

DropSchedule(c, name) ==
  /\ Spend("drop") /\ Has(db, ScheduleKey(name)) /\ UNCHANGED nextID
  /\ ClientBegin(c, [op |-> "drop", name |-> name])

AlterSchedule(c, name, new) ==
  /\ Spend("rename") /\ UNCHANGED nextID
  /\ Has(db, ScheduleKey(name)) /\ ~Has(db, ScheduleKey(new))
  /\ ClientBegin(c, [op |-> "rename", name |-> name, new |-> new])

(* DROP WORKFLOW is refused while a schedule names it or a task is not over. *)
DropWorkflow(c) ==
  /\ Spend("dropflow") /\ Has(db, WorkflowKey) /\ UNCHANGED nextID
  /\ \A r \in ScheduleRows(db) : r.val.flow # Get(db, WorkflowKey)
  /\ ~\E r \in db : r.key[1] = "workflow"
  /\ ClientBegin(c, [op |-> "dropflow"])

RequestCancel(c, i) ==
  /\ Spend("cancel") /\ Has(db, TaskKey(i)) /\ UNCHANGED nextID
  /\ ClientBegin(c, [op |-> "cancel", id |-> i])

(* What the statement writes, as a function of the rows its transaction reads. *)
Written(S, o, t) ==
  CASE o.op = "create" ->
         LET next == FirstFire(o.kind, t)
             c == [id |-> o.id, kind |-> o.kind, flow |-> Get(S, WorkflowKey),
                   next |-> next, enabled |-> TRUE]
         IN S \cup {Row(ScheduleKey(o.name), c), Row(ScheduleDueKey(next, o.id), o.name)}
    [] o.op = "drop" ->
         LET c == Get(S, ScheduleKey(o.name))
         IN Del(Del(S, ScheduleKey(o.name)), ScheduleDueKey(c.next, c.id))
    [] o.op = "rename" ->
         LET c == Get(S, ScheduleKey(o.name))
             moved == Put(Del(S, ScheduleKey(o.name)), ScheduleKey(o.new), c)
         IN IF c.enabled THEN Put(moved, ScheduleDueKey(c.next, c.id), o.new) ELSE moved
    [] o.op = "dropflow" -> Del(S, WorkflowKey)
    [] o.op = "cancel" -> CancelTask(S, o.id, t)

ClientCommit(c) ==
  LET S == cl[c].snap
      new == Written(S, cl[c].op, cl[c].t)
  IN /\ cl[c].pc = "bound"
     /\ IF /\ CanCommit(cl[c].node, S, new)
           /\ cl[c].op.op = "cancel" => CancelOK(S, cl[c].op.id, cl[c].t)
        THEN /\ db' = Merged(S, new)
             /\ IF cl[c].op.op = "cancel" /\ new # S
                THEN /\ cl' = [cl EXCEPT ![c].pc = "signal", ![c].snap = NoSnap]
                     /\ acked' = acked \cup {cl[c].op.id}
                ELSE cl' = [cl EXCEPT ![c] = Quiet] /\ UNCHANGED acked
        ELSE cl' = [cl EXCEPT ![c] = Quiet] /\ UNCHANGED <<db, acked>>
     /\ UNCHANGED <<co, poolVars, envVars, seen, effects>>

(* signalTaskCancellation calls whatever function is registered. *)
ClientSignal(c) ==
  /\ cl[c].pc = "signal"
  /\ wk' = [w \in Workers |->
              [wk[w] EXCEPT !.sig = @ \/ <<cl[c].op.id, w>> \in cancels[cl[c].node]]]
  /\ cl' = [cl EXCEPT ![c] = Quiet]
  /\ UNCHANGED <<db, co, slots, jobs, inFlight, cancels, envVars, history>>

-----------------------------------------------------------------------------
(* Time, leadership, restarts and shutdown. *)

Tick ==
  /\ now < budget.until
  /\ now' = now + 1
  /\ UNCHANGED <<db, nextID, skew, leader, co, poolVars, life, cl, history, budget>>

(* The identity stream of a node that loads the catalog starts after the largest *)
(* identity still in it.                                                          *)
LoadedID == Max({1} \cup {r.val.id : r \in ScheduleRows(db)}) + 1

(* The new leader has applied, and loaded, every committed row. *)
Lead(n) ==
  /\ n # leader /\ life[n] = "open"
  /\ leader' = n
  /\ nextID' = [nextID EXCEPT ![n] = Max({@, LoadedID})]
  /\ UNCHANGED <<db, now, skew, co, poolVars, life, cl, history>>

(* Raft moves the leadership to another node, or away from one that is gone. *)
MoveLeader(n) == Spend("move") /\ Lead(n)
ElectLeader(n) == life[leader] = "closed" /\ Lead(n) /\ UNCHANGED budget

(* What a node loses with its process. *)
Lost(n) ==
  /\ co' = [co EXCEPT ![n] = Idle]
  /\ slots' = [slots EXCEPT ![n] = PoolSize(n)]
  /\ jobs' = [jobs EXCEPT ![n] = <<>>]
  /\ inFlight' = [inFlight EXCEPT ![n] = 0]
  /\ wk' = [w \in Workers |-> IF Home[w] = n THEN Free ELSE wk[w]]
  /\ cancels' = [cancels EXCEPT ![n] = {}]
  /\ cl' = [c \in Clients |-> IF cl[c].node = n THEN Quiet ELSE cl[c]]

Crash(n) ==
  /\ Spend("crash") /\ life[n] # "closed"
  /\ Lost(n)
  /\ nextID' = [nextID EXCEPT ![n] = LoadedID]
  /\ life' = [life EXCEPT ![n] = "open"]
  /\ UNCHANGED <<db, now, skew, leader, history>>

(* TaskRuntime.Close: the context ends, the coordinator returns, and Close waits *)
(* for the claims in flight before the database is closed.                        *)
Close(n) ==
  /\ life[n] = "open" /\ Spend("close")
  /\ life' = [life EXCEPT ![n] = "closing"]
  /\ UNCHANGED <<db, nextID, now, skew, leader, co, poolVars, cl, history>>

CloseReturns(n) ==
  /\ life[n] = "closing" /\ co[n].pc = "idle" /\ inFlight[n] = 0
  /\ life' = [life EXCEPT ![n] = "closed"]
  /\ UNCHANGED <<db, nextID, now, skew, leader, co, poolVars, cl, history, budget>>

Coordinator(n) ==
  \/ CycleBegin(n) \/ DispatchEnd(n) \/ AcquireSlots(n) \/ AcquireNone(n) \/ ClaimEnd(n)
  \/ Submit(n) \/ SubmitStopped(n) \/ PurgeBegin(n) \/ PurgeEnd(n)

Worker(w) ==
  \/ TakeJob(w) \/ ExecRefused(w) \/ ExecBegin(w) \/ BodyCommit(w) \/ BodyInDoubt(w)
  \/ BodyError(w) \/ FailBegin(w) \/ FailEnd(w) \/ JobDone(w)

Client(c) ==
  \/ \E name \in Names, kind \in budget.kinds : CreateSchedule(c, name, kind)
  \/ \E name \in Names : DropSchedule(c, name)
  \/ \E name, new \in Names : AlterSchedule(c, name, new)
  \/ DropWorkflow(c)
  \/ \E r \in TaskRows(db) : RequestCancel(c, r.key[2])
  \/ ClientCommit(c) \/ ClientSignal(c)

Next ==
  \/ Tick
  \/ \E n \in Nodes : \/ Coordinator(n) \/ MoveLeader(n) \/ ElectLeader(n) \/ Crash(n)
                      \/ Close(n) \/ CloseReturns(n)
  \/ \E w \in Workers : Worker(w)
  \/ \E c \in Clients : Client(c)

(* Goroutines run, timers fire, a cluster that lost its leader elects one. *)
Fairness ==
  /\ WF_vars(Tick)
  /\ \A n \in Nodes : /\ WF_vars(CycleBegin(n)) /\ WF_vars(DispatchEnd(n))
                       /\ WF_vars(AcquireSlots(n) \/ AcquireNone(n)) /\ WF_vars(ClaimEnd(n))
                       /\ WF_vars(Submit(n)) /\ WF_vars(PurgeEnd(n))
                       /\ WF_vars(ElectLeader(n)) /\ WF_vars(CloseReturns(n))
  /\ \A w \in Workers : WF_vars(Worker(w))
  /\ \A c \in Clients : WF_vars(ClientCommit(c) \/ ClientSignal(c))

Spec == Init /\ [][Next]_vars /\ Fairness

-----------------------------------------------------------------------------
(* The types of the variables; every committed task row passes validateTask. *)
TypeOK ==
  /\ now \in 1..MaxTime /\ leader \in Nodes
  /\ \A n \in Nodes : /\ co[n].pc \in {"idle", "dispatch", "slots", "claim", "submit", "purge"}
                      /\ slots[n] \in 0..PoolSize(n) /\ inFlight[n] \in 0..PoolSize(n)
                      /\ life[n] \in {"open", "closing", "closed"}
  /\ \A w \in Workers : wk[w].pc \in {"free", "start", "body", "fail", "failing", "done"}
  /\ \A c \in Clients : cl[c].pc \in {"quiet", "bound", "signal"}
  /\ \A r \in TaskRows(db) : r.key[2] \in TaskIds /\ Valid(r.val)
  /\ seen \subseteq TaskIds /\ acked \subseteq seen /\ effects \in [TaskIds -> Nat]

Tagged(tag) == {r \in db : r.key[1] = tag}
OpenRows == {r \in TaskRows(db) : r.val.state \notin Terminal}

(* Every index of the task rows says exactly what the rows say, and a schedule *)
(* has at most one task that is not over, whatever dispatches, claims,         *)
(* cancellations, retries and purges committed and in which order.  One entry  *)
(* too many or too few makes every later poll fail with InvalidFormat.  The    *)
(* workflow of a schedule, and of a task that is not over, exists: it is what  *)
(* DROP WORKFLOW checks before it removes one.                                 *)
IndexExact ==
  LET i(r) == r.key[2]
      done == TaskRows(db) \ OpenRows
      enabled == {r \in ScheduleRows(db) : r.val.enabled}
  IN /\ Tagged("due") = {Row(TaskDueKey(r.val.due, i(r)), i(r)) : r \in OpenRows}
     /\ Tagged("active") = {Row(TaskActiveKey(i(r)[1]), i(r)) : r \in OpenRows}
     /\ Tagged("workflow") = {Row(TaskWorkflowKey(r.val.flow, i(r)), i(r)) : r \in OpenRows}
     /\ Tagged("owner") = {Row(TaskOwnerKey(i(r)), i(r)) : r \in TaskRows(db)}
     /\ Tagged("retention") = {Row(TaskRetentionKey(r.val.ret, i(r)), i(r)) : r \in done}
     /\ Tagged("sdue") = {Row(ScheduleDueKey(r.val.next, r.val.id), i(r)) : r \in enabled}
     /\ \A r1, r2 \in OpenRows : i(r1)[1] = i(r2)[1] => r1 = r2
     /\ \A r \in ScheduleRows(db) \cup OpenRows : Row(WorkflowKey, r.val.flow) \in db

(* A worker slot is free, held by a coordinator, or with one claim: queued, on *)
(* its way to the queue or being run.  When TaskRuntime.Close has returned all *)
(* are free: no worker holds a claim of the database that is about to be       *)
(* closed, and none waits in the queue.                                        *)
SlotsConserved ==
  \A n \in Nodes :
    LET busy == {w \in Workers : Home[w] = n /\ wk[w].pc # "free"} IN
    /\ slots[n] + co[n].got + Len(co[n].claims) + Len(jobs[n]) + Cardinality(busy) = PoolSize(n)
    /\ life[n] = "closed" => slots[n] = PoolSize(n)

(* Once a cancellation is committed, the workflow of that task does not take   *)
(* effect any more, although a worker may be in the middle of it.              *)
CancelFences == [][\A i \in acked : effects'[i] = effects[i]]_vars

(* The runtime implements what TaskService promises. *)
Promise ==
  INSTANCE TaskService WITH
    status <- [i \in TaskIds |->
      IF Has(db, TaskKey(i))
      THEN LET k == Get(db, TaskKey(i)) IN IF k.state \in Terminal THEN k.state ELSE "open"
      ELSE IF i \in seen THEN "purged" ELSE "none"]

ImplementsTaskService == Promise!Spec

(* A task that has come due does not stay in the queue: it is run, retried,    *)
(* cancelled or given up, through crashes, refusals and changes of leader.     *)
DueServed ==
  <>[](DueTasks(db, budget.until) = {} \/ \A n \in Nodes : life[n] # "open")
=============================================================================
