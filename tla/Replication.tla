---------------------------- MODULE Replication ----------------------------
(***************************************************************************)
(* Quorum commit: the engine's replicated commit and rollback              *)
(* (internal/storage/engine.go), the Raft state machine that installs a    *)
(* leader's WAL records on its followers (internal/replication/fsm.go),    *)
(* leadership, write and read gates (internal/replication/cluster.go,      *)
(* read.go) and the executor's apply guard (internal/executor/session.go,  *)
(* db.go).                                                                 *)
(*                                                                         *)
(* A node numbers its WAL records by itself: a record's LSN is the node's  *)
(* next one, and a held commit record that is discarded leaves its LSN     *)
(* unused.  A batch shipped through Raft is the set of durable records     *)
(* after the last shipped LSN, followed by the held commit records.        *)
(*                                                                         *)
(* A transaction's data is one record written while it is open ("begin",   *)
(* for Begin and its undo records) and one at commit ("image").  Two nodes *)
(* never use one transaction number here, as they may in the code.  WAL    *)
(* and undo I/O errors are left to the module Wal.                         *)
(*                                                                         *)
(* Raft itself is external: a log of committed entries, one current        *)
(* leader, members that still believe in an older leadership, and          *)
(* proposals whose fate an election decides.                               *)
(***************************************************************************)
EXTENDS Integers, FiniteSets, FiniteSetsExt, Sequences

CONSTANTS Nodes, MaxTxn, None, Workloads

VARIABLES
    wal,      \* wal[n]: the records of n's log, held ones excluded
    pos,      \* pos[n]: the counters of n's log and of its shipping
    batch,    \* batch[n]: what the holder of replMu on n is doing
    fsm,      \* fsm[n]: the state machine's two watermarks
    gate,     \* gate[n]: leadership as n sees it, and the suspect flag
    vis,      \* vis[n]: the transactions whose effects n shows
    replOpen, \* replOpen[n]: replicated transactions without an outcome
    raft,     \* the committed entries, the current leader and its term
    prop,     \* prop[n]: n's proposal that no quorum has stored yet
    snap,     \* snap[n]: n's last Raft snapshot
    tx,       \* the transactions
    budget    \* how many of each bounded event may still happen

vars == <<wal, pos, batch, fsm, gate, vis, replOpen, raft, prop, snap, tx, budget>>

Txn == 1 .. MaxTxn

Workload == [begins : Nat, rollbacks : Nat, elections : Nat, crashes : Nat,
             stalls : Nat, checkpoints : Nat, snapshots : Nat, reconciles : Nat]

ASSUME WorkloadsAssumption == Workloads \subseteq Workload
ASSUME NoneAssumption == None \notin Nodes

Idle == [pc |-> "idle", kind |-> "commit", txns |-> {}, recs |-> {}, held |-> {}, pre |-> 0,
         idx |-> 0, out |-> "none"]

\* A transaction that has not ended holds applyMu shared on its node, and the
\* settlement of a new leader holds it exclusively.
Active == {"open", "queued", "batched", "rolling"}
On(n) == {t \in Txn : tx[t].node = n /\ tx[t].st \in Active}
applyMuFree(n) == On(n) = {} /\ batch[n].kind # "settle"

\* The commit batch keeps the engine's mutex from its flush to the hold.
engineMu(n) == batch[n].pc # "flushed"

Lsns(recs) == {r.lsn : r \in recs}
Last(recs) == Max(Lsns(recs))
Of(type, recs) == {r.txn : r \in {s \in recs : s.type = type}}

Spend(what) == budget[what] > 0 /\ budget' = [budget EXCEPT ![what] = @ - 1]

\* The records of the given type for ts, numbered from lsn on.
Numbered(ts, type, lsn) ==
    {[lsn |-> lsn + Cardinality({s \in ts : s < t}), txn |-> t, type |-> type] : t \in ts}

----------------------------------------------------------------------------
(* Sessions                                                                *)

Leads(n) == gate[n].leads # 0

leaderReady(n) == gate[n].ready = gate[n].leads

\* Fault: any leader accepts writes.
AllowWriteUnready(n) == Leads(n)

AllowWrite(n) == Leads(n) /\ leaderReady(n)

\* A write transaction starts: its session takes the apply guard, passes the
\* write gate and logs its first records.
Begin(n) ==
    /\ Spend("begins")
    /\ gate[n].up /\ AllowWrite(n) /\ engineMu(n)
    /\ \E t \in Txn :
         /\ tx[t].st = "none" /\ \A s \in 1 .. t - 1 : tx[s].st # "none"
         /\ tx' = [tx EXCEPT ![t] = [node |-> n, st |-> "open"]]
         /\ wal' = [wal EXCEPT ![n] = @ \cup Numbered({t}, "begin", pos[n].next)]
    /\ pos' = [pos EXCEPT ![n].next = @ + 1]
    /\ UNCHANGED <<batch, fsm, gate, vis, replOpen, raft, prop, snap>>

\* COMMIT passes the write gate again and joins the commit queue.
Commit(t) ==
    /\ tx[t].st = "open" /\ AllowWrite(tx[t].node)
    /\ tx' = [tx EXCEPT ![t].st = "queued"]
    /\ UNCHANGED <<wal, pos, batch, fsm, gate, vis, replOpen, raft, prop, snap, budget>>

\* A rollback, also one that a timeout or a lost connection forces on a node
\* that may no longer lead: undo, then the abort record, under neither replMu
\* nor the engine's mutex.
RollbackTxn(t) ==
    /\ tx[t].st = "open"
    /\ Spend("rollbacks")
    /\ LET n == tx[t].node IN
         /\ wal' = [wal EXCEPT ![n] = @ \cup Numbered({t}, "abort", pos[n].next)]
         /\ pos' = [pos EXCEPT ![n].next = @ + 1]
    /\ tx' = [tx EXCEPT ![t].st = "rolling"]
    /\ UNCHANGED <<batch, fsm, gate, vis, replOpen, raft, prop, snap>>

\* A checkpoint, of a leader or of a follower that closes or is backed up,
\* logs records of its own without the engine's mutex, then flushes them.
Checkpoint(n) ==
    /\ gate[n].up
    /\ Spend("checkpoints")
    /\ wal' = [wal EXCEPT ![n] = @ \cup Numbered({0}, "checkpoint", pos[n].next)]
    /\ pos' = [pos EXCEPT ![n].next = @ + 1]
    /\ UNCHANGED <<batch, fsm, gate, vis, replOpen, raft, prop, snap, tx>>

\* A flush stops short of a held record.
CheckpointFlush(n) ==
    LET end == IF batch[n].held = {} THEN pos[n].next - 1 ELSE Min(Lsns(batch[n].held)) - 1
    IN /\ gate[n].up /\ \E r \in wal[n] : r.type = "checkpoint" /\ r.lsn > pos[n].durable
       /\ end > pos[n].durable
       /\ pos' = [pos EXCEPT ![n].durable = end]
       /\ UNCHANGED <<wal, batch, fsm, gate, vis, replOpen, raft, prop, snap, tx, budget>>

----------------------------------------------------------------------------
(* The replicated commit                                                   *)

\* takeReplLocked: the durable records after the last shipped LSN.
takeRepl(n, durable) == {r \in wal[n] : r.lsn > pos[n].repl /\ r.lsn <= durable}
taken(n, recs) == IF recs = {} THEN pos[n].repl ELSE Last(recs)

\* executeReplBatch takes the queue, logs every body and flushes them.
FlushBodies(n) ==
    /\ batch[n].pc = "idle"
    /\ LET ts == {t \in On(n) : tx[t].st = "queued"}
           next == pos[n].next + Cardinality(ts)
       IN /\ ts # {}
          /\ wal' = [wal EXCEPT ![n] = @ \cup Numbered(ts, "image", pos[n].next)]
          /\ pos' = [pos EXCEPT ![n].next = next, ![n].durable = next - 1]
          /\ batch' = [batch EXCEPT ![n] =
                         [Idle EXCEPT !.pc = "flushed", !.txns = ts, !.pre = pos[n].repl]]
          /\ tx' = [t \in Txn |-> IF t \in ts THEN [tx[t] EXCEPT !.st = "batched"] ELSE tx[t]]
    /\ UNCHANGED <<fsm, gate, vis, replOpen, raft, prop, snap, budget>>

\* The commit records are appended held, and what is durable is read back.
HoldCommits(n) ==
    /\ batch[n].pc = "flushed"
    /\ LET held == Numbered(batch[n].txns, "commit", pos[n].next)
           recs == takeRepl(n, pos[n].durable)
       IN /\ pos' = [pos EXCEPT ![n].next = @ + Cardinality(held), ![n].repl = taken(n, recs)]
          /\ batch' = [batch EXCEPT ![n].pc = "call", ![n].held = held, ![n].recs = recs \cup held]
    /\ UNCHANGED <<wal, fsm, gate, vis, replOpen, raft, prop, snap, tx, budget>>

\* A rollback ships its abort record once it has replMu.
ShipAbort(t) ==
    LET n == tx[t].node
        recs == takeRepl(n, pos[n].next - 1)
    IN /\ tx[t].st = "rolling" /\ batch[n].pc = "idle"
       /\ pos' = [pos EXCEPT ![n].durable = pos[n].next - 1, ![n].repl = taken(n, recs)]
       /\ IF recs = {}
            THEN /\ tx' = [tx EXCEPT ![t].st = "aborted"]
                 /\ UNCHANGED batch
            ELSE /\ batch' = [batch EXCEPT ![n] =
                                [Idle EXCEPT !.pc = "call", !.kind = "abort", !.txns = {t}, !.recs = recs]]
                 /\ UNCHANGED tx
       /\ UNCHANGED <<wal, fsm, gate, vis, replOpen, raft, prop, snap, budget>>

\* markLocal: the proposer's own state machine skips the entry.
markLocal(n, lsn) == [fsm[n] EXCEPT !.local = Max({@, lsn}), !.last = Max({@, lsn})]

\* Replicate on a node that is no leader: nothing was proposed.
NotProposed(n) ==
    /\ batch[n].pc = "call" /\ ~Leads(n)
    /\ batch' = [batch EXCEPT ![n].pc = "done", ![n].out = "notProposed"]
    /\ UNCHANGED <<wal, pos, fsm, gate, vis, replOpen, raft, prop, snap, tx, budget>>

\* Replicate on a leader: the records are marked local, then handed to Raft,
\* whose Apply can also fail at once (a full queue, a transfer under way).
Replicate(n) ==
    /\ batch[n].pc = "call" /\ Leads(n)
    /\ fsm' = [fsm EXCEPT ![n] = markLocal(n, Last(batch[n].recs))]
    /\ \/ /\ prop' = [prop EXCEPT ![n] = [term |-> gate[n].leads, recs |-> batch[n].recs]]
          /\ batch' = [batch EXCEPT ![n].pc = "wait"]
          /\ UNCHANGED budget
       \/ /\ Spend("stalls")
          /\ batch' = [batch EXCEPT ![n].pc = "done", ![n].out = "inDoubt"]
          /\ UNCHANGED prop
    /\ UNCHANGED <<wal, pos, gate, vis, replOpen, raft, snap, tx>>

\* Raft's future resolves once this node has applied its own entry.
Resolved(n) ==
    /\ batch[n].pc = "wait" /\ batch[n].idx # 0 /\ fsm[n].applied >= batch[n].idx
    /\ batch' = [batch EXCEPT ![n].pc = "done", ![n].out = "ok"]
    /\ UNCHANGED <<wal, pos, fsm, gate, vis, replOpen, raft, prop, snap, tx, budget>>

Settle(ts, st) == [t \in Txn |-> IF t \in ts THEN [tx[t] EXCEPT !.st = st] ELSE tx[t]]
Done(n, kind, outs) == batch[n].pc = "done" /\ batch[n].kind = kind /\ batch[n].out \in outs

\* The hold is released; the commits are durable and visible.
Keep(n) ==
    /\ wal' = [wal EXCEPT ![n] = @ \cup batch[n].held]
    /\ pos' = [pos EXCEPT ![n].repl = Max({@, Last(batch[n].held)}), ![n].durable = pos[n].next - 1]
    /\ vis' = [vis EXCEPT ![n] = @ \cup batch[n].txns]
    /\ batch' = [batch EXCEPT ![n] = Idle]

FinishCommit(n) ==
    /\ Done(n, "commit", {"ok"})
    /\ Keep(n)
    /\ tx' = Settle(batch[n].txns, "acked")
    /\ UNCHANGED <<fsm, gate, replOpen, raft, prop, snap, budget>>

\* A proposal in doubt is kept as well, but the node is suspect from here on
\* and the client is told of the error.
KeepInDoubt(n) ==
    /\ Done(n, "commit", {"inDoubt"})
    /\ Keep(n)
    /\ gate' = [gate EXCEPT ![n].suspect = TRUE]
    /\ tx' = Settle(batch[n].txns, "inDoubt")
    /\ UNCHANGED <<fsm, replOpen, raft, prop, snap, budget>>

\* A batch that never reached Raft: the held records are taken back (their
\* LSNs are not), the watermark too, and the transactions are rolled back.
DiscardCommit(n) ==
    /\ Done(n, "commit", {"notProposed"})
    /\ LET ts == batch[n].txns IN
         /\ wal' = [wal EXCEPT ![n] = @ \cup Numbered(ts, "abort", pos[n].next)]
         /\ pos' = [pos EXCEPT ![n].next = @ + Cardinality(ts), ![n].repl = batch[n].pre]
         /\ tx' = Settle(ts, "rejected")
    /\ batch' = [batch EXCEPT ![n] = Idle]
    /\ UNCHANGED <<fsm, gate, vis, replOpen, raft, prop, snap, budget>>

\* A rollback ignores what became of its records.
FinishAbort(n) ==
    /\ batch[n].pc = "done" /\ batch[n].kind = "abort"
    /\ tx' = Settle(batch[n].txns, "aborted")
    /\ batch' = [batch EXCEPT ![n] = Idle]
    /\ UNCHANGED <<wal, pos, fsm, gate, vis, replOpen, raft, prop, snap, budget>>

----------------------------------------------------------------------------
(* The state machine on every member                                       *)

\* InstallRecords keeps the records up to the first gap.
installed(n, recs) ==
    {r \in recs : /\ r.lsn >= pos[n].next
                  /\ pos[n].next .. r.lsn \subseteq Lsns(recs)}

Skips(n, recs) == Last(recs) <= fsm[n].local \/ Last(recs) <= fsm[n].last
Known(n, recs) == Last(recs) < pos[n].next

\* The next committed entry of the log reaches n's state machine.
NextEntry(n) == raft.log[fsm[n].applied + 1]

\* External: a superseded leader that has not heard of it knows of no entry
\* committed since.
CommitIndex(n) == IF Leads(n) /\ raft.leader # n THEN gate[n].seen ELSE Len(raft.log)
Behind(n) == gate[n].up /\ fsm[n].applied < CommitIndex(n)

ApplySkip(n) ==
    /\ Behind(n) /\ Skips(n, NextEntry(n))
    /\ fsm' = [fsm EXCEPT ![n].applied = @ + 1]
    /\ UNCHANGED <<wal, pos, batch, gate, vis, replOpen, raft, prop, snap, tx, budget>>

ApplyKnown(n) ==
    /\ Behind(n) /\ ~Skips(n, NextEntry(n)) /\ Known(n, NextEntry(n))
    /\ applyMuFree(n)
    /\ fsm' = [fsm EXCEPT ![n].applied = @ + 1, ![n].last = Last(NextEntry(n))]
    /\ UNCHANGED <<wal, pos, batch, gate, vis, replOpen, raft, prop, snap, tx, budget>>

\* Fault: only a transaction whose first records came with this entry is redone.
ApplyWholeOnly(n) ==
    /\ Behind(n)
    /\ LET recs == NextEntry(n)
           ended == Of("commit", recs) \cup Of("abort", recs)
       IN /\ ~Skips(n, recs) /\ ~Known(n, recs) /\ applyMuFree(n)
          /\ {r \in recs : r.lsn >= pos[n].next} = installed(n, recs)
          /\ wal' = [wal EXCEPT ![n] = @ \cup installed(n, recs)]
          /\ pos' = [pos EXCEPT ![n] = [next |-> Last(recs) + 1, durable |-> Last(recs),
                                        repl |-> Max({@.repl, Last(recs)})]]
          /\ vis' = [vis EXCEPT ![n] = @ \cup (Of("commit", recs) \cap Of("begin", recs))]
          /\ replOpen' = [replOpen EXCEPT ![n] = (@ \cup Of("begin", recs)) \ ended]
          /\ fsm' = [fsm EXCEPT ![n].applied = @ + 1, ![n].last = Last(recs)]
    /\ UNCHANGED <<batch, gate, raft, prop, snap, tx, budget>>

\* ApplyReplicated: install the records, redo the transactions committed by
\* this batch, remember those without an outcome.
ApplyReplicated(n) ==
    /\ Behind(n)
    /\ LET recs == NextEntry(n)
           more == installed(n, recs)
           ended == Of("commit", recs) \cup Of("abort", recs)
       IN /\ ~Skips(n, recs) /\ ~Known(n, recs) /\ applyMuFree(n)
          /\ {r \in recs : r.lsn >= pos[n].next} = more
          /\ wal' = [wal EXCEPT ![n] = @ \cup more]
          /\ pos' = [pos EXCEPT ![n] = [next |-> Last(recs) + 1, durable |-> Last(recs),
                                        repl |-> Max({@.repl, Last(recs)})]]
          /\ vis' = [vis EXCEPT ![n] = @ \cup (Of("commit", recs) \cap Of("image", recs))]
          /\ replOpen' = [replOpen EXCEPT ![n] = (@ \cup Of("begin", recs)) \ ended]
          /\ fsm' = [fsm EXCEPT ![n].applied = @ + 1, ![n].last = Last(recs)]
    /\ UNCHANGED <<batch, gate, raft, prop, snap, tx, budget>>

\* A gap fails closed: the records before it stay in the log's buffer, the
\* watermark does not move, and Raft goes on to the next entry.
ApplyGap(n) ==
    /\ Behind(n)
    /\ LET recs == NextEntry(n)
           more == installed(n, recs)
       IN /\ ~Skips(n, recs) /\ ~Known(n, recs) /\ applyMuFree(n)
          /\ {r \in recs : r.lsn >= pos[n].next} # more
          /\ wal' = [wal EXCEPT ![n] = @ \cup more]
          /\ pos' = [pos EXCEPT ![n].next = @ + Cardinality(more)]
    /\ fsm' = [fsm EXCEPT ![n].applied = @ + 1]
    /\ UNCHANGED <<batch, gate, vis, replOpen, raft, prop, snap, tx, budget>>

\* Raft snapshots a state machine as one number, its watermark.
Snapshot(n) ==
    /\ gate[n].up /\ fsm[n].applied > snap[n].idx
    /\ Spend("snapshots")
    /\ snap' = [snap EXCEPT ![n] = [idx |-> fsm[n].applied, lsn |-> fsm[n].last]]
    /\ UNCHANGED <<wal, pos, batch, fsm, gate, vis, replOpen, raft, prop, tx>>

----------------------------------------------------------------------------
(* Leadership, and Raft                                                    *)

Up == {n \in Nodes : gate[n].up}
Majority == 2 * Cardinality(Up) > Cardinality(Nodes)

\* External: a majority stores the current leader's proposal.
QuorumCommit(n) ==
    /\ Majority /\ gate[n].up /\ raft.leader = n /\ prop[n] # None /\ prop[n].term = raft.term
    /\ raft' = [raft EXCEPT !.log = Append(@, prop[n].recs)]
    /\ prop' = [prop EXCEPT ![n] = None]
    /\ batch' = [batch EXCEPT ![n].idx = IF batch[n].pc = "wait" THEN Len(raft.log) + 1 ELSE 0]
    /\ UNCHANGED <<wal, pos, fsm, gate, vis, replOpen, snap, tx, budget>>

\* External: a member wins an election.  The proposal the previous leader
\* left behind survives in the winner's log or is lost.
Elect(m) ==
    /\ Majority /\ gate[m].up /\ ~Leads(m)
    /\ Spend("elections")
    /\ LET limbo == {n \in Nodes : prop[n] # None /\ prop[n].term = raft.term} IN
         /\ \E kept \in SUBSET limbo :
              raft' = [log |-> IF kept = {} THEN raft.log
                               ELSE Append(raft.log, prop[CHOOSE n \in kept : TRUE].recs),
                       leader |-> m, term |-> raft.term + 1]
         /\ prop' = [n \in Nodes |-> IF n \in limbo THEN None ELSE prop[n]]
    /\ gate' = [n \in Nodes |->
                  CASE n = m -> [gate[n] EXCEPT !.leads = raft.term + 1]
                    [] n = raft.leader -> [gate[n] EXCEPT !.seen = Len(raft.log)]
                    [] OTHER -> gate[n]]
    /\ UNCHANGED <<wal, pos, batch, fsm, vis, replOpen, snap, tx>>

\* External: a leader learns of a newer one, or loses its lease.  A proposal
\* it still waits for fails with its fate unknown.
StepDown(n) ==
    /\ gate[n].up /\ Leads(n)
    /\ raft.leader # n \/ ~Majority \/ budget.elections > 0
    /\ gate' = [gate EXCEPT ![n].leads = 0, ![n].seen = 0]
    /\ raft' = [raft EXCEPT !.leader = IF @ = n THEN None ELSE @]
    /\ prop' = [prop EXCEPT ![n] = IF raft.leader = n THEN @ ELSE None]
    /\ batch' = [batch EXCEPT ![n] = IF @.pc = "wait" /\ @.idx = 0
                                     THEN [@ EXCEPT !.pc = "done", !.out = "inDoubt"] ELSE @]
    /\ UNCHANGED <<wal, pos, fsm, vis, replOpen, snap, tx, budget>>

\* watchLeadership: behind a Raft barrier, hence with every earlier entry
\* applied, the leader settles its predecessors' open transactions and opens
\* for writes.
BarrierPassed(n) ==
    /\ Leads(n) /\ ~leaderReady(n)
    /\ raft.leader = n /\ Majority /\ fsm[n].applied = Len(raft.log)
    /\ applyMuFree(n) /\ batch[n].pc = "idle"

\* Fault: the leader opens for writes and leaves its predecessors' transactions.
ReadyAtOnce(n) ==
    /\ BarrierPassed(n)
    /\ gate' = [gate EXCEPT ![n].ready = gate[n].leads]
    /\ UNCHANGED <<wal, pos, batch, fsm, vis, replOpen, raft, prop, snap, tx, budget>>

SettleNothing(n) ==
    /\ BarrierPassed(n) /\ replOpen[n] = {}
    /\ gate' = [gate EXCEPT ![n].ready = gate[n].leads]
    /\ UNCHANGED <<wal, pos, batch, fsm, vis, replOpen, raft, prop, snap, tx, budget>>

SettlePredecessors(n) ==
    /\ BarrierPassed(n) /\ replOpen[n] # {}
    /\ LET aborts == Numbered(replOpen[n], "abort", pos[n].next)
           next == pos[n].next + Cardinality(aborts)
       IN /\ wal' = [wal EXCEPT ![n] = @ \cup aborts]
          /\ pos' = [pos EXCEPT ![n] = [next |-> next, durable |-> next - 1, repl |-> next - 1]]
          /\ batch' = [batch EXCEPT ![n] =
                         [Idle EXCEPT !.pc = "call", !.kind = "settle", !.pre = gate[n].leads,
                                      !.recs = takeRepl(n, next - 1) \cup aborts]]
    /\ replOpen' = [replOpen EXCEPT ![n] = {}]
    /\ UNCHANGED <<fsm, gate, vis, raft, prop, snap, tx, budget>>

\* The outcome of shipping the aborts is ignored; the term is writable.
FinishSettle(n) ==
    /\ batch[n].pc = "done" /\ batch[n].kind = "settle"
    /\ gate' = [gate EXCEPT ![n].ready = batch[n].pre]
    /\ batch' = [batch EXCEPT ![n] = Idle]
    /\ UNCHANGED <<wal, pos, fsm, vis, replOpen, raft, prop, snap, tx, budget>>

\* CLUSTER RECONCILE CONFIRM, from an operator.
Reconcile(n) ==
    /\ gate[n].up /\ gate[n].suspect
    /\ Spend("reconciles")
    /\ gate' = [gate EXCEPT ![n].suspect = FALSE]
    /\ UNCHANGED <<wal, pos, batch, fsm, vis, replOpen, raft, prop, snap, tx>>

\* A node crashes: what is not durable is gone, held commits first of all.
Durable(n) == {r \in wal[n] : r.lsn <= pos[n].durable}
Down == [up |-> FALSE, leads |-> 0, ready |-> 0, seen |-> 0, suspect |-> FALSE]

Crash(n) ==
    /\ gate[n].up
    /\ Spend("crashes")
    /\ wal' = [wal EXCEPT ![n] = Durable(n)]
    /\ pos' = [pos EXCEPT ![n] = LET end == Max(Lsns(Durable(n)) \cup {0})
                                 IN [next |-> end + 1, durable |-> end, repl |-> 0]]
    /\ fsm' = [fsm EXCEPT ![n] = [local |-> 0, last |-> snap[n].lsn, applied |-> snap[n].idx]]
    /\ gate' = [gate EXCEPT ![n] = Down]
    /\ vis' = [vis EXCEPT ![n] = Of("commit", Durable(n)) \cap Of("image", Durable(n))]
    /\ replOpen' = [replOpen EXCEPT ![n] = {}]
    /\ batch' = [batch EXCEPT ![n] = Idle]
    /\ raft' = [raft EXCEPT !.leader = IF @ = n THEN None ELSE @]
    /\ prop' = [prop EXCEPT ![n] = IF raft.leader = n THEN @ ELSE None]
    /\ tx' = Settle(On(n), "lost")
    /\ UNCHANGED snap

\* It recovers its log and replays what Raft has committed since the snapshot.
Restart(n) ==
    /\ ~gate[n].up
    /\ gate' = [gate EXCEPT ![n].up = TRUE]
    /\ UNCHANGED <<wal, pos, batch, fsm, vis, replOpen, raft, prop, snap, tx, budget>>

----------------------------------------------------------------------------
Init ==
    /\ wal = [n \in Nodes |-> {}]
    /\ pos = [n \in Nodes |-> [next |-> 1, durable |-> 0, repl |-> 0]]
    /\ batch = [n \in Nodes |-> Idle]
    /\ fsm = [n \in Nodes |-> [local |-> 0, last |-> 0, applied |-> 0]]
    /\ \E l \in Nodes :
         /\ gate = [n \in Nodes |-> [Down EXCEPT !.up = TRUE, !.leads = IF n = l THEN 1 ELSE 0]]
         /\ raft = [log |-> <<>>, leader |-> l, term |-> 1]
    /\ vis = [n \in Nodes |-> {}] /\ replOpen = [n \in Nodes |-> {}]
    /\ prop = [n \in Nodes |-> None]
    /\ snap = [n \in Nodes |-> [idx |-> 0, lsn |-> 0]]
    /\ tx = [t \in Txn |-> [node |-> None, st |-> "none"]]
    /\ budget \in Workloads

\* Every request has been answered, or no majority is left to answer it.
Finished ==
    /\ ~Majority \/ \A n \in Nodes : batch[n].pc = "idle"
    /\ UNCHANGED vars

Pipeline(n) ==
    \/ FlushBodies(n) \/ HoldCommits(n) \/ NotProposed(n) \/ Replicate(n) \/ Resolved(n)
    \/ FinishCommit(n) \/ KeepInDoubt(n) \/ DiscardCommit(n) \/ FinishAbort(n) \/ FinishSettle(n)

Apply(n) == ApplySkip(n) \/ ApplyKnown(n) \/ ApplyReplicated(n) \/ ApplyGap(n)

Leadership(n) ==
    \/ QuorumCommit(n) \/ Elect(n) \/ StepDown(n)
    \/ SettleNothing(n) \/ SettlePredecessors(n) \/ Reconcile(n)

Next ==
    \/ \E n \in Nodes : Begin(n) \/ Checkpoint(n) \/ CheckpointFlush(n) \/ Pipeline(n) \/ Apply(n) \/ Leadership(n)
    \/ \E n \in Nodes : Snapshot(n) \/ Crash(n) \/ Restart(n)
    \/ \E t \in Txn : Commit(t) \/ RollbackTxn(t) \/ ShipAbort(t)
    \/ Finished

Spec == Init /\ [][Next]_vars

----------------------------------------------------------------------------
(* Properties                                                              *)

Record == [lsn : Nat \ {0}, txn : Txn \cup {0}, type : {"begin", "image", "commit", "abort", "checkpoint"}]

\* The shape of the state of every member, of Raft and of the transactions.
TypeOK ==
    /\ \A n \in Nodes :
         /\ wal[n] \subseteq Record /\ vis[n] \subseteq Txn /\ replOpen[n] \subseteq Txn
         /\ pos[n] \in [next : Nat \ {0}, durable : Nat, repl : Nat]
         /\ batch[n].pc \in {"idle", "flushed", "call", "wait", "done"}
         /\ fsm[n].applied \in 0 .. Len(raft.log)
         /\ gate[n].leads \in 0 .. raft.term
    /\ \A i \in DOMAIN raft.log : raft.log[i] \subseteq Record /\ raft.log[i] # {}
    /\ \A t \in Txn : tx[t].st \in Active \cup {"none", "acked", "rejected", "inDoubt", "aborted", "lost"}

Entries(k) == UNION {raft.log[i] : i \in 1 .. k}
Shipped == Entries(Len(raft.log))
In(st) == {t \in Txn : tx[t].st = st}

\* Two uses of one LSN: n gave the number of a shipped record to something
\* else, or left it unused.
Clash(n) == \E r \in Shipped : r.lsn < pos[n].next /\ r \notin wal[n] \cup batch[n].held

\* An entry carries a number that leaves one below it out.
Gap == \E i \in DOMAIN raft.log : ~(1 .. Last(raft.log[i]) \subseteq Lsns(Entries(i)))

\* A restored watermark ahead of the recovered log: the snapshot was taken
\* while the last entry it covers was still a held commit.
Ahead(n) == fsm[n].last >= pos[n].next

Sound(n) == ~Clash(n) /\ ~Gap /\ ~Ahead(n)

\* executeReplBatch, ApplyReplicated and recovery: a commit is acknowledged only
\* once a quorum has it; what a member shows is quorum-committed or reported to
\* the client as in doubt, and nothing else, whatever is lost on the way; and
\* while the members number their records alike, a member shows every commit of
\* the entries it has applied, through lag, crashes, replays and its own
\* leaderships.
ShowsWhatIsDecided ==
    /\ In("acked") \subseteq Of("commit", Shipped)
    /\ \A n \in Nodes :
         /\ vis[n] \subseteq Of("commit", Shipped) \cup In("inDoubt")
         /\ gate[n].up /\ Sound(n) =>
              Of("commit", Entries(fsm[n].applied)) \subseteq vis[n] \cup batch[n].txns

\* Fault: a read goes ahead before the new leader has caught up.
StrongReadBarrierUnready(n) == gate[n].up /\ ~gate[n].suspect /\ Leads(n) /\ raft.leader = n /\ Majority

\* StrongReadBarrier: not suspect, leader, ready and confirmed by a quorum.
StrongReadBarrier(n) ==
    /\ gate[n].up /\ ~gate[n].suspect /\ Leads(n) /\ leaderReady(n)
    /\ raft.leader = n /\ Majority

\* docs/ha.md: a STRONG read sees every acknowledged write.
StrongReadFresh == \A n \in Nodes : StrongReadBarrier(n) => In("acked") \subseteq vis[n]

\* The same while the members number their records alike.
StrongReadSound ==
    \A n \in Nodes : StrongReadBarrier(n) /\ Sound(n) => In("acked") \subseteq vis[n]

\* watchLeadership: the state machine never waits for the apply guard of a
\* transaction, or of a settlement, that itself waits for a later entry of the
\* same state machine.
ApplyNeverStuck ==
    \A n \in Nodes :
      /\ Behind(n) /\ batch[n].pc = "wait"
      /\ (batch[n].idx = 0 /\ raft.leader = n) \/ batch[n].idx > fsm[n].applied + 1
      => Skips(n, NextEntry(n))

\* SettlePredecessorTransactions: a leader that accepts writes has no
\* transaction of an earlier leader left in progress.
ReadyIsSettled == \A n \in Nodes : Leads(n) /\ leaderReady(n) => replOpen[n] = {}

============================================================================
