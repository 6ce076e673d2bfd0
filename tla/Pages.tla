------------------------------- MODULE Pages -------------------------------
(***************************************************************************)
(* Who owns a page of the data file: the allocator and its freelist        *)
(* (internal/storage/allocator), the structure changes, commits and        *)
(* checkpoints that log its state (internal/storage/engine.go), redo and   *)
(* the validation at open (internal/recovery/recover.go), and the reclaim  *)
(* of dropped trees with its intent file (internal/executor).              *)
(*                                                                         *)
(* A table that can be dropped is a tree of one page; the trees that stay  *)
(* (the catalog and everything that grows and shrinks) are one set, heap.  *)
(* What pages hold is left to module Engine: a logged structure change or  *)
(* commit is the pages it links and unlinks.  The log is a sequence, so    *)
(* that an LSN is an index, and redo starts at its beginning: every        *)
(* freelist image and allocator state that a checkpoint lets it skip is    *)
(* overwritten by that checkpoint's own.  For the same reason the          *)
(* superblock's copy of the allocator state is never the one that counts.  *)
(***************************************************************************)
EXTENDS Integers, Sequences, FiniteSets, SequencesExt

CONSTANTS
    MaxTxn,        \* transaction ids are 1 .. MaxTxn
    Cap,           \* Allocator.capPages
    IdsPerMeta,    \* idsPerMetaPage
    Workloads      \* what happens in a behaviour; see Workload

VARIABLES
    budget,        \* what is left of the workload
    alloc,         \* the Allocator, with the superblock state kept in memory
    disk,          \* the freelist pages in the data file
    log,           \* the WAL records
    durable,       \* Log.DurableLSN
    untouched,     \* nothing was logged since the open: NextLSN = Engine.openNextLSN
    heap,          \* the pages of the trees that stay
    tables,        \* the pages of the committed tables
    op,            \* the page-writing operation that holds pageMu
    tx,            \* Engine.writers, with Session.pending of each
    first,         \* Engine.txn, 0 when there is none
    queue,         \* DB.reclaimPending
    intent,        \* the reclaim intent file
    drain,         \* drainCommittedReclaims or replayReclaimIntent in progress
    ck,            \* the checkpoint in progress
    phase,         \* "up", "closed", "opening", "refused"
    lost           \* history: the pages nobody owned when the database was opened

vars == <<budget, alloc, disk, log, durable, untouched, heap, tables, op, tx, first, queue, intent,
          drain, ck, phase, lost>>

Txn == 1 .. MaxTxn
PageId == Nat \ {0}
State == [next : PageId, head : Nat, count : Nat]
NoTxn == [status |-> "none", made |-> {}, drops |-> {}]
NoOp == [kind |-> "none", page |-> 0, by |-> 0]
Idle == [step |-> "idle", ids |-> {}]
NoCheckpoint == [step |-> "idle", id |-> 0, state |-> [next |-> 1, head |-> 0, count |-> 0]]

\* The bounds of a behaviour, and the races it leaves out.
Workload ==
    [begin : Nat, split : Nat, fail : Nat, merge : Nat, create : Nat, drop : Nat, rollback : Nat,
     checkpoint : Nat, crash : Nat, close : Nat,
     stale : BOOLEAN]      \* a checkpoint may log an allocator state that has changed since

TypeOK ==
    /\ budget \in Workload
    /\ alloc \in [next : PageId, free : Seq(PageId), meta : Seq(PageId), dirty : BOOLEAN, sb : State]
    /\ \A p \in DOMAIN disk : p \in PageId /\ disk[p] \in [list : Seq(PageId), link : Nat, lsn : Nat]
    /\ durable \in 0 .. Len(log)
    /\ untouched \in BOOLEAN
    /\ heap \subseteq PageId
    /\ tables \subseteq PageId
    /\ op \in [kind : {"none", "split", "merge"}, page : Nat, by : {0} \cup Txn]
    /\ tx \in [Txn -> [status : {"none", "active", "committing", "done"},
                       made : SUBSET PageId, drops : SUBSET PageId]]
    /\ first \in {0} \cup Txn
    /\ queue \subseteq PageId
    /\ intent \subseteq PageId
    /\ drain \in [step : {"idle", "reclaim", "clear"}, ids : SUBSET PageId]
    /\ ck.step \in {"idle", "logging", "flushing"}
    /\ phase \in {"up", "closed", "opening", "refused"}
    /\ lost \subseteq PageId

-----------------------------------------------------------------------------
(* The allocator *)

\* Allocator.freeHeadLocked
FreeHead(a) == IF a.free = <<>> \/ a.meta = <<>> THEN 0 ELSE a.meta[1]

\* File.SetAllocStateMem, which ends Alloc and Free
Mirror(a) ==
    [a EXCEPT !.dirty = TRUE,
              !.sb = [next |-> a.next, head |-> FreeHead(a), count |-> Len(a.free)]]

\* Allocator.Alloc: the page is Taken(a), and CanAlloc(a) is its refusal past the cap.
CanAlloc(a) == a.free # <<>> \/ a.next < Cap
Taken(a) == IF a.free # <<>> THEN Last(a.free) ELSE a.next
Alloc(a) ==
    Mirror(IF a.free # <<>> THEN [a EXCEPT !.free = Front(@)] ELSE [a EXCEPT !.next = @ + 1])

\* Allocator.Free and its refusals
CanFree(a, p) == p < a.next /\ p \notin Range(a.free) /\ p \notin Range(a.meta)
Free(a, p) == IF CanFree(a, p) THEN Mirror([a EXCEPT !.free = Append(@, p)]) ELSE a

\* Allocator.persist: the metadata pages it ends with, what it writes on each,
\* and the state it leaves.
NeededMeta(a) ==
    LET need == (Len(a.free) + IdsPerMeta - 1) \div IdsPerMeta
    IN  IF need < Len(a.meta) THEN Len(a.meta) ELSE need

ClaimedMeta(a) == a.meta \o [i \in 1 .. NeededMeta(a) - Len(a.meta) |-> a.next + i - 1]

Written(a) ==
    LET meta == ClaimedMeta(a)
        place(p) == CHOOSE i \in 1 .. Len(meta) : meta[i] = p
    IN  [p \in Range(meta) |->
            [list |-> SubSeq(a.free, (place(p) - 1) * IdsPerMeta + 1,
                             IF place(p) * IdsPerMeta < Len(a.free) THEN place(p) * IdsPerMeta
                                                                    ELSE Len(a.free)),
             link |-> IF place(p) < Len(meta) THEN meta[place(p) + 1] ELSE 0,
             lsn |-> 0]]

Persisted(a) ==
    LET meta == ClaimedMeta(a)
        next == a.next + Len(meta) - Len(a.meta)
    IN  [a EXCEPT !.next = next, !.meta = meta, !.dirty = FALSE,
                  !.sb = [next |-> next, head |-> IF meta = <<>> THEN 0 ELSE meta[1],
                          count |-> Len(a.free)]]

\* Allocator.Flush
Flushed(a) == IF a.dirty THEN Persisted(a) ELSE a
FlushTo(d, a) == IF a.dirty THEN Written(a) @@ d ELSE d

-----------------------------------------------------------------------------
(* The log, redo and open *)

AllocRec(id, state) == [type |-> "alloc", id |-> id, state |-> state]
ImageRec(id, p, page) == [type |-> "image", id |-> id, page |-> p, body |-> page]
CheckpointRec(id, state) == [type |-> "checkpoint", id |-> id, state |-> state]
\* A commit record with what the page images logged before it link and unlink.
CommitRec(id, links, unlinks, made, dropped) ==
    [type |-> "commit", id |-> id, links |-> links, unlinks |-> unlinks, made |-> made,
     dropped |-> dropped]

\* Log.AllocTxn, for the transactions that are not in Txn
SystemId == -(Len(log) + 1)

Committed(recs) == {recs[i].id : i \in {j \in DOMAIN recs : recs[j].type = "commit"}}

\* recovery.RedoUntil and applyPage: the allocator state, the freelist pages
\* and the trees that replaying recs over d leaves.
Redo(recs, d) ==
    LET Replay(acc, lsn) ==
          LET r == recs[lsn]
          IN  CASE r.type = "checkpoint" -> [acc EXCEPT !.state = r.state]
                [] r.id \notin Committed(recs) -> acc
                [] r.type = "alloc" -> [acc EXCEPT !.state = r.state]
                [] r.type = "image" ->
                     IF r.page \in DOMAIN acc.disk /\ acc.disk[r.page].lsn >= lsn
                     THEN acc
                     ELSE [acc EXCEPT !.disk = (r.page :> [r.body EXCEPT !.lsn = lsn]) @@ @]
                [] r.type = "commit" ->
                     [acc EXCEPT !.heap = (@ \cup r.links) \ r.unlinks,
                                 !.tables = (@ \cup r.made) \ r.dropped,
                                 !.disk = Restrict(@, DOMAIN @ \ (r.links \cup r.made))]
    IN  FoldLeft(Replay,
                 [state |-> [next |-> 1, head |-> 0, count |-> 0], disk |-> d, heap |-> {},
                  tables |-> {}],
                 [i \in 1 .. Len(recs) |-> i])

\* The chain that Allocator.reloadLocked walks from page p on, as far as the
\* first page that it has seen or that is not a freelist page.
RECURSIVE Chain(_, _, _)
Chain(d, p, seen) ==
    IF p = 0 \/ p \in Range(seen) \/ p \notin DOMAIN d THEN seen
    ELSE Chain(d, d[p].link, Append(seen, p))

\* Allocator.reloadLocked: what it reads, and whether it accepts it.
Loaded(state, d) ==
    LET meta == Chain(d, state.head, <<>>)
    IN  [next |-> state.next, meta |-> meta, dirty |-> FALSE, sb |-> state,
         free |-> FlattenSeq([i \in 1 .. Len(meta) |-> d[meta[i]].list])]

Valid(state, d) ==
    LET a == Loaded(state, d)
    IN  /\ state.head = 0 => state.count = 0
        /\ a.meta # <<>> => d[Last(a.meta)].link = 0
        /\ a.meta = <<>> => state.head = 0
        /\ \A p \in Range(a.free) : p < state.next
        /\ Cardinality(Range(a.free)) = Len(a.free)
        /\ Range(a.meta) \cap Range(a.free) = {}
        /\ Len(a.free) = state.count

-----------------------------------------------------------------------------
(* Steps *)

\* storage.Create and btree.Create: page 1 is the root of the catalog tree.
Init ==
    /\ budget \in Workloads
    /\ alloc = [next |-> 2, free |-> <<>>, meta |-> <<>>, dirty |-> FALSE,
                sb |-> [next |-> 2, head |-> 0, count |-> 0]]
    /\ disk = <<>>
    /\ log = <<AllocRec(-1, alloc.sb), CommitRec(-1, {1}, {}, {}, {})>>
    /\ durable = 2
    /\ untouched = FALSE
    /\ heap = {1}
    /\ tables = {}
    /\ op = NoOp
    /\ tx = [t \in Txn |-> NoTxn]
    /\ first = 0
    /\ queue = {}
    /\ intent = {}
    /\ drain = Idle
    /\ ck = NoCheckpoint
    /\ phase = "up"
    /\ lost = {}

Spend(what) == budget[what] > 0 /\ budget' = [budget EXCEPT ![what] = @ - 1]

\* Session.acquireTxnGuard takes the shared apply guard, and Engine.beginLocked
\* makes the transaction a writer.
Active(t) == tx[t].status = "active"
Running == {t \in Txn : tx[t].status \in {"active", "committing"}}

Begin(t) ==
    /\ phase = "up"
    /\ drain.step = "idle"
    /\ tx[t].status = "none"
    /\ \A u \in Txn : u < t => tx[u].status # "none"
    /\ Spend("begin")
    /\ untouched' = FALSE
    /\ tx' = [tx EXCEPT ![t].status = "active"]
    /\ first' = IF first = 0 THEN t ELSE first
    /\ UNCHANGED <<alloc, disk, log, durable, heap, tables, op, queue, intent,
                   drain, ck, phase, lost>>

\* Engine.Enter and Engine.NewPage of an operation that splits
EnterSplit(t) ==
    /\ Active(t)
    /\ op = NoOp
    /\ CanAlloc(alloc)
    /\ Spend("split")
    /\ alloc' = Alloc(alloc)
    /\ op' = [kind |-> "split", page |-> Taken(alloc), by |-> t]
    /\ UNCHANGED <<disk, log, durable, untouched, heap, tables, tx, first, queue, intent, drain, ck,
                   phase, lost>>

\* Engine.NewPage when the buffer pool has no frame: the operation fails, and
\* LeaveOp logs nothing.
NewPageFails ==
    /\ op.kind = "split"
    /\ Spend("fail")
    /\ alloc' = Free(alloc, op.page)
    /\ op' = NoOp
    /\ UNCHANGED <<disk, log, durable, untouched, heap, tables, tx, first, queue, intent, drain, ck,
                   phase, lost>>

\* Engine.Drop at the end of an operation that merges: a purge, or the undo of
\* an insert.  The root of the catalog tree is never dropped.
EnterMerge(t, p) ==
    /\ Active(t)
    /\ op = NoOp
    /\ p \in heap \ {1}
    /\ Spend("merge")
    /\ alloc' = Free(alloc, p)
    /\ heap' = heap \ {p}
    /\ op' = [kind |-> "merge", page |-> p, by |-> t]
    /\ UNCHANGED <<disk, log, durable, untouched, tables, tx, first, queue, intent, drain, ck, phase,
                   lost>>

\* Engine.LeaveOp and logStructure: a system transaction of its own, which is
\* not synced.
LeaveOp ==
    /\ op.kind # "none"
    /\ LET linked == IF op.kind = "split" THEN {op.page} ELSE {}
           unlinked == {op.page} \ linked
       IN  /\ log' = log \o <<AllocRec(SystemId, alloc.sb),
                              CommitRec(SystemId, linked, unlinked, {}, {})>>
           /\ heap' = heap \cup linked
    /\ op' = NoOp
    /\ UNCHANGED <<budget, alloc, disk, durable, untouched, tables, tx, first, queue, intent, drain,
                   ck, phase, lost>>

\* Session.createTxnTree: Leave and not LeaveOp, so the commit logs the pages.
CreateTable(t) ==
    /\ Active(t)
    /\ op = NoOp
    /\ CanAlloc(alloc)
    /\ Spend("create")
    /\ alloc' = Alloc(alloc)
    /\ tx' = [tx EXCEPT ![t].made = @ \cup {Taken(alloc)}]
    /\ UNCHANGED <<disk, log, durable, untouched, heap, tables, op, first, queue, intent, drain, ck,
                   phase, lost>>

\* Session.queueTreeReclaim of DROP TABLE, under the lock of the catalog row
DropTable(t, p) ==
    /\ Active(t)
    /\ p \in tables
    /\ \A u \in Running : p \notin tx[u].drops
    /\ Spend("drop")
    /\ tx' = [tx EXCEPT ![t].drops = @ \cup {p}]
    /\ UNCHANGED <<alloc, disk, log, durable, untouched, heap, tables, op, first, queue, intent,
                   drain, ck, phase, lost>>

\* Engine.prepareDeferredCommitLocked: the state in memory is logged, and then
\* Alloc.Flush writes it.  Another operation may be in progress: the commit
\* held pageMu only while it copied its pages.
Prepare(t) ==
    /\ Active(t)
    /\ op.by # t
    /\ log' = log \o <<AllocRec(t, alloc.sb), CommitRec(t, {}, {}, tx[t].made, tx[t].drops)>>
    /\ alloc' = Flushed(alloc)
    /\ disk' = FlushTo(disk, alloc)
    /\ tx' = [tx EXCEPT ![t].status = "committing"]
    /\ UNCHANGED <<budget, durable, untouched, heap, tables, op, first, queue, intent, drain, ck,
                   phase, lost>>

\* Engine.commitUnreplicated after the flush, completeCommitLocked, and
\* Session.commit, which queues the dropped trees
CommitTxn(t) ==
    /\ tx[t].status = "committing"
    /\ durable' = Len(log)
    /\ tables' = (tables \cup tx[t].made) \ tx[t].drops
    /\ queue' = queue \cup tx[t].drops
    /\ tx' = [tx EXCEPT ![t] = [NoTxn EXCEPT !.status = "done"]]
    /\ first' = IF first = t THEN 0 ELSE first
    /\ UNCHANGED <<budget, alloc, disk, log, untouched, heap, op, intent, drain, ck, phase, lost>>

\* Fault: the rollback rereads the freelist from the data file.
RollbackRereads(t) ==
    /\ Active(t)
    /\ op.by # t
    /\ Spend("rollback")
    /\ alloc' = Loaded([alloc.sb EXCEPT !.head = IF alloc.meta = <<>> THEN 0 ELSE alloc.meta[1]], disk)
    /\ queue' = queue \cup tx[t].made
    /\ tx' = [tx EXCEPT ![t] = [NoTxn EXCEPT !.status = "done"]]
    /\ first' = IF first = t THEN 0 ELSE first
    /\ UNCHANGED <<disk, log, durable, untouched, heap, tables, op, intent, drain, ck, phase, lost>>

\* Fault: the rollback forgets the trees that the transaction created.
RollbackForgets(t) ==
    /\ Active(t)
    /\ op.by # t
    /\ Spend("rollback")
    /\ tx' = [tx EXCEPT ![t] = [NoTxn EXCEPT !.status = "done"]]
    /\ first' = IF first = t THEN 0 ELSE first
    /\ UNCHANGED <<alloc, disk, log, durable, untouched, heap, tables, op, queue, intent, drain, ck,
                   phase, lost>>

\* Engine.RollbackTxn leaves the allocator alone, and Session.abort queues the
\* trees that the transaction created.
RollbackTxn(t) ==
    /\ Active(t)
    /\ op.by # t
    /\ Spend("rollback")
    /\ queue' = queue \cup tx[t].made
    /\ tx' = [tx EXCEPT ![t] = [NoTxn EXCEPT !.status = "done"]]
    /\ first' = IF first = t THEN 0 ELSE first
    /\ UNCHANGED <<alloc, disk, log, durable, untouched, heap, tables, op, intent, drain, ck,
                   phase, lost>>

\* DB.drainCommittedReclaims up to writeReclaimIntent: the exclusive apply
\* guard waits for every transaction.
BeginDrain ==
    /\ phase = "up"
    /\ drain.step = "idle"
    /\ queue # {}
    /\ Running = {}
    /\ intent' = queue
    /\ queue' = {}
    /\ drain' = [step |-> "reclaim", ids |-> queue]
    /\ UNCHANGED <<budget, alloc, disk, log, durable, untouched, heap, tables, op, tx, first, ck,
                   phase, lost>>

\* Engine.ReclaimPages: free every page, then flush the allocator.
Reclaimed == FoldLeft(Free, alloc, SetToSortSeq(drain.ids, <))

ReclaimPages ==
    /\ drain.step = "reclaim"
    /\ alloc' = Flushed(Reclaimed)
    /\ disk' = FlushTo(disk, Reclaimed)
    /\ drain' = [step |-> "clear", ids |-> {}]
    /\ UNCHANGED <<budget, log, durable, untouched, heap, tables, op, tx, first, queue, intent, ck,
                   phase, lost>>

\* DB.clearReclaimIntent, the last step of the drain and of the open
ClearIntent ==
    /\ drain.step = "clear"
    /\ intent' = {}
    /\ drain' = Idle
    /\ phase' = "up"
    /\ UNCHANGED <<budget, alloc, disk, log, durable, untouched, heap, tables, op, tx, first, queue,
                   ck, lost>>

\* The records of Engine.Checkpoint: the freelist pages as they are in the
\* file, the checkpoint, and a commit unless some transaction is Engine.txn.
CheckpointRecs(id, a, d, state, active) ==
    [i \in 1 .. Len(a.meta) |-> ImageRec(id, a.meta[i], d[a.meta[i]])]
        \o <<CheckpointRec(id, state)>>
        \o IF active = 0 THEN <<CommitRec(id, {}, {}, {}, {})>> ELSE <<>>

\* Engine.Checkpoint up to the read of the allocator state, with the shortcut
\* when nothing was logged since the open
BeginCheckpoint ==
    /\ phase = "up"
    /\ ck.step = "idle"
    /\ ~untouched
    /\ Spend("checkpoint")
    /\ ck' = [step |-> "logging", id |-> first, state |-> alloc.sb]
    /\ UNCHANGED <<alloc, disk, log, durable, untouched, heap, tables, op, tx, first, queue, intent,
                   drain, phase, lost>>

LogCheckpoint ==
    /\ ck.step = "logging"
    /\ log' = log \o CheckpointRecs(IF ck.id = 0 THEN SystemId ELSE ck.id, alloc, disk,
                                    IF budget.stale THEN ck.state ELSE alloc.sb, first)
    /\ ck' = [ck EXCEPT !.step = "flushing"]
    /\ UNCHANGED <<budget, alloc, disk, durable, untouched, heap, tables, op, tx, first, queue, intent,
                   drain, phase, lost>>

FlushCheckpoint ==
    /\ ck.step = "flushing"
    /\ durable' = Len(log)
    /\ ck' = NoCheckpoint
    /\ UNCHANGED <<budget, alloc, disk, log, untouched, heap, tables, op, tx, first, queue, intent,
                   drain, phase, lost>>

\* What is in memory is gone, and the transactions with it.
Stopped ==
    /\ phase' = "closed"
    /\ op' = NoOp
    /\ tx' = [t \in Txn |-> IF t \in Running THEN [NoTxn EXCEPT !.status = "done"] ELSE tx[t]]
    /\ first' = 0
    /\ queue' = {}
    /\ drain' = Idle
    /\ ck' = NoCheckpoint

\* The freelist pages that a flush in progress may have written in part
InFlight ==
    IF drain.step = "reclaim" THEN Written(Reclaimed)
    ELSE IF alloc.dirty /\ Running # {} THEN Written(alloc)
    ELSE <<>>

\* The log keeps what was synced and any part of the rest.
Crash ==
    /\ phase \in {"up", "opening"}
    /\ Spend("crash")
    /\ \E end \in durable .. Len(log) : log' = SubSeq(log, 1, end)
    /\ \E S \in SUBSET DOMAIN InFlight : disk' = Restrict(InFlight, S) @@ disk
    /\ Stopped
    /\ UNCHANGED <<alloc, durable, untouched, heap, tables, intent, lost>>

\* Fault: the checkpoint of the close finds the freelist unwritten.
CloseUnflushed ==
    /\ phase = "up"
    /\ Running = {}
    /\ drain.step = "idle"
    /\ ck.step = "idle"
    /\ Spend("close")
    /\ log' = IF untouched THEN log
              ELSE log \o CheckpointRecs(SystemId, alloc, disk, alloc.sb, 0)
    /\ durable' = Len(log')
    /\ Stopped
    /\ UNCHANGED <<alloc, disk, untouched, heap, tables, intent, lost>>

\* Engine.Close: Alloc.Flush and a checkpoint; the server has drained.
Close ==
    /\ phase = "up"
    /\ Running = {}
    /\ drain.step = "idle"
    /\ ck.step = "idle"
    /\ Spend("close")
    /\ LET a == Flushed(alloc)
           d == FlushTo(disk, alloc)
       IN  /\ disk' = d
           /\ log' = IF untouched THEN log
                     ELSE log \o CheckpointRecs(SystemId, a, d, a.sb, 0)
    /\ durable' = Len(log')
    /\ Stopped
    /\ UNCHANGED <<alloc, untouched, heap, tables, intent, lost>>

\* The pages somebody answers for
Linked == heap \cup tables \cup UNION {tx[t].made : t \in Txn}
              \cup (IF op.kind = "split" THEN {op.page} ELSE {})
Given == Linked \cup queue \cup (IF drain.step = "reclaim" THEN drain.ids ELSE {})
Accounted == Given \cup intent \cup Range(alloc.free) \cup Range(alloc.meta)

\* storage.OpenWith, allocator.Open and executor.OpenWith up to the reclaim of
\* what replayReclaimIntent finds pending
Open ==
    /\ phase = "closed"
    /\ LET r == Redo(log, disk)
           a == Loaded(r.state, r.disk)
           pending == intent \ Range(a.free)
           accepted == /\ Valid(r.state, r.disk)
                       /\ intent \cap (r.heap \cup r.tables) = {}
                       /\ \A p \in pending : CanFree(a, p)
       IN  /\ disk' = r.disk
           /\ IF accepted
              THEN /\ alloc' = a
                   /\ heap' = r.heap
                   /\ tables' = r.tables
                   /\ drain' = IF intent = {} THEN Idle
                               ELSE [step |-> IF pending = {} THEN "clear" ELSE "reclaim",
                                     ids |-> pending]
                   /\ phase' = IF intent = {} THEN "up" ELSE "opening"
                   /\ lost' = (1 .. a.next - 1) \ UNION {r.heap, r.tables, intent, Range(a.free),
                                                          Range(a.meta)}
              ELSE /\ phase' = "refused"
                   /\ UNCHANGED <<alloc, heap, tables, drain, lost>>
    /\ durable' = Len(log)
    /\ untouched' = TRUE
    /\ UNCHANGED <<budget, log, op, tx, first, queue, intent, ck>>

Next ==
    \/ \E t \in Txn : \/ Begin(t) \/ EnterSplit(t) \/ CreateTable(t) \/ Prepare(t) \/ CommitTxn(t)
                      \/ RollbackTxn(t)
    \/ \E t \in Txn, p \in heap : EnterMerge(t, p)
    \/ \E t \in Txn, p \in tables : DropTable(t, p)
    \/ NewPageFails \/ LeaveOp
    \/ BeginDrain \/ ReclaimPages \/ ClearIntent
    \/ BeginCheckpoint \/ LogCheckpoint \/ FlushCheckpoint
    \/ Crash \/ Close \/ Open

Spec == Init /\ [][Next]_vars

-----------------------------------------------------------------------------
(* Properties *)

Serving == phase \in {"up", "opening"}

\* A page has one owner: a page that is linked into a tree, taken by a running
\* operation or waiting to be reclaimed is not on the freelist, not a freelist
\* page, below the high-water mark and not linked twice, and no page is on the
\* freelist twice.  This is what Alloc relies on when it hands out a page, in
\* the process that freed it and after any number of crashes and restarts.
PageOwnedOnce ==
    Serving =>
        /\ Cardinality(Range(alloc.free)) = Len(alloc.free)
        /\ Range(alloc.free) \cap Range(alloc.meta) = {}
        /\ Given \cap (Range(alloc.free) \cup Range(alloc.meta)) = {}
        /\ \A p \in Given \cup Range(alloc.free) \cup Range(alloc.meta) : p < alloc.next
        /\ Linked \cap queue = {}
        /\ heap \cap tables = {}
        /\ \A t, u \in Txn : /\ tx[t].made \cap (heap \cup tables) = {}
                             /\ t # u => tx[t].made \cap tx[u].made = {}
                             /\ op.kind = "split" => op.page \notin tx[t].made \cup heap \cup tables

\* The database opens again: what redo leaves of the allocator state, of the
\* freelist pages and of the reclaim intent passes the checks of reloadLocked
\* and replayReclaimIntent, whenever the process stopped.
OpensAgain == phase # "refused"

\* A running database loses no page: below the high-water mark every page is
\* linked, free, a freelist page, on its way to the freelist, or was already
\* without an owner when the database was opened.  Rollback, a failed split and
\* the reclaim after DROP give their pages back.
NothingLost == Serving => 1 .. alloc.next - 1 \subseteq Accounted \cup lost
=============================================================================
