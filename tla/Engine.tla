------------------------------- MODULE Engine -------------------------------
(***************************************************************************)
(* The storage engine between transactions and the disk                    *)
(* (internal/storage/engine.go), with the parts of the buffer pool         *)
(* (internal/storage/buffer/pool.go), of recovery                          *)
(* (internal/recovery/recover.go) and of the undo log                      *)
(* (internal/undo/log.go, apply.go) it works with: page writes, splits,    *)
(* the steps of a commit and of a rollback, fuzzy checkpoints, page        *)
(* flushes, crashes, redo and undo.                                        *)
(*                                                                         *)
(* A tree has a root page, which routes each key to a leaf, and two        *)
(* leaves; a split moves the keys in Upper from the first leaf to the      *)
(* second.  A row version is its writer and its undo record; the number of *)
(* the undo record also stands for the value.  The log is a sequence, so   *)
(* that an LSN is an index.                                                *)
(*                                                                         *)
(* Not here: the replicated commit, page deltas, the allocator, tombstones *)
(* (module Mvcc), and a write to the log that fails.                       *)
(***************************************************************************)
EXTENDS Integers, Sequences, FiniteSets, FiniteSetsExt, SequencesExt

CONSTANTS
    Key,
    Upper,         \* the keys a split moves
    MaxTxn,        \* transaction ids are 1 .. MaxTxn
    Workloads      \* what happens in a behaviour; see Workload

VARIABLES
    budget,        \* what is left of the workload
    log,           \* wal.Log: the records appended
    durable,       \* Log.DurableLSN
    control,       \* the control file: RedoLSN and NextTxn
    undo,          \* undo.Log
    undoSynced,    \* the undo records that are on disk
    disk,          \* the data file
    up,            \* the process is running
    buf,           \* the frames of the buffer pool
    next,          \* the next transaction id
    opened,        \* Engine.openNextLSN
    tx,            \* Engine.writers and the Txn of each
    slot,          \* Engine.txn, 0 when nil
    status,        \* txn.Manager.status and active
    unstamped,     \* Engine.unstamped
    op,            \* the page-writing operation that holds pageMu
    ck,            \* the checkpoint in progress
    db             \* what was promised: the committed value of each key

vars == <<budget, log, durable, control, undo, undoSynced, disk, up, buf, next, opened, tx, slot,
          status, unstamped, op, ck, db>>

Txn == 1 .. MaxTxn
Root == "root"
Left == "left"
Right == "right"
Page == {Root, Left, Right}

\* The bounds of a behaviour, and the races it leaves out.
Workload ==
    [absent : SUBSET Key,        \* the keys without a row at the start
     begin : Nat,                \* user transactions
     write : Nat,                \* row writes
     split : Nat,
     checkpoint : Nat,
     crash : Nat,
     rollback : BOOLEAN,
     \* FlushAll may run inside a page-writing operation
     flushInWrite : BOOLEAN,
     \* a rollback and a checkpoint may overlap
     rollbackInCheckpoint : BOOLEAN]

ASSUME WorkloadsAssumption == Workloads \subseteq Workload
ASSUME UpperAssumption == Upper \subseteq Key

NoRow == [xmin |-> 0, undo |-> -1]
OldRow == [xmin |-> 0, undo |-> 0]
NoTxn == [st |-> "none", dirty |-> {}, first |-> 0, commit |-> 0, stamps |-> {}, undos |-> {}, left |-> {}]
NoOp == [txn |-> 0]
NoCheckpoint == [pc |-> "idle"]

\* Engine.writers
Writers == {t \in Txn : tx[t].st \in {"active", "imaged", "stamped", "durableWait", "undoing"}}

\* The pages of the data file, as the buffer pool reads them.
Frames(pages) ==
    [p \in Page |-> [rows |-> pages[p].rows, lsn |-> pages[p].lsn, holds |-> pages[p].holds, dirty |-> FALSE, rec |-> 0]]

-----------------------------------------------------------------------------
(* Reading                                                                 *)

Leaf(k) == buf[Root].rows[k]
Row(k) == buf[Leaf(k)].rows[k]

\* Manager.Status: an id the manager does not know is committed.
Committed(xid) == xid = 0 \/ status[xid] \in {"unknown", "committed"}

\* What a statement that starts now reads: visiblePayload with a new snapshot.
Visible(v) ==
    LET walk[u \in -1 .. Len(undo)] ==
            IF u < 1 THEN NoRow.undo
            ELSE LET old == undo[u].old
                 IN  IF Committed(old.xmin) THEN old.undo ELSE walk[old.undo]
    IN  IF Committed(v.xmin) THEN v.undo
        ELSE IF v.undo > Len(undo) THEN NoRow.undo ELSE walk[v.undo]

-----------------------------------------------------------------------------
(* Writing pages                                                           *)

Spend(what) == budget[what] > 0 /\ budget' = [budget EXCEPT ![what] = @ - 1]

Begin ==
    /\ up
    /\ next \in Txn
    /\ Spend("begin")
    /\ next' = next + 1
    /\ log' = Append(log, [type |-> "begin", txn |-> next])
    /\ tx' = [tx EXCEPT ![next] = [NoTxn EXCEPT !.st = "active", !.first = Len(log) + 1]]
    /\ status' = [status EXCEPT ![next] = "active"]
    /\ slot' = IF slot = 0 THEN next ELSE slot
    /\ UNCHANGED <<durable, control, undo, undoSynced, disk, up, buf, opened, unstamped, op, ck, db>>

\* lockWrite: a row lock is kept until its transaction is over.
MayWrite(t, k) == \A s \in Txn \ {t} : \A u \in tx[s].undos : undo[u].key # k

\* LogUndo: the record names the leaf the key is on now.  pos is the place in
\* the log that the write-ahead of undo refers to.
undoRecord(t, k) == [txn |-> t, page |-> Leaf(k), key |-> k, old |-> Row(k), pos |-> Len(log) + 1]

\* splitLeafAndInsert: the upper keys move to the new leaf.  The leaves are
\* built anew, without an LSN.
splitPages ==
    [p \in Page |->
        CASE p = Root -> [buf[p] EXCEPT !.rows = [k \in Key |-> IF k \in Upper THEN Right ELSE Left]]
          [] p = Left -> [buf[p] EXCEPT !.lsn = 0, !.rows = [k \in Key |-> IF k \in Upper THEN NoRow ELSE @[k]]]
          [] p = Right -> [buf[p] EXCEPT !.lsn = 0,
                                         !.rows = [k \in Key |-> IF k \in Upper THEN buf[Left].rows[k] ELSE NoRow]]]

\* Insert or update of k by t, up to the release of its page: undo is logged,
\* then the pages change.
Write(t, k, split) ==
    LET pages == IF split THEN splitPages ELSE buf
        home == pages[Root].rows[k]
    IN  /\ up
        /\ op = NoOp
        /\ tx[t].st = "active"
        /\ MayWrite(t, k)
        /\ split => \A j \in Key : Leaf(j) = Left
        /\ budget["write"] > 0
        /\ split => budget["split"] > 0
        /\ budget' = [budget EXCEPT !["write"] = @ - 1, !["split"] = IF split THEN @ - 1 ELSE @]
        /\ undo' = Append(undo, undoRecord(t, k))
        /\ buf' = [pages EXCEPT ![home].rows[k] = [xmin |-> t, undo |-> Len(undo) + 1]]
        /\ op' = [txn |-> t, pages |-> IF split THEN Page ELSE {home}, split |-> split, pc |-> "pinned",
                    stamps |-> {}]
        /\ tx' = [tx EXCEPT ![t].undos = @ \cup {Len(undo) + 1}]
        /\ UNCHANGED <<log, durable, control, undoSynced, disk, up, next, opened, slot, status, unstamped, ck, db>>

Image(t, p) == [type |-> "image", txn |-> t, page |-> p, rows |-> buf[p].rows]

\* The records of the images of pages, logged for t, in some order.
Images(t, pages) ==
    LET order == SetToSeq(pages)
    IN  [i \in DOMAIN order |-> Image(t, order[i])]

Stamps(recs, from) == {<<recs[i].page, from + i>> : i \in DOMAIN recs}

\* The page is released: OnDirty.  Without a split the operation ends there.
ReleasePages ==
    /\ op # NoOp
    /\ op.pc = "pinned"
    /\ tx' = [tx EXCEPT ![op.txn].dirty = @ \cup op.pages]
    /\ buf' = [p \in Page |-> IF p \in op.pages THEN [buf[p] EXCEPT !.dirty = TRUE] ELSE buf[p]]
    /\ op' = IF op.split THEN [op EXCEPT !.pc = "released"] ELSE NoOp
    /\ UNCHANGED <<budget, log, durable, control, undo, undoSynced, disk, up, next, opened, slot, status,
                   unstamped, ck, db>>

\* logStructure: the pages of the split are logged as a committed system
\* transaction.
logStructure ==
    LET recs == Images(next, op.pages)
    IN  /\ op # NoOp
        /\ op.pc = "released"
        /\ next \in Txn
        /\ next' = next + 1
        /\ log' = log \o <<[type |-> "begin", txn |-> next]>> \o recs \o <<[type |-> "commit", txn |-> next]>>
        /\ unstamped' = unstamped \cup {Len(log) + 2}
        /\ op' = [op EXCEPT !.pc = "logged", !.stamps = Stamps(recs, Len(log) + 1)]
        /\ UNCHANGED <<budget, durable, control, undo, undoSynced, disk, up, buf, opened, tx, slot, status, ck, db>>

\* StampLSN on every page of a batch.  Batches may be stamped in either order,
\* so that a page's LSN can go back; holds is the newest image it contains.
stampImages(stamps) ==
    [p \in Page |->
        LET lsns == {s[2] : s \in {x \in stamps : x[1] = p}}
        IN  IF lsns = {} THEN buf[p]
            ELSE [buf[p] EXCEPT !.lsn = Max(lsns), !.holds = Max(lsns \cup {@}),
                                !.rec = IF @ = 0 THEN Min(lsns) ELSE Min(lsns \cup {@})]]

FirstStamp(stamps) == Min({s[2] : s \in stamps})

LeaveOp ==
    /\ op # NoOp
    /\ op.pc = "logged"
    /\ buf' = stampImages(op.stamps)
    /\ unstamped' = unstamped \ {FirstStamp(op.stamps)}
    /\ op' = NoOp
    /\ UNCHANGED <<budget, log, durable, control, undo, undoSynced, disk, up, next, opened, tx, slot, status, ck, db>>

-----------------------------------------------------------------------------
(* Commit                                                                  *)

\* flushDirtyImages, up to the append: pageMu is held for reading.
flushDirtyImages(t) ==
    LET recs == Images(t, tx[t].dirty)
    IN  /\ up
        /\ op = NoOp
        /\ tx[t].st = "active"
        /\ tx[t].dirty # {}
        /\ log' = log \o recs
        /\ unstamped' = unstamped \cup {Len(log) + 1}
        /\ tx' = [tx EXCEPT ![t].st = "imaged", ![t].stamps = Stamps(recs, Len(log))]
        /\ UNCHANGED <<budget, durable, control, undo, undoSynced, disk, up, buf, next, opened, slot, status, op, ck, db>>

stampDirtyImages(t) ==
    /\ tx[t].st = "imaged"
    /\ buf' = stampImages(tx[t].stamps)
    /\ unstamped' = unstamped \ {FirstStamp(tx[t].stamps)}
    /\ tx' = [tx EXCEPT ![t].st = "stamped", ![t].stamps = {}]
    /\ UNCHANGED <<budget, log, durable, control, undo, undoSynced, disk, up, next, opened, slot, status, op, ck, db>>

\* The commit record is appended; a transaction without dirty pages logs
\* nothing else.
prepareDeferredCommit(t) ==
    /\ up
    /\ op.txn # t
    /\ tx[t].st = "stamped" \/ (tx[t].st = "active" /\ tx[t].dirty = {})
    /\ log' = Append(log, [type |-> "commit", txn |-> t])
    /\ tx' = [tx EXCEPT ![t].st = "durableWait", ![t].commit = Len(log) + 1]
    /\ UNCHANGED <<budget, durable, control, undo, undoSynced, disk, up, buf, next, opened, slot, status, unstamped, op, ck, db>>

\* Log.Flush, for a commit or a checkpoint: everything appended becomes
\* durable, the undo log before it (SetBeforeWrite).
Flush ==
    /\ durable < Len(log)
    /\ ck.pc = "install" \/ \E t \in Txn : tx[t].st = "durableWait" /\ tx[t].commit > durable
    /\ undoSynced' = Len(undo)
    /\ durable' = Len(log)
    /\ UNCHANGED <<budget, log, control, undo, disk, up, buf, next, opened, tx, slot, status, unstamped, op, ck, db>>

\* The values t has written, over those of f.
Overlay(f, t) ==
    [k \in Key |->
        LET mine == {u \in tx[t].undos : undo[u].key = k}
        IN  IF mine = {} THEN f[k] ELSE Max(mine)]

slotWithout(t) == IF slot = t THEN 0 ELSE slot

completeCommit(t) ==
    /\ tx[t].st = "durableWait"
    /\ tx[t].commit <= durable
    /\ tx' = [tx EXCEPT ![t] = NoTxn]
    /\ slot' = slotWithout(t)
    /\ status' = [status EXCEPT ![t] = "committed"]
    /\ db' = Overlay(db, t)
    /\ UNCHANGED <<budget, log, durable, control, undo, undoSynced, disk, up, buf, next, opened, unstamped, op, ck>>

-----------------------------------------------------------------------------
(* Rollback                                                                *)

RollingBack == {t \in Txn : tx[t].st \in {"undoing", "retired"}}

\* Undo.Chain: the records of a transaction id.  An id that a crash has freed
\* is used again and inherits the records of its first use.
Chain(t) == {u \in DOMAIN undo : undo[u].txn = t}

\* undoTxnLogical gives up when the chain is not what the transaction logged.
undoTargets(t) == IF Chain(t) = tx[t].undos THEN Chain(t) ELSE {}

RollbackTxn(t) ==
    /\ up
    /\ budget["rollback"]
    /\ budget["rollbackInCheckpoint"] \/ ck = NoCheckpoint
    /\ tx[t].st = "active"
    /\ op.txn # t
    /\ tx' = [tx EXCEPT ![t].st = "undoing", ![t].left = undoTargets(t)]
    /\ slot' = slotWithout(t)
    /\ UNCHANGED <<budget, log, durable, control, undo, undoSynced, disk, up, buf, next, opened, status, unstamped, op, ck, db>>

\* One ApplyUndo: by key, under pageMu.
ApplyUndo(t) ==
    LET u == Max(tx[t].left)
        p == Leaf(undo[u].key)
    IN  /\ tx[t].st = "undoing"
        /\ tx[t].left # {}
        /\ op = NoOp
        /\ buf' = [buf EXCEPT ![p].rows[undo[u].key] = undo[u].old, ![p].dirty = TRUE]
        /\ tx' = [tx EXCEPT ![t].left = @ \ {u}, ![t].dirty = @ \cup {p}]
        /\ UNCHANGED <<budget, log, durable, control, undo, undoSynced, disk, up, next, opened, slot, status, unstamped, op, ck, db>>

retireRolledBack(t) ==
    /\ tx[t].st = "undoing"
    /\ tx[t].left = {}
    /\ tx' = [tx EXCEPT ![t] = [@ EXCEPT !.st = "retired", !.dirty = {}]]
    /\ UNCHANGED <<budget, log, durable, control, undo, undoSynced, disk, up, buf, next, opened, slot, status, unstamped, op, ck, db>>

appendAbort(t) ==
    /\ tx[t].st = "retired"
    /\ log' = Append(log, [type |-> "abort", txn |-> t])
    /\ tx' = [tx EXCEPT ![t] = NoTxn]
    /\ status' = [status EXCEPT ![t] = "aborted"]
    /\ UNCHANGED <<budget, durable, control, undo, undoSynced, disk, up, buf, next, opened, slot, unstamped, op, ck, db>>

-----------------------------------------------------------------------------
(* Page flushes and checkpoints                                            *)

\* Fault: a page is flushed while a transaction that wrote to it is open.
AllowFlushSteal(p) == buf[p].lsn # 0 /\ buf[p].lsn <= durable

AllowFlush(p) ==
    /\ buf[p].lsn # 0
    /\ \A t \in Writers : p \notin tx[t].dirty
    /\ buf[p].lsn <= durable

Written(p) == [rows |-> buf[p].rows, lsn |-> buf[p].lsn, holds |-> buf[p].holds]
Clean(p) == [buf[p] EXCEPT !.dirty = FALSE, !.rec = 0]

\* An unpinned frame is written and evicted; the next pin reads it again.
evict(p) ==
    /\ up
    /\ buf[p].dirty
    /\ op # NoOp => p \notin op.pages
    /\ AllowFlush(p)
    /\ disk' = [disk EXCEPT ![p] = Written(p)]
    /\ buf' = [buf EXCEPT ![p] = Clean(p)]
    /\ UNCHANGED <<budget, log, durable, control, undo, undoSynced, up, next, opened, tx, slot, status, unstamped, op, ck, db>>

CheckpointStart ==
    /\ up
    /\ ck = NoCheckpoint
    /\ budget["rollbackInCheckpoint"] \/ RollingBack = {}
    /\ Spend("checkpoint")
    /\ ck' = [pc |-> "flush", redo |-> Len(log) + 1, txn |-> 0, lsn |-> 0]
    /\ UNCHANGED <<log, durable, control, undo, undoSynced, disk, up, buf, next, opened, tx, slot, status, unstamped, op, db>>

\* FlushAll does not look at pins.
FlushAll ==
    LET written == {p \in Page : buf[p].dirty /\ AllowFlush(p)}
    IN  /\ ck.pc = "flush"
        /\ budget["flushInWrite"] \/ op = NoOp
        /\ disk' = [p \in Page |-> IF p \in written THEN Written(p) ELSE disk[p]]
        /\ buf' = [p \in Page |-> IF p \in written THEN Clean(p) ELSE buf[p]]
        /\ ck' = [ck EXCEPT !.pc = "sample"]
        /\ UNCHANGED <<budget, log, durable, control, undo, undoSynced, up, next, opened, tx, slot, status, unstamped, op, db>>

\* The Begin records of the running transactions.
activeFirst == {tx[t].first : t \in Writers}

\* Fault: the checkpoint takes the flush to have written every page.
noRecLSN == {}

\* The oldest change of each frame that is not in the data file.
recLSN == {buf[p].rec : p \in Page} \ {0}

\* The oldest batch not yet stamped, the oldest Begin of a writer, and the
\* transaction in whose name the checkpoint is logged.
CheckpointSample ==
    /\ ck.pc = "sample"
    /\ ck' = [ck EXCEPT !.pc = "bound", !.txn = slot,
                        !.redo = Min({@} \cup unstamped \cup activeFirst)]
    /\ UNCHANGED <<budget, log, durable, control, undo, undoSynced, disk, up, buf, next, opened, tx, slot, status, unstamped, op, db>>

\* MinRecLSN; then the checkpoint record, unless nothing was ever logged.
CheckpointRecord ==
    LET own == ck.txn = 0
        id == IF own THEN next ELSE ck.txn
        begin == IF own THEN <<[type |-> "begin", txn |-> id]>> ELSE <<>>
    IN  /\ ck.pc = "bound"
        /\ IF own /\ Len(log) + 1 = opened
           THEN ck' = NoCheckpoint /\ UNCHANGED <<log, next>>
           ELSE /\ own => next \in Txn
                /\ next' = IF own THEN next + 1 ELSE next
                /\ log' = log \o begin \o <<[type |-> "checkpoint", txn |-> id]>>
                /\ ck' = [ck EXCEPT !.pc = "commit", !.txn = id, !.redo = Min({@} \cup recLSN)]
        /\ UNCHANGED <<budget, durable, control, undo, undoSynced, disk, up, buf, opened, tx, slot, status, unstamped, op, db>>

\* A commit record for the checkpoint's transaction, if ActiveTxn finds none.
CheckpointCommit ==
    /\ ck.pc = "commit"
    /\ log' = IF slot = 0 THEN Append(log, [type |-> "commit", txn |-> ck.txn]) ELSE log
    /\ ck' = [ck EXCEPT !.pc = "install", !.lsn = Len(log')]
    /\ UNCHANGED <<budget, durable, control, undo, undoSynced, disk, up, buf, next, opened, tx, slot, status, unstamped, op, db>>

\* After the flush the boundary goes to the control file.
InstallCheckpoint ==
    /\ ck.pc = "install"
    /\ ck.lsn <= durable
    /\ control' = [redo |-> ck.redo, next |-> next]
    /\ ck' = NoCheckpoint
    /\ UNCHANGED <<budget, log, durable, undo, undoSynced, disk, up, buf, next, opened, tx, slot, status, unstamped, op, db>>

-----------------------------------------------------------------------------
(* Crash and recovery                                                      *)

\* After the last crash nothing new is started.
SpendCrash ==
    /\ budget["crash"] > 0
    /\ budget' = [budget EXCEPT !["crash"] = @ - 1,
                                !["begin"] = IF budget["crash"] = 1 THEN 0 ELSE @,
                                !["checkpoint"] = IF budget["crash"] = 1 THEN 0 ELSE @]

\* The log keeps at least what is durable, and the undo log at least what it
\* has synced: that includes the undo of every record the log keeps.  A commit
\* whose record survives has happened, acknowledged or not.
Crash ==
    /\ up
    /\ SpendCrash
    /\ \E n \in durable .. Len(log) : \E m \in undoSynced .. Len(undo) :
        LET survived == {t \in Txn : tx[t].st = "durableWait" /\ tx[t].commit <= n}
            last(k) == {u \in DOMAIN undo : undo[u].key = k /\ \E t \in survived : u \in tx[t].undos}
        IN  /\ \A u \in DOMAIN undo : undo[u].pos <= n => u <= m
            /\ log' = SubSeq(log, 1, n)
            /\ durable' = n
            /\ undo' = SubSeq(undo, 1, m)
            /\ undoSynced' = m
            /\ db' = [k \in Key |-> IF last(k) = {} THEN db[k] ELSE Max(last(k))]
    /\ up' = FALSE
    /\ buf' = Frames(disk)
    /\ tx' = [t \in Txn |-> NoTxn]
    /\ slot' = 0
    /\ status' = [t \in Txn |-> "unknown"]
    /\ unstamped' = {}
    /\ op' = NoOp
    /\ ck' = NoCheckpoint
    /\ UNCHANGED <<control, disk, next, opened>>

Scanned == control.redo .. Len(log)
Logged(type) == {log[i].txn : i \in {j \in Scanned : log[j].type = type}}

\* RedoUntil: the last image of a committed transaction, if it is newer than
\* the page; the records up to LSN to have been replayed.
redo(p, to) ==
    LET newer == {i \in Scanned : /\ i <= to
                                  /\ log[i].type = "image"
                                  /\ log[i].page = p
                                  /\ log[i].txn \in Logged("commit")
                                  /\ i > disk[p].lsn}
    IN  IF newer = {} THEN disk[p] ELSE [rows |-> log[Max(newer)].rows, lsn |-> Max(newer), holds |-> Max(newer)]

RedoUntil(to) == [p \in Page |-> redo(p, to)]

\* Fault: an aborted transaction is taken to have left nothing behind.
OpenOnly == Logged("begin") \ (Logged("commit") \cup Logged("abort"))

\* NotCommittedUntil: open and aborted transactions alike.
NotCommitted == (Logged("begin") \cup Logged("abort")) \ Logged("commit")

\* applyOne: a row still carrying the transaction gets the old version back,
\* if it is on the page the record names.
applyOne(pages, u) ==
    LET rec == undo[u]
    IN  IF pages[rec.page].rows[rec.key].xmin = rec.txn
        THEN [pages EXCEPT ![rec.page].rows[rec.key] = rec.old]
        ELSE pages

\* The orders in which Apply may go through the undo records: transaction by
\* transaction, in the order of a Go map, each one newest first.
Newer(u, v) == u > v
Orders ==
    {FlattenSeq([i \in DOMAIN ts |-> SetToSortSeq(Chain(ts[i]), Newer)]) :
        ts \in SetToSeqs({t \in NotCommitted : Chain(t) # {}})}

\* A crash in the middle of recovery: the log has been replayed up to some
\* record, and some pages were not written; or some of the undo was applied.
RecoveryCrash ==
    /\ ~up
    /\ SpendCrash
    /\ \/ \E to \in Scanned, lost \in SUBSET Page :
            disk' = [p \in Page |-> IF p \in lost THEN disk[p] ELSE redo(p, to)]
       \/ \E order \in Orders : \E n \in DOMAIN order :
            disk' = FoldLeft(applyOne, RedoUntil(Len(log)), SubSeq(order, 1, n))
    /\ buf' = Frames(disk')
    /\ UNCHANGED <<log, durable, control, undo, undoSynced, up, next, opened, tx, slot, status, unstamped, op, ck, db>>

\* open: redo, undo, and what the transaction manager learns.
Recover ==
    /\ ~up
    /\ \E order \in Orders : disk' = FoldLeft(applyOne, RedoUntil(Len(log)), order)
    /\ buf' = Frames(disk')
    /\ up' = TRUE
    /\ opened' = Len(log) + 1
    /\ next' = Max({control.next} \cup {log[i].txn + 1 : i \in Scanned})
    /\ status' = [t \in Txn |-> IF t \in NotCommitted THEN "aborted" ELSE "unknown"]
    /\ UNCHANGED <<budget, log, durable, control, undo, undoSynced, tx, slot, unstamped, op, ck, db>>

-----------------------------------------------------------------------------
Init ==
    /\ budget \in Workloads
    /\ log = <<[type |-> "checkpoint", txn |-> 0]>>
    /\ durable = 1
    /\ control = [redo |-> 1, next |-> 1]
    /\ undo = <<>>
    /\ undoSynced = 0
    /\ disk = [p \in Page |->
            [rows |-> [k \in Key |-> CASE p = Root -> Left
                                       [] p = Left /\ k \notin budget["absent"] -> OldRow
                                       [] OTHER -> NoRow],
             lsn |-> 1, holds |-> 1]]
    /\ up = TRUE
    /\ buf = Frames(disk)
    /\ next = 1
    /\ opened = 2
    /\ tx = [t \in Txn |-> NoTxn]
    /\ slot = 0
    /\ status = [t \in Txn |-> "unknown"]
    /\ unstamped = {}
    /\ op = NoOp
    /\ ck = NoCheckpoint
    /\ db = [k \in Key |-> disk[Left].rows[k].undo]

\* Nothing is left to do.
Finished ==
    /\ up
    /\ Writers = {}
    /\ ck = NoCheckpoint
    /\ UNCHANGED vars

TxnStep(t) ==
    \/ \E k \in Key, split \in BOOLEAN : Write(t, k, split)
    \/ flushDirtyImages(t)
    \/ stampDirtyImages(t)
    \/ prepareDeferredCommit(t)
    \/ completeCommit(t)
    \/ RollbackTxn(t)
    \/ ApplyUndo(t)
    \/ retireRolledBack(t)
    \/ appendAbort(t)

Checkpoint ==
    \/ CheckpointStart
    \/ FlushAll
    \/ CheckpointSample
    \/ CheckpointRecord
    \/ CheckpointCommit
    \/ InstallCheckpoint

Next ==
    \/ Begin
    \/ \E t \in Txn : TxnStep(t)
    \/ ReleasePages
    \/ logStructure
    \/ LeaveOp
    \/ Flush
    \/ \E p \in Page : evict(p)
    \/ Checkpoint
    \/ Crash
    \/ RecoveryCrash
    \/ Recover
    \/ Finished

Spec == Init /\ [][Next]_vars

-----------------------------------------------------------------------------
(* Properties                                                              *)

\* The variables have their types.
TypeOK ==
    /\ durable \in 1 .. Len(log)
    /\ undoSynced \in 0 .. Len(undo)
    /\ control.redo \in 1 .. Len(log) + 1
    /\ next \in 1 .. MaxTxn + 1
    /\ slot \in Writers \cup {0}
    /\ \A p \in Page : buf[p].lsn \in 0 .. Len(log) /\ disk[p].lsn \in 0 .. durable
    /\ \A k \in Key : Leaf(k) \in {Left, Right}
    /\ unstamped \subseteq 1 .. Len(log)

\* Whatever crashed and wherever, a statement that starts in a running engine
\* reads the committed database: every acknowledged commit (and every one whose
\* record survived the crash) and nothing else.
CommittedState == up => \A k \in Key : Visible(Row(k)) = db[k]

DurablyCommitted(t) == t = 0 \/ \E i \in 1 .. durable : log[i].type = "commit" /\ log[i].txn = t

\* No uncommitted change reaches the data file that a crash at this moment
\* could not take back: the undo record of the version is on disk, and the
\* scan from the control file's redo boundary meets the Begin or the Abort of
\* its transaction (AllowFlush, SetBeforeWrite and the activeFirst bound of
\* Checkpoint).
UndoCovers ==
    \A p \in {Left, Right}, k \in Key :
        LET v == disk[p].rows[k]
        IN  DurablyCommitted(v.xmin) \/
            /\ v.undo <= undoSynced
            /\ \E i \in control.redo .. durable : log[i].type \in {"begin", "abort"} /\ log[i].txn = v.xmin

\* No committed page image that the data file is missing lies before the redo
\* boundary, however the checkpoint that set it was interleaved with commits,
\* splits and flushes (start, unstamped and MinRecLSN in Checkpoint).
RedoCovers ==
    \A i \in 1 .. durable :
        (log[i].type = "image" /\ DurablyCommitted(log[i].txn) /\ i > disk[log[i].page].holds) => i >= control.redo

=============================================================================
