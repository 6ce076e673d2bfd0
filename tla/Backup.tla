------------------------------- MODULE Backup -------------------------------
(***************************************************************************)
(* Live backups and point-in-time restore (internal/backup: backup.go,     *)
(* seal.go, verify.go, restore.go, archive.go) against the engine they     *)
(* copy: transactions, page flushes, two threads that checkpoint (the      *)
(* controller of nextsqld and the backup itself), segments that are        *)
(* rotated, archived, trimmed and pruned, and the vacuum of the undo log.  *)
(*                                                                         *)
(* The log is a sequence, so that an LSN is an index; segs holds the first *)
(* LSN of each segment.  A row version is its writer and its undo record,  *)
(* and the number of the undo record also stands for the value.            *)
(*                                                                         *)
(* The steps inside a commit, a rollback or the samples of a checkpoint    *)
(* are those of module Engine and one step here.  Not here: crashes of the *)
(* engine that is copied, splits, page deltas, keys, users and the         *)
(* reclaim intent, and the sealing of the members.                         *)
(***************************************************************************)
EXTENDS Integers, Sequences, FiniteSets, FiniteSetsExt, SequencesExt

CONSTANTS
    Key,
    LastPage,      \* the pages of the data file are 1 .. LastPage, in file order
    Home,          \* the page of each key
    MaxTxn,        \* transaction ids are 1 .. MaxTxn
    MaxSeg,        \* segment ids are 1 .. MaxSeg
    Workloads      \* what happens in a behaviour; see Workload

VARIABLES
    budget,        \* what is left of the workload
    log,           \* wal.Log: the records appended
    durable,       \* Log.DurableLSN, which is also the end of the segment files
    segs,          \* the first LSN of each segment
    oldest,        \* the first segment still in the directory
    redo,          \* Log.redoLSN and the control file
    undo,          \* the undo records ever appended
    undoFile,      \* those in undo.log
    forgotten,     \* those no longer in memory
    disk,          \* the data file
    buf,           \* the frames of the buffer pool
    tx,            \* Engine.writers and the Txn of each
    acked,         \* the newest commit that was acknowledged
    ck,            \* the checkpoint of each thread
    archive,       \* DirArchiver: the end of the archived copy of each segment
    bk,            \* the backup
    rs             \* the restored database

engine == <<log, durable, segs, oldest, redo, undo, undoFile, forgotten, disk, buf, tx, acked, archive>>
vars == <<budget, engine, ck, bk, rs>>

Txn == 1 .. MaxTxn
Page == 1 .. LastPage
Seg == 1 .. MaxSeg
Thread == {"controller", "backup"}

\* The bounds of a behaviour, and the races it leaves out.
Workload ==
    [begin : Nat, write : Nat, rollback : Nat, rotate : Nat, checkpoint : Nat, remove : Nat,
     vacuum : Nat, torn : Nat,
     archiver : BOOLEAN,       \* a WAL archive is configured
     pitr : BOOLEAN,           \* the restore may name an LSN and use the archive
     overlap : BOOLEAN,        \* the controller may flush pages while they are copied
     vacuumInCopy : BOOLEAN,   \* undo.log may be rewritten between the copy of the log and its own
     early : BOOLEAN,          \* the restore may name an LSN before the end of the copy of the pages
     stale : BOOLEAN,          \* the archive may be older than the backup
     open : BOOLEAN]           \* a transaction may be open at the end of the restored log
                               \* whose undo was logged after the backup

ASSUME WorkloadsAssumption == Workloads \subseteq Workload
ASSUME HomeAssumption == Home \in [Key -> Page]

KeysOf(p) == {k \in Key : Home[k] = p}
Absent == -1
NoTxn == [st |-> "none", first |-> 0, dirty |-> {}, undos |-> {}, commit |-> 0]
Idle == [pc |-> "idle", redo |-> 0]
NoFiles == [pages |-> [p \in Page |-> [rows |-> <<>>, lsn |-> 0]], redo |-> 0, wal |-> [s \in Seg |-> Absent], undo |-> {}]
NoBackup == [pc |-> "none", page |-> 1, list |-> <<>>, promised |-> 0, pagesEnd |-> 0, files |-> NoFiles]
NoRestore == [st |-> "none"]

Spend(what) == budget[what] > 0 /\ budget' = [budget EXCEPT ![what] = @ - 1]

-----------------------------------------------------------------------------
(* The engine                                                              *)

Writers == {t \in Txn : tx[t].st # "none"}

Begin(t) ==
    /\ tx[t] = NoTxn
    /\ \A i \in DOMAIN log : log[i].txn # t
    /\ \A s \in Txn : s < t => \E i \in DOMAIN log : log[i].txn = s
    /\ Spend("begin")
    /\ log' = Append(log, [type |-> "begin", txn |-> t])
    /\ tx' = [tx EXCEPT ![t] = [NoTxn EXCEPT !.st = "active", !.first = Len(log) + 1]]
    /\ UNCHANGED <<durable, segs, oldest, redo, undo, undoFile, forgotten, disk, buf, acked, archive, ck, bk, rs>>

\* Undo is logged under the row lock, then the page changes.
Write(t, k) ==
    /\ tx[t].st = "active"
    /\ \A s \in Writers \ {t} : \A u \in tx[s].undos : undo[u].key # k
    /\ Spend("write")
    /\ undo' = Append(undo, [txn |-> t, key |-> k, old |-> buf[Home[k]].rows[k]])
    /\ buf' = [buf EXCEPT ![Home[k]].rows[k] = [xmin |-> t, undo |-> Len(undo) + 1], ![Home[k]].dirty = TRUE]
    /\ tx' = [tx EXCEPT ![t].undos = @ \cup {Len(undo) + 1}, ![t].dirty = @ \cup {Home[k]}]
    /\ UNCHANGED <<log, durable, segs, oldest, redo, undoFile, forgotten, disk, acked, archive, ck, bk, rs>>

\* The images of the dirty pages, stamped, and the commit record.
Commit(t) ==
    LET pages == SetToSeq(tx[t].dirty)
        image(i) == [type |-> "image", txn |-> t, page |-> pages[i], rows |-> buf[pages[i]].rows]
        at(p) == Len(log) + CHOOSE i \in DOMAIN pages : pages[i] = p
    IN  /\ tx[t].st = "active"
        /\ tx[t].dirty # {}
        /\ log' = log \o [i \in DOMAIN pages |-> image(i)] \o <<[type |-> "commit", txn |-> t]>>
        /\ buf' = [p \in Page |->
                IF p \in tx[t].dirty THEN [buf[p] EXCEPT !.lsn = at(p), !.rec = IF @ = 0 THEN at(p) ELSE @] ELSE buf[p]]
        /\ tx' = [tx EXCEPT ![t].st = "wait", ![t].commit = Len(log')]
        /\ UNCHANGED <<budget, durable, segs, oldest, redo, undo, undoFile, forgotten, disk, acked, archive, ck, bk, rs>>

Waiting == {t \in Txn : tx[t].st = "wait"}

\* Log.Flush for the commits that wait, the undo log first (SetBeforeWrite);
\* then completeCommitLocked of each: ForgetTxn, unless a snapshot is live.
Flush ==
    /\ Waiting # {}
    /\ durable' = Len(log)
    /\ undoFile' = undoFile \cup (DOMAIN undo \ forgotten)
    /\ forgotten' = IF Writers = Waiting THEN forgotten \cup UNION {tx[t].undos : t \in Waiting} ELSE forgotten
    /\ acked' = Max({tx[t].commit : t \in Waiting})
    /\ tx' = [t \in Txn |-> IF t \in Waiting THEN NoTxn ELSE tx[t]]
    /\ UNCHANGED <<budget, log, segs, oldest, redo, undo, disk, buf, archive, ck, bk, rs>>

\* The version each key of t had before t.
Before(t, k) ==
    LET mine == {u \in tx[t].undos : undo[u].key = k}
    IN  IF mine = {} THEN buf[Home[k]].rows[k] ELSE undo[Min(mine)].old

RollbackTxn(t) ==
    /\ tx[t].st = "active"
    /\ Spend("rollback")
    /\ buf' = [p \in Page |-> [buf[p] EXCEPT !.rows = [k \in DOMAIN @ |-> Before(t, k)]]]
    /\ log' = Append(log, [type |-> "abort", txn |-> t])
    /\ tx' = [tx EXCEPT ![t] = NoTxn]
    /\ UNCHANGED <<durable, segs, oldest, redo, undo, undoFile, forgotten, disk, acked, archive, ck, bk, rs>>

AllowFlush(p) ==
    /\ buf[p].dirty
    /\ buf[p].lsn \in 1 .. durable
    /\ \A t \in Writers : p \notin tx[t].dirty

Written(p) == [rows |-> buf[p].rows, lsn |-> buf[p].lsn]
Clean(p) == [buf[p] EXCEPT !.dirty = FALSE, !.rec = 0]

evict(p) ==
    /\ AllowFlush(p)
    /\ disk' = [disk EXCEPT ![p] = Written(p)]
    /\ buf' = [buf EXCEPT ![p] = Clean(p)]
    /\ UNCHANGED <<budget, log, durable, segs, oldest, redo, undo, undoFile, forgotten, tx, acked, archive, ck, bk, rs>>

\* The active segment is full; the records that follow go to the next one.
Rotate ==
    /\ Len(segs) < MaxSeg
    /\ Len(log) >= Last(segs)
    /\ durable = Len(log)
    /\ Spend("rotate")
    /\ segs' = Append(segs, Len(log) + 1)
    /\ UNCHANGED <<log, durable, oldest, redo, undo, undoFile, forgotten, disk, buf, tx, acked, archive, ck, bk, rs>>

\* VacuumBudgeted, by MAINTAIN DATABASE: refused while transactions are active.
Vacuum ==
    /\ Writers = {}
    /\ budget["vacuumInCopy"] \/ bk.pc \notin {"segments", "undo"}
    /\ Spend("vacuum")
    /\ undoFile' = DOMAIN undo \ forgotten
    /\ UNCHANGED <<log, durable, segs, oldest, redo, undo, forgotten, disk, buf, tx, acked, archive, ck, bk, rs>>

-----------------------------------------------------------------------------
(* Checkpoints and the segments they make obsolete                         *)

\* The controller and the copy of the pages, up to that of the control file.
MayCheckpoint(a) == a = "controller" => budget["overlap"] \/ bk.pc \notin {"pages", "control"}

\* The log's end is taken, then FlushAll.
CheckpointFlush(a) ==
    LET written == {p \in Page : AllowFlush(p)}
    IN  /\ ck[a] = Idle
        /\ IF a = "backup" THEN bk.pc = "checkpoint" /\ UNCHANGED budget
           ELSE Spend("checkpoint") /\ MayCheckpoint(a)
        /\ disk' = [p \in Page |-> IF p \in written THEN Written(p) ELSE disk[p]]
        /\ buf' = [p \in Page |-> IF p \in written THEN Clean(p) ELSE buf[p]]
        /\ ck' = [ck EXCEPT ![a] = [pc |-> "record", redo |-> Len(log) + 1]]
        /\ UNCHANGED <<log, durable, segs, oldest, redo, undo, undoFile, forgotten, tx, acked, archive, bk, rs>>

\* A checkpoint is over: a backup goes on to read the coordinates.
CheckpointDone(a) ==
    /\ ck' = [ck EXCEPT ![a] = Idle]
    /\ bk' = IF a = "backup" THEN [bk EXCEPT !.pc = "pages", !.promised = acked] ELSE bk

\* Nothing was logged since the database was opened: Checkpoint returns.
CheckpointSkip(a) ==
    /\ ck[a].pc = "record"
    /\ Len(log) = 1
    /\ CheckpointDone(a)
    /\ UNCHANGED <<budget, engine, rs>>

\* The redo floor, over the running transactions and the frames not written;
\* then the checkpoint record, flushed.
CheckpointRecord(a) ==
    LET floor == {ck[a].redo} \cup {tx[t].first : t \in Writers} \cup ({buf[p].rec : p \in Page} \ {0})
    IN  /\ ck[a].pc = "record"
        /\ MayCheckpoint(a)
        /\ Len(log) > 1
        /\ log' = Append(log, [type |-> "checkpoint", txn |-> 0])
        /\ durable' = Len(log')
        /\ undoFile' = undoFile \cup (DOMAIN undo \ forgotten)
        /\ ck' = [ck EXCEPT ![a] = [pc |-> "install", redo |-> Min(floor)]]
        /\ UNCHANGED <<budget, segs, oldest, redo, undo, forgotten, disk, buf, tx, acked, archive, bk, rs>>

\* Where the file of segment s ends.
SegEnd(s) == IF s < Len(segs) THEN segs[s + 1] - 1 ELSE durable

\* Recycle: every segment in the directory is archived again.
Recycle == [s \in Seg |-> IF budget["archiver"] /\ s \in oldest .. Len(segs) THEN SegEnd(s) ELSE archive[s]]

InstallCheckpoint(a) ==
    /\ ck[a].pc = "install"
    /\ redo' = ck[a].redo
    /\ archive' = Recycle
    /\ CheckpointDone(a)
    /\ UNCHANGED <<budget, log, durable, segs, oldest, undo, undoFile, forgotten, disk, buf, tx, acked, rs>>

\* TrimToCap without an archiver, PruneArchivedBefore with one: the oldest
\* segment goes if its successor starts at or before the redo boundary, into
\* the archive first if there is one.
RemoveSegment ==
    /\ oldest < Len(segs)
    /\ segs[oldest + 1] <= redo
    /\ Spend("remove")
    /\ archive' = IF budget["archiver"] THEN [archive EXCEPT ![oldest] = SegEnd(oldest)] ELSE archive
    /\ oldest' = oldest + 1
    /\ UNCHANGED <<log, durable, segs, redo, undo, undoFile, forgotten, disk, buf, tx, acked, ck, bk, rs>>

-----------------------------------------------------------------------------
(* BACKUP DATABASE                                                         *)

\* CreateFromEngine: a checkpoint of the live engine comes first.
CreateFromEngine ==
    /\ bk.pc = "none"
    /\ bk' = [bk EXCEPT !.pc = "checkpoint"]
    /\ UNCHANGED <<budget, engine, ck, rs>>

NextPage == [bk EXCEPT !.page = @ + 1, !.pc = IF bk.page = LastPage THEN "control" ELSE "pages",
                       !.pagesEnd = durable]

\* sealFile reads the data file from its start to its end.
CopyPage ==
    /\ bk.pc = "pages"
    /\ bk' = [NextPage EXCEPT !.files.pages[bk.page] = disk[bk.page]]
    /\ UNCHANGED <<budget, engine, ck, rs>>

Unreadable(p) == [rows |-> [k \in KeysOf(p) |-> [xmin |-> 0, undo |-> Absent]], lsn |-> Absent]

\* The page is read while it is written: the copy fails its checksum.
CopyTornPage ==
    /\ bk.pc = "pages"
    /\ Spend("torn")
    /\ AllowFlush(bk.page)
    /\ disk' = [disk EXCEPT ![bk.page] = Written(bk.page)]
    /\ buf' = [buf EXCEPT ![bk.page] = Clean(bk.page)]
    /\ bk' = [NextPage EXCEPT !.files.pages[bk.page] = Unreadable(bk.page)]
    /\ UNCHANGED <<log, durable, segs, oldest, redo, undo, undoFile, forgotten, tx, acked, archive, ck, rs>>

CopyControl ==
    /\ bk.pc = "control"
    /\ bk' = [bk EXCEPT !.pc = "list", !.files.redo = redo]
    /\ UNCHANGED <<budget, engine, ck, rs>>

ListSegments ==
    /\ bk.pc = "list"
    /\ bk' = [bk EXCEPT !.pc = "segments", !.list = [i \in 1 .. Len(segs) - oldest + 1 |-> oldest + i - 1]]
    /\ UNCHANGED <<budget, engine, ck, rs>>

NextSegment == [bk EXCEPT !.list = Tail(@), !.pc = IF Len(bk.list) = 1 THEN "undo" ELSE @]

CopySegment ==
    LET s == Head(bk.list)
    IN  /\ bk.pc = "segments"
        /\ s >= oldest
        /\ bk' = [NextSegment EXCEPT !.files.wal[s] = SegEnd(s)]
        /\ UNCHANGED <<budget, engine, ck, rs>>

\* The segment has gone since the directory was read.  The backup fails if its
\* LSN range can no longer be read, and goes on without it if it went after that.
SegmentGone ==
    /\ bk.pc = "segments"
    /\ Head(bk.list) < oldest
    /\ bk' \in {[NoBackup EXCEPT !.pc = "failed"], NextSegment}
    /\ UNCHANGED <<budget, engine, ck, rs>>

CopyUndo ==
    /\ bk.pc = "undo"
    /\ bk' = [bk EXCEPT !.pc = "verify", !.files.undo = undoFile]
    /\ UNCHANGED <<budget, engine, ck, rs>>

-----------------------------------------------------------------------------
(* Opening a set of files                                                  *)

Present(wal) == {s \in Seg : wal[s] # Absent}
Records(wal) == UNION {segs[s] .. wal[s] : s \in Present(wal)}

\* ScanFrom the redo boundary, clipped.
Scanned(f, until) == {i \in Records(f.wal) : i >= f.redo /\ (until = 0 \/ i <= until)}
Logged(recs, type) == {log[i].txn : i \in {j \in recs : log[j].type = type}}

\* wal.Open: the segments must cover the redo boundary.
Covered(f) == Present(f.wal) # {} /\ segs[Min(Present(f.wal))] <= f.redo

\* RedoUntil: the newest image of a committed transaction, if the page is older.
RedoUntil(f, until) ==
    LET recs == Scanned(f, until)
        newer(p) == {i \in recs : /\ log[i].type = "image"
                                  /\ log[i].page = p
                                  /\ log[i].txn \in Logged(recs, "commit")
                                  /\ i > f.pages[p].lsn}
    IN  [p \in Page |-> IF newer(p) = {} THEN f.pages[p] ELSE [rows |-> log[Max(newer(p))].rows, lsn |-> Max(newer(p))]]

\* Fault: an aborted transaction is taken to have left nothing behind.
UncommittedUntil(f, until) ==
    LET recs == Scanned(f, until)
    IN  Logged(recs, "begin") \ (Logged(recs, "commit") \cup Logged(recs, "abort"))

NotCommittedUntil(f, until) ==
    LET recs == Scanned(f, until)
    IN  (Logged(recs, "begin") \cup Logged(recs, "abort")) \ Logged(recs, "commit")

\* undo.Apply: a row that still carries the transaction gets the version from
\* before it, as far as the copied undo log goes.
Chain(f, t, k) == {u \in f.undo : undo[u].txn = t /\ undo[u].key = k}
Apply(f, dead, pages) ==
    LET back(k, v) ==
            IF v.xmin \in dead /\ Chain(f, v.xmin, k) # {} THEN undo[Min(Chain(f, v.xmin, k))].old ELSE v
    IN  [p \in Page |-> [pages[p] EXCEPT !.rows = [k \in DOMAIN @ |-> back(k, @[k])]]]

\* Opening fails where redo is not covered, or undo meets an unreadable page.
OpenFails(f, until) ==
    \/ ~Covered(f)
    \/ \E u \in f.undo : /\ undo[u].txn \in NotCommittedUntil(f, until)
                        /\ RedoUntil(f, until)[Home[undo[u].key]].lsn = Absent

\* Fault: the restored log keeps the records that were not replayed.
ClipNothing(f, until) == f

\* ClipTo: no record after until is left.
ClipTo(f, until) ==
    LET kept == [s \in Seg |-> IF f.wal[s] = Absent \/ segs[s] > until THEN Absent ELSE Min({f.wal[s], until})]
    IN  IF until = 0 THEN f ELSE [f EXCEPT !.wal = kept, !.redo = Min({@, until + 1})]

\* open: redo, the clip, undo; what a statement then reads.
Opened(f, until) ==
    LET dead == NotCommittedUntil(f, until)
        pages == Apply(f, dead, RedoUntil(f, until))
        shown(k) == LET v == pages[Home[k]].rows[k] IN IF v.xmin \in dead THEN Absent ELSE v.undo
    IN  [files |-> [ClipTo(f, until) EXCEPT !.pages = pages], shows |-> [k \in Key |-> shown(k)]]

-----------------------------------------------------------------------------
(* Verify and restore                                                      *)

\* Fault: a backup that was written is published.
PublishUntested ==
    /\ bk.pc = "verify"
    /\ bk' = [bk EXCEPT !.pc = "published"]
    /\ UNCHANGED <<budget, engine, ck, rs>>

\* verifyDir: the copy is restored and opened before it is published.
Verify ==
    /\ bk.pc = "verify"
    /\ bk' = IF OpenFails(bk.files, 0) THEN [NoBackup EXCEPT !.pc = "failed"] ELSE [bk EXCEPT !.pc = "published"]
    /\ UNCHANGED <<budget, engine, ck, rs>>

\* applyArchive: an archived segment replaces the one of the backup.
applyArchive(f, until) ==
    [f EXCEPT !.wal = [s \in Seg |-> IF archive[s] = Absent \/ (until # 0 /\ segs[s] > until) THEN @[s] ELSE archive[s]]]

LogEnd(f) == Max(Records(f.wal) \cup {0})

\* The transactions that have begun and not committed at LSN end.
OpenAt(end) ==
    {t \in Txn : /\ \E i \in 1 .. end : log[i] = [type |-> "begin", txn |-> t]
                 /\ ~\E i \in 1 .. end : log[i] = [type |-> "commit", txn |-> t]}

\* What the workload lets an operator ask for.
MayRestore(f, until, fromArchive, end) ==
    /\ budget["pitr"] \/ (until = 0 /\ ~fromArchive)
    /\ until # 0 => until \in (IF budget["early"] THEN 1 ELSE bk.pagesEnd) .. LogEnd(f)
    /\ fromArchive => /\ budget["archiver"]
                      /\ budget["stale"] \/ \A s \in Seg : archive[s] >= bk.files.wal[s]
                      /\ budget["open"] \/ \A u \in DOMAIN undo : undo[u].txn \in OpenAt(end) => u \in f.undo

Restore(until, fromArchive) ==
    LET f == IF fromArchive THEN applyArchive(bk.files, until) ELSE bk.files
        end == IF until = 0 THEN LogEnd(f) ELSE until
    IN  /\ bk.pc = "published"
        /\ rs = NoRestore
        /\ MayRestore(f, until, fromArchive, end)
        /\ rs' = IF OpenFails(f, until) THEN [st |-> "failed"]
                 ELSE [st |-> "open", until |-> until, end |-> end] @@ Opened(f, until)
        /\ UNCHANGED <<budget, engine, ck, bk>>

\* The restored database is opened again.
Reopen ==
    /\ rs.st = "open"
    /\ rs' = IF OpenFails(rs.files, 0) THEN [st |-> "failed"]
             ELSE Opened(rs.files, 0) @@ [rs EXCEPT !.st = "reopened"]
    /\ UNCHANGED <<budget, engine, ck, bk>>

-----------------------------------------------------------------------------
Init ==
    /\ budget \in Workloads
    /\ log = <<[type |-> "checkpoint", txn |-> 0]>>
    /\ durable = 1
    /\ segs = <<1>>
    /\ oldest = 1
    /\ redo = 1
    /\ undo = <<>>
    /\ undoFile = {}
    /\ forgotten = {}
    /\ disk = [p \in Page |-> [rows |-> [k \in KeysOf(p) |-> [xmin |-> 0, undo |-> 0]], lsn |-> 1]]
    /\ buf = [p \in Page |-> [rows |-> disk[p].rows, lsn |-> 1, dirty |-> FALSE, rec |-> 0]]
    /\ tx = [t \in Txn |-> NoTxn]
    /\ acked = 0
    /\ ck = [a \in Thread |-> Idle]
    /\ archive = [s \in Seg |-> Absent]
    /\ bk = NoBackup
    /\ rs = NoRestore

TxnStep(t) ==
    \/ Begin(t)
    \/ \E k \in Key : Write(t, k)
    \/ Commit(t)
    \/ RollbackTxn(t)

Checkpoint(a) ==
    \/ CheckpointFlush(a)
    \/ CheckpointSkip(a)
    \/ CheckpointRecord(a)
    \/ InstallCheckpoint(a)

writeBackup ==
    \/ CopyPage
    \/ CopyTornPage
    \/ CopyControl
    \/ ListSegments
    \/ CopySegment
    \/ SegmentGone
    \/ CopyUndo
    \/ Verify

Live ==
    \/ \E t \in Txn : TxnStep(t)
    \/ Flush
    \/ \E p \in Page : evict(p)
    \/ Rotate
    \/ Vacuum
    \/ \E a \in Thread : Checkpoint(a)
    \/ RemoveSegment

\* What the engine does can still matter to the backup or to a restore.
Observed ==
    /\ rs = NoRestore
    /\ bk.pc \notin {"verify", "failed"}
    /\ bk.pc = "published" => budget["pitr"]

Next ==
    \/ Observed /\ Live
    \/ CreateFromEngine
    \/ writeBackup
    \/ \E until \in 0 .. Len(log), fromArchive \in BOOLEAN : Restore(until, fromArchive)
    \/ Reopen

Spec == Init /\ [][Next]_vars

-----------------------------------------------------------------------------
(* Properties                                                              *)

\* The committed database at LSN n.
CommittedAt(n) ==
    [k \in Key |-> Max({0} \cup {u \in DOMAIN undo :
        undo[u].key = k /\ \E i \in 1 .. n : log[i] = [type |-> "commit", txn |-> undo[u].txn]})]

\* The variables have their types.
TypeOK ==
    /\ durable \in 1 .. Len(log)
    /\ oldest \in 1 .. Len(segs)
    /\ redo \in 1 .. durable
    /\ undoFile \cup forgotten \subseteq DOMAIN undo
    /\ \A p \in Page : disk[p].lsn \in 1 .. durable /\ buf[p].lsn \in 1 .. Len(log)

\* A restored database shows the committed database at one LSN, the one that
\* was asked for or the end of the restored log, however the copy of pages,
\* log and undo was interleaved with commits, rollbacks, flushes, rotations
\* and checkpoints (the order of the members in writeBackup; redo and undo at
\* the open).
RestoredExact == rs.st = "open" => rs.shows = CommittedAt(rs.end)

\* A published backup can be restored, and holds every commit acknowledged
\* before the copy began (the restore test of verifyDir; the segments copied
\* after the pages).
PublishedHolds ==
    /\ rs.st # "failed"
    /\ rs.st = "open" /\ rs.until = 0 => rs.end >= bk.promised

\* A database restored to a point in time does not move on: opening it again
\* shows the same rows (ClipTo).
ReopenSame == rs.st = "reopened" => rs.shows = CommittedAt(rs.end)

=============================================================================
