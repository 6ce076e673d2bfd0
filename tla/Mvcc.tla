-------------------------------- MODULE Mvcc --------------------------------
(***************************************************************************)
(* Transactions over the versioned rows of one tree: the transaction       *)
(* manager (internal/txn/manager.go, snapshot.go), the transactional row   *)
(* operations (internal/storage/btree/txn.go, mvcc.go) and the in-memory   *)
(* side of the undo log (internal/undo/log.go), with rollback, savepoints  *)
(* and the purge of committed tombstones.                                  *)
(*                                                                         *)
(* A row operation takes three steps, as in the code: the statement starts *)
(* (and refreshes the snapshot under READ COMMITTED), the key is locked or *)
(* the lock is skipped, and the row is changed under the tree mutex.  An   *)
(* undo chain is replayed one record at a time.                            *)
(*                                                                         *)
(* Every write logs one undo record, whose id stands for the value it      *)
(* writes.  Durability is the subject of another module: here a commit     *)
(* never fails.                                                            *)
(***************************************************************************)
EXTENDS Integers, Sequences, FiniteSets

CONSTANTS
    Key,
    Reader,        \* slots for read-only snapshots
    MaxTxn,        \* transaction ids are 1 .. MaxTxn
    MaxUndo,       \* bound: the undo records ever written
    Workloads      \* what the clients may do; see Workload

VARIABLES
    work,          \* the workload of this behaviour
    next,          \* Manager.next
    status,        \* Manager.status and Manager.active
    iso,           \* Handle.Iso
    snap,          \* Handle.Snap of writers
    reader,        \* Handle.Snap of registered readers
    row,           \* the versioned value in the leaf, per key
    undoLog,       \* undo.Log.recs: forgotten records are Gone
    lock,          \* lock modes per key: <<txn, mode>> pairs
    op,            \* the operation each transaction is in the middle of
    sp,            \* its savepoint: storage.Savepoint, and our log of writes
    deleted,       \* btree.Txn.deleted
    \* What the database promises, kept beside the code's state:
    db,            \* the committed value of each key
    base,          \* db as it was when the snapshot was taken
    mine,          \* the writes of each transaction, in order
    reads          \* what each SERIALIZABLE transaction has read

tmVars == <<work, next, status, iso, snap, reader>>
history == <<db, base, mine, reads>>
vars == <<work, next, status, iso, snap, reader, row, undoLog, lock, op, sp, deleted, db, base, mine, reads>>

Txn == 1 .. MaxTxn
RC == 1
SNAPSHOT == 2
SERIALIZABLE == 3

None == -1         \* no value: the key does not exist
Absent == [xmin |-> 0, xmax |-> 0, undo |-> 0, val |-> None]
Gone == [txn |-> 0, kind |-> "gone", key |-> None, old |-> Absent]
Idle == [kind |-> "idle"]
NoSnap == [tid |-> 0, xmax |-> 0, active |-> {}]
NoBase == [k \in Key |-> None]
NoSavepoint == [undo |-> None, mine |-> 0]

\* A workload bounds what happens in one behaviour.
Workload ==
    [key : SUBSET Key,                             \* the keys written and read
     reader : SUBSET Reader,                       \* the readers that may begin
     txns : 0 .. MaxTxn,                           \* the writers ever begun
     undo : 0 .. MaxUndo,                          \* the undo records ever written
     active : 0 .. MaxTxn,                         \* the writers active at once
     iso : SUBSET {RC, SNAPSHOT, SERIALIZABLE},    \* their isolation levels
     kinds : SUBSET {"insert", "update", "delete"},
     savepoints : BOOLEAN,
     onlineBuild : BOOLEAN]                        \* an online index build is running

ASSUME WorkloadsAssumption == Workloads \subseteq Workload

-----------------------------------------------------------------------------
(* The transaction manager                                                 *)

Active == {t \in Txn : status[t] = "active"}
ActiveCount == Cardinality(Active)
LiveSnapshots == ActiveCount + Cardinality({r \in Reader : reader[r] # NoSnap})

captureLocked(t) == [tid |-> t, xmax |-> next, active |-> Active \ {t}]

Sees(s, xid) ==
    \/ xid = 0
    \/ xid = s.tid
    \/ status[xid] = "committed" /\ xid < s.xmax /\ xid \notin s.active

-----------------------------------------------------------------------------
(* Versions                                                                *)

\* Fault: a version the snapshot does not see ends the walk.
visiblePayloadNoChain(v, s) ==
    IF v # Absent /\ Sees(s, v.xmin) /\ (v.xmax = 0 \/ ~Sees(s, v.xmax)) THEN v.val ELSE None

\* The value snapshot s finds in version v: the walk goes down the undo chain
\* until it meets a version whose creator is seen.
visiblePayload(v, s) ==
    LET judge(w, rest) ==
            IF Sees(s, w.xmin)
            THEN IF w.xmax = 0 \/ ~Sees(s, w.xmax) THEN w.val ELSE None
            ELSE rest
        walk[u \in 0 .. Len(undoLog)] ==
            IF u = 0 \/ undoLog[u].kind \in {"insert", "gone"}
            THEN None
            ELSE judge(undoLog[u].old, walk[undoLog[u].old.undo])
    IN  IF v = Absent THEN None ELSE judge(v, walk[v.undo])

View(s, k) == visiblePayload(row[k], s)

\* The undo records of t that Chain returns, newest first.
Chain(t) ==
    LET ids == {u \in DOMAIN undoLog : undoLog[u].txn = t}
    IN  [i \in 1 .. Cardinality(ids) |->
            CHOOSE u \in ids : Cardinality({w \in ids : w >= u}) = i]

ForgetTxn(t) ==
    [u \in DOMAIN undoLog |-> IF undoLog[u].txn = t THEN Gone ELSE undoLog[u]]

\* The undo of a commit is dropped unless another snapshot is live.
forgetAtCommit(t) == IF LiveSnapshots = 1 THEN ForgetTxn(t) ELSE undoLog

\* applyUndoRec: unconditional, by key.
applyUndoRec(rec) ==
    [row EXCEPT ![rec.key] = IF rec.kind = "insert" THEN Absent ELSE rec.old]

-----------------------------------------------------------------------------
(* Locks, as LockManager grants them                                       *)

canLock(t, k, mode) ==
    \A l \in lock[k] : l[1] # t => l[2] = "S" /\ mode = "S"

grantKey(t, k, mode) ==
    [lock EXCEPT ![k] = {l \in @ : l[1] # t} \cup {<<t, mode>>}]

ReleaseAll(t) == [k \in Key |-> {l \in lock[k] : l[1] # t}]

-----------------------------------------------------------------------------
Init ==
    /\ work \in Workloads
    /\ next = 1
    /\ status = [t \in Txn |-> "none"]
    /\ iso = [t \in Txn |-> SNAPSHOT]
    /\ snap = [t \in Txn |-> NoSnap]
    /\ reader = [r \in Reader |-> NoSnap]
    /\ row \in [Key -> {Absent, [Absent EXCEPT !.val = 0]}]
    /\ \A k \in Key \ work.key : row[k] = Absent
    /\ undoLog = <<>>
    /\ lock = [k \in Key |-> {}]
    /\ op = [t \in Txn |-> Idle]
    /\ sp = [t \in Txn |-> NoSavepoint]
    /\ deleted = [t \in Txn |-> {}]
    /\ db = [k \in Key |-> row[k].val]
    /\ base = [x \in Txn \cup Reader |-> NoBase]
    /\ mine = [t \in Txn |-> <<>>]
    /\ reads = [t \in Txn |-> {}]

Ready(t) == status[t] = "active" /\ op[t] = Idle

\* Tree.BeginTxn: the id is allocated and attached, the snapshot taken.
BeginTxn(i) ==
    /\ next <= work.txns
    /\ ActiveCount < work.active
    /\ next' = next + 1
    /\ status' = [status EXCEPT ![next] = "active"]
    /\ iso' = [iso EXCEPT ![next] = i]
    /\ snap' = [snap EXCEPT ![next] = [tid |-> next, xmax |-> next + 1, active |-> Active]]
    /\ base' = [base EXCEPT ![next] = db]
    /\ UNCHANGED <<work, reader, row, undoLog, lock, op, sp, deleted, db, mine, reads>>

BeginRead(r) ==
    /\ reader[r] = NoSnap
    /\ reader' = [reader EXCEPT ![r] = captureLocked(0)]
    /\ base' = [base EXCEPT ![r] = db]
    /\ UNCHANGED <<work, next, status, iso, snap, row, undoLog, lock, op, sp, deleted, db, mine, reads>>

EndRead(r) ==
    /\ reader[r] # NoSnap
    /\ reader' = [reader EXCEPT ![r] = NoSnap]
    /\ base' = [base EXCEPT ![r] = NoBase]
    /\ UNCHANGED <<work, next, status, iso, snap, row, undoLog, lock, op, sp, deleted, db, mine, reads>>

\* A row operation starts: Insert, Update and Delete refresh the snapshot of a
\* READ COMMITTED transaction before they ask for the lock.
refreshIfRC(t) ==
    IF iso[t] = RC
    THEN /\ snap' = [snap EXCEPT ![t] = captureLocked(t)]
         /\ base' = [base EXCEPT ![t] = db]
    ELSE UNCHANGED <<snap, base>>

StartOp(t, kind, k) ==
    /\ Ready(t)
    /\ Len(undoLog) + Cardinality({u \in Txn : op[u].kind \in work.kinds}) < work.undo
    /\ refreshIfRC(t)
    /\ op' = [op EXCEPT ![t] = [kind |-> kind, key |-> k, locked |-> FALSE]]
    /\ UNCHANGED <<work, next, status, iso, reader, row, undoLog, lock, sp, deleted, db, mine, reads>>

InOp(t, kind, locked) == op[t].kind = kind /\ op[t].locked = locked

lockSkipped(t) == iso[t] < SERIALIZABLE /\ ActiveCount <= 1 /\ ~work.onlineBuild

\* lockWrite: no lock is taken while no other writer is active.
lockWrite(t) ==
    \E kind \in work.kinds :
        /\ InOp(t, kind, FALSE)
        /\ \/ lockSkipped(t) /\ UNCHANGED lock
           \/ /\ ~lockSkipped(t)
              /\ canLock(t, op[t].key, "X")
              /\ lock' = grantKey(t, op[t].key, "X")
        /\ op' = [op EXCEPT ![t].locked = TRUE]
        /\ UNCHANGED <<tmVars, row, undoLog, sp, deleted, history>>

\* The lock wait ends in an error (a deadlock, a timeout), and the statement
\* with it.
lockFails(t) ==
    /\ \E kind \in work.kinds : InOp(t, kind, FALSE)
    /\ ~lockSkipped(t)
    /\ ~canLock(t, op[t].key, "X")
    /\ op' = [op EXCEPT ![t] = Idle]
    /\ UNCHANGED <<tmVars, row, undoLog, lock, sp, deleted, history>>

\* The version in the slot belongs to a transaction that is still running.
conflictsWithLiveWriter(t, v) ==
    v.xmin # 0 /\ v.xmin # t /\ status[v.xmin] = "active"

\* Fault: no snapshot check.
committedSinceNever(t, v) == FALSE

\* The snapshot check of insertAt, updateAt and deleteAt: the version was
\* committed after the snapshot was taken.
committedSince(t, v) ==
    /\ iso[t] >= SNAPSHOT
    /\ v.xmin # t
    /\ ~Sees(snap[t], v.xmin)
    /\ status[v.xmin] = "committed"

refused(t, v) ==
    v # Absent /\ (conflictsWithLiveWriter(t, v) \/ committedSince(t, v))

\* The statement ends with an error and changes nothing.
failOp(t) ==
    /\ op' = [op EXCEPT ![t] = Idle]
    /\ UNCHANGED <<tmVars, row, undoLog, lock, sp, deleted, history>>

\* The undo record is logged, then the slot gets version v.
writeRow(t, kind, v) ==
    LET k == op[t].key
    IN  /\ undoLog' = Append(undoLog, [txn |-> t, kind |-> kind, key |-> k, old |-> row[k]])
        /\ row' = [row EXCEPT ![k] = v]
        /\ mine' = [mine EXCEPT ![t] = Append(@, [key |-> k, val |-> IF v.xmax = 0 THEN v.val ELSE None])]
        /\ op' = [op EXCEPT ![t] = Idle]
        /\ UNCHANGED <<tmVars, lock, sp, db, base, reads>>

NewVersion(t) ==
    [xmin |-> t, xmax |-> 0, undo |-> Len(undoLog) + 1, val |-> Len(undoLog) + 1]

insertAt(t) ==
    LET v == row[op[t].key]
    IN  /\ InOp(t, "insert", TRUE)
        /\ IF visiblePayload(v, snap[t]) # None \/ refused(t, v)
           THEN failOp(t)
           ELSE /\ writeRow(t, IF v = Absent THEN "insert" ELSE "update", NewVersion(t))
                /\ UNCHANGED deleted

updateAt(t) ==
    LET v == row[op[t].key]
    IN  /\ InOp(t, "update", TRUE)
        /\ IF visiblePayload(v, snap[t]) = None \/ refused(t, v)
           THEN failOp(t)
           ELSE writeRow(t, "update", NewVersion(t)) /\ UNCHANGED deleted

\* The tombstone keeps the creator and the payload of the version it hides.
deleteAt(t) ==
    LET v == row[op[t].key]
    IN  /\ InOp(t, "delete", TRUE)
        /\ IF visiblePayload(v, snap[t]) = None \/ refused(t, v)
           THEN failOp(t)
           ELSE /\ writeRow(t, "delete", [v EXCEPT !.xmax = t, !.undo = Len(undoLog) + 1])
                /\ deleted' = [deleted EXCEPT ![t] = @ \cup {op[t].key}]

\* Lookup under SERIALIZABLE: a shared lock, then a read at the snapshot taken
\* at Begin.  (At the other levels a read changes nothing: View says what it
\* returns.)
Lookup(t, k) ==
    /\ Ready(t)
    /\ iso[t] = SERIALIZABLE
    /\ canLock(t, k, "S")
    /\ lock' = grantKey(t, k, "S")
    /\ reads' = [reads EXCEPT ![t] = @ \cup {<<k, View(snap[t], k)>>}]
    /\ UNCHANGED <<tmVars, row, undoLog, op, sp, deleted, db, base, mine>>

\* The value t leaves in k, if it wrote k.
Wrote(t, k) == {i \in DOMAIN mine[t] : mine[t][i].key = k}
Overlay(f, t) ==
    [k \in Key |->
        IF Wrote(t, k) = {} THEN f[k]
        ELSE mine[t][CHOOSE i \in Wrote(t, k) : \A j \in Wrote(t, k) : j <= i].val]

\* The handle of t is dropped.
dropHandle(t) ==
    /\ snap' = [snap EXCEPT ![t] = NoSnap]
    /\ sp' = [sp EXCEPT ![t] = NoSavepoint]
    /\ base' = [base EXCEPT ![t] = NoBase]

\* completeCommitLocked: the commit becomes visible, the locks are released,
\* and the undo is dropped unless some snapshot is live.  A transaction that
\* deleted rows goes on to purge them.
CommitTxn(t) ==
    /\ Ready(t)
    /\ status' = [status EXCEPT ![t] = "committed"]
    /\ lock' = ReleaseAll(t)
    /\ undoLog' = forgetAtCommit(t)
    /\ db' = Overlay(db, t)
    /\ op' = [op EXCEPT ![t] = IF deleted[t] = {} THEN Idle ELSE [kind |-> "purge", checked |-> FALSE]]
    /\ dropHandle(t)
    /\ mine' = [mine EXCEPT ![t] = IF iso[t] = SERIALIZABLE THEN @ ELSE <<>>]
    /\ UNCHANGED <<work, next, iso, reader, row, deleted, reads>>

\* Fault: only writers count.
PurgeDeletedCheckWriters(t) ==
    /\ op[t] = [kind |-> "purge", checked |-> FALSE]
    /\ ActiveCount = 0
    /\ op' = [op EXCEPT ![t].checked = TRUE]
    /\ UNCHANGED <<tmVars, row, undoLog, lock, sp, deleted, history>>

\* PurgeDeleted: the check that no snapshot is live ...
PurgeDeletedCheck(t) ==
    /\ op[t] = [kind |-> "purge", checked |-> FALSE]
    /\ IF LiveSnapshots # 0
       THEN /\ op' = [op EXCEPT ![t] = Idle]
            /\ deleted' = [deleted EXCEPT ![t] = {}]
       ELSE /\ op' = [op EXCEPT ![t].checked = TRUE]
            /\ UNCHANGED deleted
    /\ UNCHANGED <<tmVars, row, undoLog, lock, sp, history>>

deadTombstone(v) == v.xmax # 0 /\ status[v.xmax] = "committed"

\* ... and the batch of physical deletes, under the tree mutex.
purgeCommittedBatch(t) ==
    /\ op[t] = [kind |-> "purge", checked |-> TRUE]
    /\ row' = [k \in Key |-> IF k \in deleted[t] /\ deadTombstone(row[k]) THEN Absent ELSE row[k]]
    /\ op' = [op EXCEPT ![t] = Idle]
    /\ deleted' = [deleted EXCEPT ![t] = {}]
    /\ UNCHANGED <<tmVars, undoLog, lock, sp, history>>

\* PurgeDead, under the database apply barrier: nothing else is running.
PurgeDead ==
    /\ LiveSnapshots = 0
    /\ \A t \in Txn : op[t] = Idle
    /\ \E k \in Key : deadTombstone(row[k])
    /\ row' = [k \in Key |-> IF deadTombstone(row[k]) THEN Absent ELSE row[k]]
    /\ undoLog' = [u \in DOMAIN undoLog |->
            IF \E k \in Key : deadTombstone(row[k]) /\ undoLog[u].txn = row[k].xmax
            THEN Gone ELSE undoLog[u]]
    /\ UNCHANGED <<tmVars, lock, op, sp, deleted, history>>

-----------------------------------------------------------------------------
(* Rollback                                                                *)

Savepoint(t) ==
    /\ work.savepoints
    /\ Ready(t)
    /\ sp[t] = NoSavepoint
    /\ sp' = [sp EXCEPT ![t] = [undo |-> Len(Chain(t)), mine |-> Len(mine[t])]]
    /\ UNCHANGED <<tmVars, row, undoLog, lock, op, deleted, history>>

\* An undo replay starts: the records still to be applied, newest first.
startUndo(t, n, whole) ==
    op' = [op EXCEPT ![t] =
        [kind |-> "undo", left |-> SubSeq(Chain(t), 1, n), whole |-> whole]]

RollbackToSavepoint(t) ==
    /\ Ready(t)
    /\ sp[t] # NoSavepoint
    /\ startUndo(t, Len(Chain(t)) - sp[t].undo, FALSE)
    /\ UNCHANGED <<tmVars, row, undoLog, lock, sp, deleted, history>>

RollbackTxn(t) ==
    /\ Ready(t)
    /\ startUndo(t, Len(Chain(t)), TRUE)
    /\ UNCHANGED <<tmVars, row, undoLog, lock, sp, deleted, history>>

\* One ApplyUndo.
ApplyUndo(t) ==
    /\ op[t].kind = "undo"
    /\ op[t].left # <<>>
    /\ row' = applyUndoRec(undoLog[Head(op[t].left)])
    /\ op' = [op EXCEPT ![t].left = Tail(@)]
    /\ UNCHANGED <<tmVars, undoLog, lock, sp, deleted, history>>

\* The replay is over: a rollback to a savepoint leaves the transaction open,
\* with its locks and its undo chain; a whole rollback ends it.
FinishUndo(t) ==
    /\ op[t].kind = "undo"
    /\ op[t].left = <<>>
    /\ op' = [op EXCEPT ![t] = Idle]
    /\ IF op[t].whole
       THEN /\ status' = [status EXCEPT ![t] = "aborted"]
            /\ lock' = ReleaseAll(t)
            /\ mine' = [mine EXCEPT ![t] = <<>>]
            /\ deleted' = [deleted EXCEPT ![t] = {}]
            /\ dropHandle(t)
       ELSE /\ mine' = [mine EXCEPT ![t] = SubSeq(@, 1, sp[t].mine)]
            /\ UNCHANGED <<status, lock, deleted, snap, sp, base>>
    /\ UNCHANGED <<work, next, iso, reader, row, undoLog, db, reads>>

-----------------------------------------------------------------------------
\* Every transaction has ended and every reader is gone.
Finished ==
    /\ next > work.txns
    /\ LiveSnapshots = 0
    /\ UNCHANGED vars

TxnStep(t) ==
    \/ \E kind \in work.kinds, k \in work.key : StartOp(t, kind, k)
    \/ lockWrite(t)
    \/ lockFails(t)
    \/ insertAt(t)
    \/ updateAt(t)
    \/ deleteAt(t)
    \/ \E k \in work.key : Lookup(t, k)
    \/ CommitTxn(t)
    \/ PurgeDeletedCheck(t)
    \/ purgeCommittedBatch(t)
    \/ Savepoint(t)
    \/ RollbackToSavepoint(t)
    \/ RollbackTxn(t)
    \/ ApplyUndo(t)
    \/ FinishUndo(t)

Next ==
    \/ \E i \in work.iso : BeginTxn(i)
    \/ \E t \in Txn : TxnStep(t)
    \/ \E r \in work.reader : BeginRead(r) \/ EndRead(r)
    \/ PurgeDead
    \/ Finished

Spec == Init /\ [][Next]_vars

-----------------------------------------------------------------------------
(* Properties                                                              *)

Version == [xmin : 0 .. MaxTxn, xmax : 0 .. MaxTxn, undo : 0 .. MaxUndo, val : None .. MaxUndo]

\* Every variable has its type.
TypeOK ==
    /\ next \in 1 .. MaxTxn + 1
    /\ status \in [Txn -> {"none", "active", "committed", "aborted"}]
    /\ row \in [Key -> Version]
    /\ Len(undoLog) <= MaxUndo
    /\ \A u \in DOMAIN undoLog : undoLog[u].old \in Version /\ undoLog[u].old.undo < u
    /\ \A k \in Key : lock[k] \subseteq Txn \X {"S", "X"}
    /\ db \in [Key -> None .. MaxUndo]

\* A statement that begins now reads the committed database: whatever the
\* interleaving of writes, commits, step-by-step rollbacks and purges, the
\* walk of visiblePayload returns for every key the value of the last
\* committed write, never one that is uncommitted or rolled back.
FreshReadIsCommitted == \A k \in Key : View(captureLocked(0), k) = db[k]

\* A snapshot does not move: an open reader sees the database as it was when
\* its snapshot was taken, although other transactions overwrite, delete,
\* purge and forget undo after that; a writer sees its snapshot and its own
\* writes on top, also after a rollback to a savepoint and while others replay
\* their undo.
SnapshotStable ==
    /\ \A r \in Reader : reader[r] # NoSnap => \A k \in Key : View(reader[r], k) = base[r][k]
    /\ \A t \in Active :
        op[t].kind # "undo" => \A k \in Key : View(snap[t], k) = Overlay(base[t], t)[k]

\* docs/mvcc.md: "first-committer-wins on write-write".  A SNAPSHOT transaction
\* commits only if nobody has committed a write to a row it wrote since its
\* snapshot was taken.
FirstCommitterWins ==
    [][\A t \in Active :
        (status'[t] = "committed" /\ iso[t] >= SNAPSHOT)
            => \A k \in Key : Wrote(t, k) # {} => db[k] = base[t][k]]_vars

\* docs/mvcc.md: "Serializable is lock-based ... Anomaly tests cover ... write
\* skew".  When only SERIALIZABLE transactions run, the committed ones could
\* have run one after the other with the same reads.
Serializable ==
    LET done == {t \in Txn : status[t] = "committed"}
        orders == {f \in [done -> 1 .. MaxTxn] : \A t, u \in done : t # u => f[t] # f[u]}
        \* the writer of k last before t in order f
        before(f, t, k) == {u \in done : f[u] < f[t] /\ Wrote(u, k) # {}}
        value(f, t, k) ==
            IF before(f, t, k) = {} THEN {0, None}
            ELSE {Overlay(db, CHOOSE u \in before(f, t, k) : \A w \in before(f, t, k) : f[w] <= f[u])[k]}
    IN  work.iso = {SERIALIZABLE} => \E f \in orders : \A t \in done : \A r \in reads[t] :
            r[2] \in value(f, t, r[1]) \/ \E i \in Wrote(t, r[1]) : mine[t][i].val = r[2]

=============================================================================
