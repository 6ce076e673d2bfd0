-------------------------------- MODULE Wal --------------------------------
(***************************************************************************)
(* The write-ahead log of internal/wal/log.go: records appended to a       *)
(* buffer by several threads, group commit (Flush), a commit record held   *)
(* back while it is replicated (AppendHeldBatch, ReleaseHold), batches of  *)
(* page images that take their LSNs, release the mutex to encrypt and      *)
(* append their bytes later (AppendPageImages), rotation of segments, the  *)
(* latch on a failed write or fsync, checkpoints and the removal of        *)
(* segments, power loss and Open.                                          *)
(*                                                                         *)
(* One action is one critical section of l.mu. The mutex is free while     *)
(* flushLocked writes and syncs and while images are encrypted; the thread *)
(* is then in io or in "encrypt". Sizes and offsets count records instead  *)
(* of bytes, after the segment header.                                     *)
(***************************************************************************)
EXTENDS WalTypes, FiniteSets, FiniteSetsExt

CONSTANTS
    SegmentSize,    \* records of a segment
    NonceBatch,     \* nonces reserved with one write of the control file
    ImageBatch,     \* page images of one AppendPageImages call
    Workloads       \* the bounded workloads: see Workload

ASSUME WalAssumption ==
    SegmentSize \in Nat \ {0} /\ NonceBatch \in Nat \ {0} /\ ImageBatch \in Nat \ {0}

\* How often a behaviour may do each thing, and two races it may contain: a
\* record appended by another thread while a thread rotates the segment, or
\* while it encrypts its images.
Workload == [append : Nat, images : Nat, hold : Nat, checkpoint : Nat, fault : Nat, crash : Nat,
             rotationRace : BOOLEAN, encryptRace : BOOLEAN]

ASSUME WorkloadsAssumption == Workloads \subseteq Workload

VARIABLES
    log,        \* the fields of Log
    segs,       \* segment id -> its header's StartLSN, its records and how many are synced
    control,    \* the control file
    io,         \* the write of flushLocked in progress (l.flushing)
    proc,       \* what each thread does, and the records it has appended
    spent,      \* the nonces used so far, in order; a record's id is its place here
    acked,      \* the records a successful Flush has vouched for
    discarded,  \* the records taken back by ReleaseHold(false)
    budget      \* what is left of the workload

vars == <<log, segs, control, io, proc, spent, acked, discarded, budget>>
disk == <<segs, control>>
ghosts == <<spent, acked, discarded>>

\* Every variable has its type; the held record lies inside the buffer, the
\* write in progress takes no more than it, and no segment claims to have synced
\* more than it holds.
TypeOK ==
    /\ log.nextLSN \in Nat \ {0} /\ log.durableLSN \in Nat /\ log.redoLSN \in Nat \ {0}
    /\ log.buf \in Seq(Records) /\ log.bufLast \in Nat
    /\ log.segID \in DOMAIN segs /\ log.segOff \in Nat
    /\ log.hold \in [off : 0..Len(log.buf), len : Nat, lsn : Nat, prevLast : Nat]
    /\ log.hold.off + log.hold.len <= Len(log.buf)
    /\ log.durabilityErr \in BOOLEAN /\ log.flushErr \in BOOLEAN
    /\ \A s \in DOMAIN segs :
          segs[s].recs \in Seq(Records) /\ segs[s].synced \in 0..Len(segs[s].recs)
    /\ io.by \in Proc \cup {NoProc} /\ io.n \in 0..Len(log.buf)
    /\ \A p \in Proc :
          /\ proc[p].pc \in {"idle", "appended", "images", "encrypt", "rotate", "held", "flush", "wait", "woken"}
          /\ proc[p].kind \in {"append", "images", "held"}
          /\ proc[p].recs \in Seq(Records)
    /\ budget \in Workload

-----------------------------------------------------------------------------
(* The log in memory *)

held == log.hold.len > 0

\* The bytes flushLocked may write, and the LSN it then calls durable.
toFlush == IF held THEN log.hold.off ELSE Len(log.buf)
flushLast == IF held THEN log.hold.prevLast ELSE log.bufLast

\* Whether n more records fit the segment. An empty segment takes anything.
Fits(n) == log.segOff + Len(log.buf) + n <= SegmentSize \/ (log.segOff = 0 /\ log.buf = <<>>)

\* Fault: the mark saved is the one from before the reservation.
controlBehind(l) ==
    [nextLSN |-> l.nextLSN, durableLSN |-> l.durableLSN, redoLSN |-> l.redoLSN, nonceHigh |-> l.nonceCur]

controlOf(l) ==
    [nextLSN |-> l.nextLSN, durableLSN |-> l.durableLSN, redoLSN |-> l.redoLSN, nonceHigh |-> l.nonceHigh]

reserveNonce(l) ==
    [l EXCEPT !.nonceCur = l.nonceHigh, !.nonceHigh = l.nonceHigh + NonceBatch, !.nonceLim = l.nonceHigh + NonceBatch]

\* n records encoded one after the other: the log and the control file
\* afterwards, and the nonces used. What is left of the current batch of nonces
\* comes first, and a further batch is saved before its first nonce is used: the
\* last save is the one that stays. Batches take their LSNs here (advance).
encode(l, n, advance) ==
    LET left == l.nonceLim - l.nonceCur
        batches == IF n <= left THEN 0 ELSE (n - left + NonceBatch - 1) \div NonceBatch
        before == left + (batches - 1) * NonceBatch     \* records encoded before the last save
        nextLSN(i) == IF advance THEN l.nextLSN + i ELSE l.nextLSN
        saved == reserveNonce([l EXCEPT !.nextLSN = nextLSN(before),
                                        !.nonceHigh = @ + (batches - 1) * NonceBatch])
    IN [log |-> IF batches = 0 THEN [l EXCEPT !.nonceCur = @ + n, !.nextLSN = nextLSN(n)]
                ELSE [saved EXCEPT !.nonceCur = l.nonceHigh + n - left, !.nextLSN = nextLSN(n)],
        control |-> IF batches = 0 THEN control ELSE controlOf(saved),
        nonces |-> [i \in 1..n |-> IF i <= left THEN l.nonceCur + i - 1 ELSE l.nonceHigh + i - left - 1]]

\* n new records from LSN lsn on.
newRecords(lsn, n) == [i \in 1..n |-> [id |-> Len(spent) + i, lsn |-> lsn + i - 1]]

\* Put the bytes of recs at the end of the buffer. appendLocked advances
\* nextLSN here, the other two did when they took their LSNs.
buffered(l, kind, recs) ==
    LET lsn == Last(recs).lsn
        all == [l EXCEPT !.buf = @ \o recs, !.bufLast = lsn]
    IN CASE kind = "append" -> [all EXCEPT !.nextLSN = lsn + 1]
         [] kind = "held" ->
                [all EXCEPT !.hold = [off |-> Len(l.buf), len |-> Len(recs), lsn |-> lsn, prevLast |-> l.bufLast]]
         [] OTHER -> all

\* The written prefix leaves the buffer.
consume(l, k) ==
    [l EXCEPT !.segOff = @ + k, !.buf = SubSeq(@, k + 1, Len(@)),
              !.hold.off = IF l.hold.len > 0 THEN @ - k ELSE @]

emptySegment(lsn) == [start |-> lsn, recs |-> <<>>, synced |-> 0]

newSegment(l) == [l EXCEPT !.segID = @ + 1, !.segOff = 0]

\* Rotation after its flush: a new segment that starts at nextLSN. What other
\* threads buffered meanwhile, and a record held meanwhile, go to the new one.
rotate(l) == [segs |-> [s \in DOMAIN segs \cup {l.segID + 1} |->
                            IF s = l.segID + 1 THEN emptySegment(l.nextLSN) ELSE segs[s]],
              log |-> newSegment(l), control |-> controlOf(newSegment(l))]

-----------------------------------------------------------------------------
(* Appending *)

Spend(what) == budget[what] > 0 /\ budget' = [budget EXCEPT ![what] = @ - 1]

\* The races the workload leaves out.
MayAppend(p) ==
    \A q \in Proc \ {p} : /\ proc[q].pc = "rotate" => budget.rotationRace
                          /\ proc[q].pc = "encrypt" => budget.encryptRace

\* The records recs have their LSNs, and e is the log after encoding them:
\* they are buffered, or the thread goes to rotate the segment first, which a
\* held record forbids (ErrHoldBlocksRotation; the LSNs of a batch are lost).
place(p, e, kind, recs, pc) ==
    /\ control' = e.control
    /\ spent' = spent \o e.nonces
    /\ \/ /\ Fits(Len(recs))
          /\ log' = buffered(e.log, kind, recs)
          /\ proc' = [proc EXCEPT ![p] = [pc |-> pc, kind |-> kind, recs |-> @.recs \o recs]]
       \/ /\ ~Fits(Len(recs)) /\ ~held
          /\ log' = e.log
          /\ proc' = [proc EXCEPT ![p] = [pc |-> "rotate", kind |-> kind, recs |-> @.recs \o recs]]
       \/ /\ ~Fits(Len(recs)) /\ held
          /\ log' = e.log
          /\ proc' = [proc EXCEPT ![p] = Idle]
    /\ UNCHANGED <<segs, io, acked, discarded>>

\* Append: a first record, or the one that follows a batch of images.
AppendRecord(p) ==
    /\ ~log.durabilityErr
    /\ MayAppend(p)
    /\ \/ proc[p].pc = "idle" /\ Spend("append")
       \/ proc[p].pc = "images" /\ UNCHANGED budget
    /\ place(p, encode(log, 1, FALSE), "append", newRecords(log.nextLSN, 1), "appended")

\* AppendHeldBatch. Engine.replMu lets one commit be held at a time.
AppendHeldBatch(p) ==
    /\ proc[p].pc = "idle"
    /\ ~log.durabilityErr /\ ~held
    /\ \A q \in Proc : proc[q].kind # "held"
    /\ MayAppend(p)
    /\ Spend("hold")
    /\ place(p, encode(log, 1, TRUE), "held", newRecords(log.nextLSN, 1), "held")

\* AppendPageImages, up to the point where it releases the mutex. It does not
\* look at the latch.
ReserveImages(p) ==
    /\ proc[p].pc = "idle"
    /\ MayAppend(p)
    /\ Spend("images")
    /\ LET e == encode(log, ImageBatch, TRUE) IN
          /\ log' = e.log /\ control' = e.control /\ spent' = spent \o e.nonces
          /\ proc' = [proc EXCEPT ![p] =
                         [pc |-> "encrypt", kind |-> "images", recs |-> newRecords(log.nextLSN, ImageBatch)]]
    /\ UNCHANGED <<segs, io, acked, discarded>>

AppendImages(p) ==
    /\ proc[p].pc = "encrypt"
    /\ MayAppend(p)
    /\ \/ /\ Fits(ImageBatch)
          /\ log' = buffered(log, "images", proc[p].recs)
          /\ proc' = [proc EXCEPT ![p].pc = "images"]
       \/ /\ ~Fits(ImageBatch) /\ ~held
          /\ proc' = [proc EXCEPT ![p].pc = "rotate"]
          /\ UNCHANGED log
       \/ /\ ~Fits(ImageBatch) /\ held
          /\ proc' = [proc EXCEPT ![p] = Idle]
          /\ UNCHANGED log
    /\ UNCHANGED <<disk, io, ghosts, budget>>

\* Fault: nobody is woken.
noBroadcast(ps) == ps

\* Broadcast: what the threads do once those that wait are awake.
broadcast(ps) == [q \in Proc |-> IF ps[q].pc = "wait" THEN [ps[q] EXCEPT !.pc = "woken"] ELSE ps[q]]

\* Fault: the bytes of the held record are left in the buffer.
leaveHeld(l) == [l EXCEPT !.bufLast = IF @ = l.hold.lsn THEN l.hold.prevLast ELSE @]

cutHeld(l) ==
    [l EXCEPT !.buf = SubSeq(@, 1, l.hold.off) \o SubSeq(@, l.hold.off + l.hold.len + 1, Len(@)),
              !.bufLast = IF @ = l.hold.lsn THEN l.hold.prevLast ELSE @]

\* ReleaseHold: the record stays and may be flushed, or is cut out of the buffer.
ReleaseHold(p, commit) ==
    /\ proc[p].pc = "held"
    /\ log' = [IF commit THEN log ELSE cutHeld(log) EXCEPT !.hold = NoHold]
    /\ proc' = broadcast([proc EXCEPT ![p] = IF commit THEN [@ EXCEPT !.pc = "flush"] ELSE Idle])
    /\ discarded' = IF commit THEN discarded ELSE discarded \cup Range(proc[p].recs)
    /\ UNCHANGED <<disk, io, spent, acked, budget>>

\* The caller goes on to Flush its last record, or leaves that to others (a
\* Begin record). A batch of images whose following record was refused ends.
StartFlush(p) ==
    /\ proc[p].pc = "appended"
    /\ proc' = [proc EXCEPT ![p].pc = "flush"]
    /\ UNCHANGED <<log, disk, io, ghosts, budget>>

Return(p) ==
    /\ \/ proc[p].pc = "appended"
       \/ proc[p].pc = "images" /\ log.durabilityErr
    /\ proc' = [proc EXCEPT ![p] = Idle]
    /\ UNCHANGED <<log, disk, io, ghosts, budget>>

-----------------------------------------------------------------------------
(* Flush and flushLocked *)

target(p) == Last(proc[p].recs).lsn
flushing == io.by # NoProc

\* A caller of Flush that has to do or to await something.
Flushing(p) ==
    /\ proc[p].pc = "flush"
    /\ log.durableLSN < target(p)
    /\ ~(held /\ log.hold.lsn <= target(p))

FlushReturn(p) ==
    /\ proc[p].pc = "flush" /\ log.durableLSN >= target(p)
    /\ acked' = acked \cup Range(proc[p].recs)
    /\ proc' = [proc EXCEPT ![p] = Idle]
    /\ UNCHANGED <<log, disk, io, spent, discarded, budget>>

FlushWait(p) ==
    /\ Flushing(p) /\ flushing /\ io.by # p
    /\ proc' = [proc EXCEPT ![p].pc = "wait"]
    /\ UNCHANGED <<log, disk, io, ghosts, budget>>

\* A woken caller takes the error of the last Flush as its own, unless its
\* record is durable by now.
FlushWake(p) ==
    /\ proc[p].pc = "woken"
    /\ proc' = [proc EXCEPT ![p] = IF log.flushErr /\ log.durableLSN < target(p) THEN Idle ELSE [@ EXCEPT !.pc = "flush"]]
    /\ UNCHANGED <<log, disk, io, ghosts, budget>>

\* flushLocked refuses once the latch is set, for Flush and for a rotation.
FlushRefused(p) ==
    /\ Flushing(p) \/ proc[p].pc = "rotate"
    /\ ~flushing /\ log.durabilityErr
    /\ log' = IF proc[p].pc = "flush" THEN [log EXCEPT !.flushErr = TRUE] ELSE log
    /\ proc' = [proc EXCEPT ![p] = Idle]
    /\ UNCHANGED <<disk, io, ghosts, budget>>

\* flushLocked captures the prefix and releases the mutex.
FlushStart(p) ==
    /\ Flushing(p) \/ proc[p].pc = "rotate"
    /\ ~flushing /\ ~log.durabilityErr /\ toFlush > 0
    /\ io' = [by |-> p, n |-> toFlush, last |-> flushLast, written |-> FALSE]
    /\ UNCHANGED <<log, disk, proc, ghosts, budget>>

\* WriteAt of the first k captured records at segOff.
written(k) ==
    [segs EXCEPT ![log.segID].recs = SubSeq(@, 1, log.segOff) \o SubSeq(log.buf, 1, k)]

FlushWrite(p) ==
    /\ io.by = p /\ ~io.written
    /\ segs' = written(io.n)
    /\ io' = [io EXCEPT !.written = TRUE]
    /\ UNCHANGED <<log, control, proc, ghosts, budget>>

\* The thread whose flush failed returns the error to its caller.
fail(p, l) ==
    /\ log' = IF proc[p].pc = "flush" THEN [l EXCEPT !.flushErr = TRUE] ELSE l
    /\ proc' = broadcast([proc EXCEPT ![p] = Idle])
    /\ io' = NoIO
    /\ UNCHANGED <<control, ghosts>>

\* beforeWrite failed or nothing was written: the flush can be tried again.
FlushNotWritten(p) ==
    /\ io.by = p /\ ~io.written
    /\ Spend("fault")
    /\ fail(p, log)
    /\ UNCHANGED segs

\* A short write: k whole records reached the segment, and a torn one.
FlushShortWrite(p) ==
    /\ io.by = p /\ ~io.written
    /\ Spend("fault")
    /\ \E k \in 0..io.n - 1 :
          /\ segs' = written(k)
          /\ fail(p, [consume(log, k) EXCEPT !.durabilityErr = TRUE])

FlushSyncFails(p) ==
    /\ io.by = p /\ io.written
    /\ Spend("fault")
    /\ fail(p, [consume(log, io.n) EXCEPT !.durabilityErr = TRUE])
    /\ UNCHANGED segs

\* The records of a thread that waits for a rotation to buffer them.
pending(p) == IF proc[p].kind = "images" THEN proc[p].recs ELSE <<Last(proc[p].recs)>>
afterAppend(p) ==
    [proc EXCEPT ![p].pc = IF @ # "rotate" THEN @
                           ELSE IF proc[p].kind = "append" THEN "appended" ELSE proc[p].kind]

\* The write is synced: the prefix is consumed and durable. Flush looks again
\* at its LSN; a rotation opens the next segment and buffers its records
\* without giving up the mutex.
FlushSync(p) ==
    /\ io.by = p /\ io.written
    /\ LET l == [consume(log, io.n) EXCEPT !.durableLSN = Max({@, io.last})]
           synced == [segs EXCEPT ![log.segID].synced = Len(segs[log.segID].recs)]
           r == rotate(l)
       IN IF proc[p].pc = "rotate"
          THEN /\ segs' = [r.segs EXCEPT ![log.segID] = synced[log.segID]]
               /\ control' = r.control
               /\ log' = buffered(r.log, proc[p].kind, pending(p))
          ELSE /\ segs' = synced
               /\ log' = [l EXCEPT !.flushErr = FALSE]
               /\ UNCHANGED control
    /\ proc' = broadcast(afterAppend(p))
    /\ io' = NoIO
    /\ UNCHANGED <<ghosts, budget>>

\* A rotation that finds nothing to flush.
RotateEmpty(p) ==
    /\ proc[p].pc = "rotate"
    /\ ~flushing /\ ~log.durabilityErr /\ toFlush = 0
    /\ LET r == rotate(log) IN
          segs' = r.segs /\ control' = r.control /\ log' = buffered(r.log, proc[p].kind, pending(p))
    /\ proc' = afterAppend(p)
    /\ UNCHANGED <<io, ghosts, budget>>

-----------------------------------------------------------------------------
(* Checkpoints, segments and restarts *)

\* The LSN of the first record the segment after s may hold.
successorStart(disks, s) == disks[Min({q \in DOMAIN disks : q > s})].start

\* Fault: a segment is judged by its own first LSN.
startedBefore(lsn) == {s \in DOMAIN segs : s < Max(DOMAIN segs) /\ segs[s].start <= lsn}

\* Closed segments whose successor starts at or below lsn hold nothing from
\* lsn on.
obsolete(lsn) == {s \in DOMAIN segs : s < Max(DOMAIN segs) /\ successorStart(segs, s) <= lsn}

\* Engine.Checkpoint flushes the record before it installs the boundary.
\* Checkpoints do not overlap here, so the boundary does not go back.
InstallCheckpoint ==
    /\ ~log.durabilityErr
    /\ Spend("checkpoint")
    /\ \E redo \in log.redoLSN..log.durableLSN + 1 :
          /\ log' = [log EXCEPT !.redoLSN = redo]
          /\ control' = controlOf(log')
    /\ UNCHANGED <<segs, io, proc, ghosts>>

\* TrimToCap removes some of these, the oldest first.
DiscardCheckpointedSegments ==
    /\ obsolete(log.redoLSN) # {}
    /\ segs' = [s \in DOMAIN segs \ obsolete(log.redoLSN) |-> segs[s]]
    /\ UNCHANGED <<log, control, io, proc, ghosts, budget>>

\* ScanFrom(start) reads the segments whose successor starts after start, the
\* last one always: what it returns, and the LSN of the last record it met, 0 if
\* there was none.
scanned(disks, start) ==
    {s \in DOMAIN disks : s = Max(DOMAIN disks) \/ successorStart(disks, s) > start}
ScanFrom(disks, start) ==
    {r \in UNION {Range(disks[s].recs) : s \in scanned(disks, start)} : r.lsn >= start}
lastScanned(disks, start) ==
    LET full == {s \in scanned(disks, start) : disks[s].recs # <<>>}
    IN IF full = {} THEN 0 ELSE Last(disks[Max(full)].recs).lsn

\* What a power loss leaves of the segments when k of the records that were
\* not synced survive.
surviving(k) == [s \in DOMAIN segs |->
    LET kept == SubSeq(segs[s].recs, 1, segs[s].synced + IF s = log.segID THEN k ELSE 0)
    IN [segs[s] EXCEPT !.recs = kept, !.synced = Len(kept)]]

\* Fault: the log goes on from what the control file says.
noAdvance(l, last) == l

\* The log after recovery scanned up to LSN last, 0 if it found nothing.
AdvanceAfterRecovery(l, last) ==
    LET next == IF last = 0 THEN l.nextLSN ELSE last + 1
    IN [l EXCEPT !.nextLSN = Max({@, next}), !.durableLSN = Max({@, next - 1})]

\* Power loss, then Open, the scan of recovery and AdvanceAfterRecovery. The
\* LSN to go on from is the one after the last record of the scan.
Reopen ==
    /\ Spend("crash")
    /\ \E k \in 0..Len(segs[log.segID].recs) - segs[log.segID].synced :
          LET last == lastScanned(surviving(k), control.redoLSN)
              opened == reserveNonce(
                  [nextLSN |-> control.nextLSN, durableLSN |-> control.durableLSN, redoLSN |-> control.redoLSN,
                   nonceCur |-> 0, nonceLim |-> 0, nonceHigh |-> control.nonceHigh, buf |-> <<>>, bufLast |-> 0,
                   segID |-> Max(DOMAIN segs), segOff |-> Len(surviving(k)[Max(DOMAIN segs)].recs), hold |-> NoHold,
                   durabilityErr |-> FALSE, flushErr |-> FALSE])
          IN /\ segs' = surviving(k)
             /\ control' = controlOf(opened)
             /\ log' = AdvanceAfterRecovery(opened, last)
    /\ proc' = [p \in Proc |-> Idle]
    /\ io' = NoIO
    /\ UNCHANGED ghosts

-----------------------------------------------------------------------------

\* Create: one empty segment, and a control file written with the first nonces.
Init ==
    /\ budget \in Workloads
    /\ log = [nextLSN |-> 1, durableLSN |-> 0, redoLSN |-> 1, nonceCur |-> 1, nonceLim |-> 1 + NonceBatch,
              nonceHigh |-> 1 + NonceBatch, buf |-> <<>>, bufLast |-> 0, segID |-> 1, segOff |-> 0, hold |-> NoHold,
              durabilityErr |-> FALSE, flushErr |-> FALSE]
    /\ segs = [s \in {1} |-> emptySegment(1)]
    /\ control = controlOf(log)
    /\ io = NoIO
    /\ proc = [p \in Proc |-> Idle]
    /\ spent = <<>> /\ acked = {} /\ discarded = {}

\* The steps by which a thread inside the log gets on.
Step(p) ==
    \/ (proc[p].pc # "idle" /\ AppendRecord(p)) \/ AppendImages(p)
    \/ Return(p) \/ FlushReturn(p) \/ FlushWait(p) \/ FlushWake(p) \/ FlushRefused(p)
    \/ FlushStart(p) \/ FlushWrite(p) \/ FlushSync(p) \/ RotateEmpty(p)

Fail(p) == FlushNotWritten(p) \/ FlushShortWrite(p) \/ FlushSyncFails(p)

Next ==
    \/ \E p \in Proc :
          \/ AppendRecord(p) \/ AppendHeldBatch(p) \/ ReserveImages(p) \/ StartFlush(p)
          \/ \E commit \in BOOLEAN : ReleaseHold(p, commit)
          \/ Step(p) \/ Fail(p)
    \/ InstallCheckpoint \/ DiscardCheckpointedSegments \/ Reopen

\* Threads inside the log are scheduled, and the replication of a held commit
\* ends one way or the other.
Spec == Init /\ [][Next]_vars
             /\ \A p \in Proc : WF_vars(Step(p)) /\ WF_vars(\E commit \in BOOLEAN : ReleaseHold(p, commit))

-----------------------------------------------------------------------------
(* What the log promises *)

\* The records that a power loss cannot take away.
Stable == [s \in DOMAIN segs |-> [segs[s] EXCEPT !.recs = SubSeq(@, 1, segs[s].synced)]]

\* A record for which Flush returned nil is found again by the scan of
\* recovery after a power loss at any moment, unless the redo boundary in the
\* control file has passed it, and Open finds the segment of that boundary.
\* Group commit, held records, rotations, failed writes, the latch and the
\* removal of segments all have to keep it ("Commit must not be acknowledged
\* until this returns nil").
AckedRecoverable ==
    /\ \A r \in acked : r.lsn >= control.redoLSN => r \in ScanFrom(Stable, control.redoLSN)
    /\ control.durableLSN > 0 => segs[Min(DOMAIN segs)].start <= control.redoLSN

\* A held record that ReleaseHold(false) took back never reaches a segment,
\* whatever was flushed while it was held or after.
DiscardedNeverWritten ==
    \A s \in DOMAIN segs : discarded \cap Range(segs[s].recs) = {}

\* No LSN belongs to two records of the log, before and after restarts.
UniqueLSN ==
    LET all == Range(log.buf) \cup UNION {Range(segs[s].recs) : s \in DOMAIN segs}
    IN ~budget.encryptRace => \A r, q \in all : r.lsn = q.lsn => r = q

\* No nonce encrypts two records, across restarts too: a batch of nonces is in
\* the control file before the first of them is used.
NonceFresh == IsInjective(spent)

\* Every call ends: no thread waits forever in Flush, for a rotation or for a
\* held record, and a thread in Flush is answered whoever flushes for it.
CallsEnd == \A p \in Proc : proc[p].pc # "idle" ~> proc[p].pc = "idle"
=============================================================================
