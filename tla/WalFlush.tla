------------------------------ MODULE WalFlush ------------------------------
(***************************************************************************)
(* The actions of flushLocked, and the rotation that may follow it, keep   *)
(* the invariant.                                                          *)
(***************************************************************************)
EXTENDS WalAppend, WalDisk

\* FlushReturn: what is acknowledged is in the synced part of the segments.
LEMMA FlushReturnInv == ASSUME Inv, NEW p \in Proc, FlushReturn(p) PROVE Inv'
<1>1. proc \in [Proc -> Threads] /\ Pc(proc[p]) = "flush" /\ DurableLSN(log) >= Lsn(Last(Recs(proc[p])))
  BY DEF Inv, Sound, Shape, Typed, FlushReturn, target, Pc, DurableLSN, Lsn, Recs
<1>2. DurableLSN(log) \in Nat /\ Recs(proc[p]) \in Seq(Records) /\ Recs(proc[p]) # <<>>
  BY <1>1, LogTypes, ThreadTypes DEF Inv, Sound, Shape, Typed, WellFormed
<1>3. By(io) # p
  <2>1. Lsn(Last(Recs(proc[p]))) \in Nat
    BY <1>2, RecordTypes DEF Last
  <2> QED
    BY <1>1, <1>2, <2>1, Writer
<1> DEFINE a == acked \cup Range(Recs(proc[p]))
<1>4. Sound(log, segs, control, io, proc, Len(spent), discarded, a, NoRace)
  BY <1>1, Vouches, Zenon DEF Inv, Sound
<1>5. a \subseteq Records /\ acked' = a
  <2>1. Range(Recs(proc[p])) \subseteq Records
    BY <1>2, RangeOf
  <2> QED
    BY <2>1 DEF Inv, FlushReturn, Recs
<1> HIDE DEF a
<1>6. /\ [proc EXCEPT ![p] = Idle] \in [Proc -> Threads]
      /\ \A q \in Proc : Follows(proc[q], [proc EXCEPT ![p] = Idle][q])
      /\ By(io) # NoProc => [proc EXCEPT ![p] = Idle][By(io)] = proc[By(io)]
  <2>1. By(io) # NoProc => By(io) \in Proc
    BY WriteTypes DEF Inv, Sound, Shape, Typed
  <2> QED
    BY <1>1, <1>3, <2>1, IdleFacts DEF Follows
<1>7. Sound(log, segs, control, io, [proc EXCEPT ![p] = Idle], Len(spent), discarded, a, NoRace)
  BY <1>4, <1>6, SoundFollows, Zenon
<1> QED
  BY <1>5, <1>7, Zenon DEF Inv, NoRace, FlushReturn, disk

\* flushLocked captures the part of the buffer that is not held.
LEMMA FlushStartInv == ASSUME Inv, NEW p \in Proc, FlushStart(p) PROVE Inv'
<1>1. /\ log \in Logs /\ proc \in [Proc -> Threads] /\ By(io) = NoProc /\ ~Latched(log)
      /\ Shape(log, segs, control, io, proc)
      /\ Sound(log, segs, control, io, proc, Len(spent), discarded, acked, NoRace)
  BY DEF Inv, Sound, Shape, Typed, FlushStart, flushing, Latched, By
<1>2. /\ Pc(proc[p]) \in {"flush", "rotate"}
      /\ Pc(proc[p]) = "flush" => DurableLSN(log) < Lsn(Last(Recs(proc[p])))
  BY DEF FlushStart, Flushing, target, Pc, DurableLSN, Lsn, Recs
<1>3. /\ toFlush = IF HoldLen(log) > 0 THEN HoldOff(log) ELSE Len(Buf(log))
      /\ flushLast = IF HoldLen(log) > 0 THEN HoldPrev(log) ELSE BufLast(log)
      /\ toFlush \in Nat /\ flushLast \in Nat
  BY <1>1, SMTT(30) DEF toFlush, flushLast, held, HoldLen, HoldOff, HoldPrev, Buf, BufLast, Logs, Holds
<1>4. io' = [by |-> p, n |-> toFlush, last |-> flushLast, written |-> FALSE] /\ toFlush > 0
  BY DEF FlushStart
<1>5. /\ io' \in Writes /\ By(io') = p /\ ~Written(io') /\ Count(io') = toFlush /\ LastLSN(io') = flushLast
  BY <1>3, <1>4 DEF Writes, By, Written, Count, LastLSN
<1>6. Sound(log, segs, control, io', proc, Len(spent), discarded, acked, NoRace)
  <2>1. /\ By(io') \in Proc /\ 0 < Count(io')
        /\ Count(io') = IF HoldLen(log) > 0 THEN HoldOff(log) ELSE Len(Buf(log))
        /\ LastLSN(io') = IF HoldLen(log) > 0 THEN HoldPrev(log) ELSE BufLast(log)
        /\ Pc(proc[By(io')]) \in {"flush", "rotate"}
        /\ Pc(proc[By(io')]) = "flush" => DurableLSN(log) < Lsn(Last(Recs(proc[By(io')])))
    BY <1>2, <1>3, <1>4, <1>5
  <2> QED
    BY <1>1, <1>5, <2>1, Starts, ZenonT(40) DEF Sound
<1> QED
  BY <1>6 DEF Inv, NoRace, FlushStart, disk, ghosts

\* The segments after WriteAt of k records.
LEMMA WrittenFacts ==
    ASSUME Inv, ~Latched(log), NEW k \in Nat, k <= Len(Buf(log))
    PROVE  IsWritten(log, segs, written(k), k)
<1>1. /\ log \in Logs /\ segs \in [DOMAIN segs -> Segments] /\ SegID(log) \in DOMAIN segs
      /\ Buf(log) \in Seq(Records) /\ SegOff(log) \in Nat
  BY LogTypes DEF Inv, Sound, Shape, Typed
<1>2. PICK id \in DOMAIN segs : id = SegID(log) /\ id = log.segID
  BY <1>1 DEF SegID
<1>3. Recs(segs[id]) \in Seq(Records) /\ segs[id] \in Segments
  BY <1>1, SegmentTypes
<1> DEFINE recs == SubSeq(Recs(segs[id]), 1, SegOff(log)) \o SubSeq(Buf(log), 1, k)
<1>4. recs \in Seq(Records)
  <2>1. SubSeq(Buf(log), 1, k) \in Seq(Records)
    BY <1>1
  <2>2. SubSeq(Recs(segs[id]), 1, SegOff(log)) \in Seq(Records)
    <3>1. PICK o \in Nat, s \in Seq(Records) : o = SegOff(log) /\ s = Recs(segs[id])
      BY <1>1, <1>3, ZenonT(40)
    <3>2. Copied(io) \in Nat /\ Len(s) = o + Copied(io)
      BY <1>2, <3>1, WriteFacts DEF Inv, Sound, Shape, Typed, Ended
    <3>3. SubSeq(s, 1, o) \in Seq(Records)
      BY <3>2
    <3> QED
      BY <3>1, <3>3
  <2> QED
    BY <2>1, <2>2, ConcatFacts, ZenonT(40)
<1>5. written(k) = [segs EXCEPT ![id] = [segs[id] EXCEPT !.recs = recs]]
  BY <1>2, Zenon DEF written, Recs, SegOff, Buf
<1> HIDE DEF recs
<1> DEFINE x == [segs[id] EXCEPT !.recs = recs]
<1>6. x \in Segments /\ Recs(x) = recs /\ Start(x) = Start(segs[id]) /\ Synced(x) = Synced(segs[id])
  <2>1. \A y \in Segments : LET z == [y EXCEPT !.recs = recs]
                            IN z \in Segments /\ Recs(z) = recs /\ Start(z) = Start(y) /\ Synced(z) = Synced(y)
    BY <1>4 DEF Segments, Recs, Start, Synced
  <2> QED
    BY <1>3, <2>1, Zenon
<1>7. PICK h : h = [segs EXCEPT ![id] = x]
  BY Zenon
<1> HIDE DEF x
<1>8. /\ DOMAIN h = DOMAIN segs /\ h \in [DOMAIN h -> Segments] /\ h[id] = x
      /\ \A s \in DOMAIN segs : s # id => h[s] = segs[s]
  BY <1>1, <1>6, <1>7
<1>9. written(k) = h
  BY <1>5, <1>7, Zenon DEF x
<1> QED
  <2>1. Recs(h[id]) = SubSeq(Recs(segs[id]), 1, SegOff(log)) \o SubSeq(Buf(log), 1, k)
    BY <1>6, <1>8, ZenonT(40) DEF recs
  <2> QED
    BY <1>2, <1>6, <1>8, <1>9, <2>1, ZenonT(40) DEF IsWritten

\* flushLocked writes what it captured, with the mutex released.
LEMMA FlushWriteInv == ASSUME Inv, NEW p \in Proc, FlushWrite(p) PROVE Inv'
<1>1. /\ log \in Logs /\ io \in Writes /\ By(io) = p /\ By(io) # NoProc /\ ~Written(io)
      /\ Shape(log, segs, control, io, proc)
      /\ Sound(log, segs, control, io, proc, Len(spent), discarded, acked, NoRace)
  BY NoProcAssumption DEF Inv, Sound, Shape, Typed, FlushWrite, By, Written
<1>2. Count(io) \in Nat /\ 0 < Count(io) /\ Count(io) <= Len(Buf(log))
  BY <1>1, Writer, WriteTypes
<1>3. io' \in Writes /\ By(io') = By(io) /\ Count(io') = Count(io) /\ Written(io') /\ LastLSN(io') = LastLSN(io)
  BY <1>1, Zenon DEF FlushWrite, Writes, By, Count, Written, LastLSN
<1>4. IsWritten(log, segs, segs', Count(io))
  <2>1. segs' = written(Count(io))
    BY DEF FlushWrite, Count
  <2> QED
    BY <1>1, <1>2, <2>1, Writer, WrittenFacts, ZenonT(40)
<1>5. NoRace => LastLSN(io') = Lsn(Buf(log)[Count(io)])
  BY <1>1, <1>3 DEF Sound, Order, Marks
<1>6. Count(io) <= Count(io)
  BY <1>2
<1>7. Sound(log, segs', control, io', proc, Len(spent), discarded, acked, NoRace)
  BY <1>1, <1>2, <1>3, <1>4, <1>5, <1>6, Wrote, ZenonT(40) DEF Sound
<1> QED
  BY <1>7 DEF Inv, NoRace, FlushWrite, ghosts

\* The log after the first k records of the buffer have left it.
LEMMA ConsumeFacts ==
    ASSUME NEW l \in Logs, NEW k \in Nat, k <= Len(Buf(l)), HoldLen(l) # 0 => k <= HoldOff(l)
    PROVE  /\ IsConsumed(l, consume(l, k), k) /\ DurableLSN(consume(l, k)) = DurableLSN(l)
           /\ Latched(consume(l, k)) = Latched(l) /\ consume(l, k).nonceCur = l.nonceCur
           /\ consume(l, k).nonceLim = l.nonceLim /\ consume(l, k).nonceHigh = l.nonceHigh
<1>1. Buf(l) \in Seq(Records) /\ HoldOff(l) \in Nat /\ HoldLen(l) \in Nat
  BY LogTypes
<1>2. PICK rest \in Seq(Records) : rest = SubSeq(Buf(l), k + 1, Len(Buf(l)))
  BY <1>1, SuffixFacts, Zenon
<1>3. PICK o \in Nat : o = IF HoldLen(l) > 0 THEN HoldOff(l) - k ELSE HoldOff(l)
  BY <1>1
<1>4. PICK end \in Nat : end = l.segOff + k
  BY SMTT(30) DEF Logs
<1>5. PICK rec : rec = SubSeq(l.buf, k + 1, Len(l.buf)) /\ rec = rest
  BY <1>2, Zenon DEF Buf
<1>6. (IF l.hold.len > 0 THEN l.hold.off - k ELSE l.hold.off) = o
  BY <1>3 DEF HoldLen, HoldOff
<1>7. PICK m : m = [l EXCEPT !.segOff = end, !.buf = rest, !.hold.off = o]
  OBVIOUS
<1>8. consume(l, k) = m
  BY <1>4, <1>5, <1>6, <1>7, ZenonT(40) DEF consume
<1>9. /\ m \in Logs /\ m.segOff = end /\ m.buf = rest
      /\ m.hold.off = o /\ m.hold.len = l.hold.len /\ m.hold.lsn = l.hold.lsn /\ m.hold.prevLast = l.hold.prevLast
      /\ m.durabilityErr = l.durabilityErr /\ m.durableLSN = l.durableLSN
      /\ m.nextLSN = l.nextLSN /\ m.redoLSN = l.redoLSN /\ m.bufLast = l.bufLast /\ m.segID = l.segID
      /\ m.nonceCur = l.nonceCur /\ m.nonceLim = l.nonceLim /\ m.nonceHigh = l.nonceHigh
  BY <1>7, Zenon DEF Logs, Holds
<1>10. IsConsumed(l, m, k)
  BY <1>2, <1>3, <1>4, <1>9, ZenonT(40)
     DEF IsConsumed, NextLSN, RedoLSN, Buf, BufLast, SegID, SegOff, HoldOff, HoldLen, HoldLSN, HoldPrev
<1> QED
  BY <1>8, <1>9, <1>10, Zenon DEF Latched, DurableLSN

\* The log with the latch.
LEMMA LatchFacts ==
    ASSUME NEW l, NEW k, NEW m \in Logs, IsConsumed(l, m, k), NEW x, x = [m EXCEPT !.durabilityErr = TRUE]
    PROVE  /\ x \in Logs /\ IsConsumed(l, x, k) /\ DurableLSN(x) = DurableLSN(m) /\ Latched(x)
           /\ x.nonceCur = m.nonceCur /\ x.nonceLim = m.nonceLim /\ x.nonceHigh = m.nonceHigh
<1>1. /\ x \in Logs /\ x.segOff = m.segOff /\ x.buf = m.buf /\ x.hold = m.hold /\ x.durabilityErr /\ x.durableLSN = m.durableLSN
      /\ x.nextLSN = m.nextLSN /\ x.redoLSN = m.redoLSN /\ x.bufLast = m.bufLast /\ x.segID = m.segID
      /\ x.nonceCur = m.nonceCur /\ x.nonceLim = m.nonceLim /\ x.nonceHigh = m.nonceHigh
  BY Zenon DEF Logs
<1> QED
  BY <1>1, Zenon DEF IsConsumed, NextLSN, RedoLSN, Buf, BufLast, SegID, SegOff, HoldOff, HoldLen, HoldLSN, HoldPrev, Latched, DurableLSN

\* The log with a new durableLSN.
LEMMA DurableFacts ==
    ASSUME NEW l, NEW k, NEW m \in Logs, IsConsumed(l, m, k), NEW d \in Nat, NEW x, x = [m EXCEPT !.durableLSN = d]
    PROVE  /\ x \in Logs /\ IsConsumed(l, x, k) /\ DurableLSN(x) = d /\ Latched(x) = Latched(m)
           /\ x.nonceCur = m.nonceCur /\ x.nonceLim = m.nonceLim /\ x.nonceHigh = m.nonceHigh
<1>1. /\ x \in Logs /\ x.segOff = m.segOff /\ x.buf = m.buf /\ x.hold = m.hold /\ x.durabilityErr = m.durabilityErr /\ x.durableLSN = d
      /\ x.nextLSN = m.nextLSN /\ x.redoLSN = m.redoLSN /\ x.bufLast = m.bufLast /\ x.segID = m.segID
      /\ x.nonceCur = m.nonceCur /\ x.nonceLim = m.nonceLim /\ x.nonceHigh = m.nonceHigh
  BY SMTT(30) DEF Logs
<1> QED
  BY <1>1, Zenon DEF IsConsumed, NextLSN, RedoLSN, Buf, BufLast, SegID, SegOff, HoldOff, HoldLen, HoldLSN, HoldPrev, Latched, DurableLSN

\* NoIO is no write in progress.
LEMMA NoWriteFacts == NoWrite(NoIO)
BY DEF NoWrite, NoIO, Writes, By, Written, Count

\* What fail leaves once the write has ended with the log l and the segments g.
LEMMA Failed ==
    ASSUME Inv, NEW p \in Proc, NEW l \in Logs, NEW g, fail(p, l), Pc(proc[p]) # "held",
           Sound(l, g, control, NoIO, proc, Len(spent), discarded, acked, NoRace), Nonces(l, control, spent)
    PROVE  /\ Sound(log', g, control, io', proc', Len(spent), discarded, acked, NoRace)
           /\ Nonces(log', control, spent)
<1>1. SameLog(l, log') /\ Nonces(log', control, spent)
  <2>1. log' = [l EXCEPT !.flushErr = TRUE] \/ log' = l
    BY DEF fail
  <2>2. CASE log' = l
    BY <2>2 DEF SameLog
  <2>3. CASE log' = [l EXCEPT !.flushErr = TRUE]
    BY <2>3, ErrorNoted, NoncesKept, ZenonT(40)
  <2> QED
    BY <2>1, <2>2, <2>3
<1>2. Sound(log', g, control, NoIO, proc, Len(spent), discarded, acked, NoRace)
  BY <1>1, SoundReplaced, Zenon
<1>3. PICK ps : ps = [proc EXCEPT ![p] = Idle]
  BY ZenonT(40)
<1>4. ps \in [Proc -> Threads] /\ \A q \in Proc : Follows(proc[q], ps[q])
  BY <1>3, IdleFacts DEF Follows, Inv, Sound, Shape, Typed
<1>5. Sound(log', g, control, NoIO, ps, Len(spent), discarded, acked, NoRace)
  <2>1. By(NoIO) = NoProc
    BY NoWriteFacts DEF NoWrite
  <2> QED
    BY <1>2, <1>4, <2>1, SoundFollows, ZenonT(40)
<1>6. Sound(log', g, control, NoIO, broadcast(ps), Len(spent), discarded, acked, NoRace)
  BY <1>5, Woken, Zenon
<1>7. proc' = broadcast(ps) /\ io' = NoIO
  BY <1>3, SMTT(30) DEF fail
<1> QED
  BY <1>1, <1>6, <1>7, Zenon

\* The state in which a write ends.
LEMMA Writing ==
    ASSUME Inv, NEW p \in Proc, By(io) = p
    PROVE  /\ log \in Logs /\ io \in Writes /\ proc \in [Proc -> Threads] /\ Pc(proc[p]) # "held" /\ By(io) # NoProc
           /\ Shape(log, segs, control, io, proc) /\ Nonces(log, control, spent)
           /\ Sound(log, segs, control, io, proc, Len(spent), discarded, acked, NoRace)
           /\ HoldLen(log) # 0 => Count(io) <= HoldOff(log)
BY Writer, NoProcAssumption DEF Inv, Sound, Shape, Typed, Captured

\* The segments as they are, when a write ends that has not reached them.
LEMMA SegsKept ==
    ASSUME Inv
    PROVE  /\ IsSynced(log, segs, segs)
           /\ ~Written(io) /\ ~Latched(log) => Synced(segs[SegID(log)]) = Len(Recs(segs[SegID(log)]))
<1>1. Typed(log, segs, control, io, proc) /\ Ended(log, segs, io) /\ log \in Logs
  BY DEF Inv, Sound, Shape, Typed
<1>2. ~Written(io) => Copied(io) = 0
  BY DEF Copied
<1>3. SegOff(log) \in Nat
  BY <1>1, LogTypes
<1> QED
  BY <1>1, <1>2, <1>3 DEF IsSynced, Typed, Ended

\* The write fails before anything reaches the segment: the log latches.
LEMMA FlushNotWrittenInv == ASSUME Inv, NEW p \in Proc, FlushNotWritten(p) PROVE Inv'
<1>1. By(io) = p /\ ~Written(io)
  BY DEF FlushNotWritten, By, Written
<1>2. Copied(io) = 0
  BY <1>1 DEF Copied
<1>3. IsConsumed(log, log, 0)
  <2>1. Buf(log) \in Seq(Records) /\ HoldOff(log) \in Nat /\ SegOff(log) \in Nat /\ log \in Logs
    BY <1>1, Writing, LogTypes
  <2>2. Buf(log) = SubSeq(Buf(log), 0 + 1, Len(Buf(log)))
    BY <2>1, Whole
  <2>3. SegOff(log) = SegOff(log) + 0 /\ HoldOff(log) = IF HoldLen(log) > 0 THEN HoldOff(log) - 0 ELSE HoldOff(log)
    BY <2>1
  <2> QED
    BY <2>1, <2>2, <2>3, ZenonT(40) DEF IsConsumed
<1>4. /\ IsSynced(log, segs, segs)
      /\ ~Latched(log) => Synced(segs[SegID(log)]) = Len(Recs(segs[SegID(log)]))
  BY <1>1, SegsKept
<1>5. Sound(log, segs, control, NoIO, proc, Len(spent), discarded, acked, NoRace)
  BY <1>1, <1>2, <1>3, <1>4, Writing, NoWriteFacts, Ends, ZenonT(40) DEF Sound
<1>6. fail(p, log) /\ segs' = segs /\ Spend("fault")
  BY DEF FlushNotWritten
<1>7. /\ Sound(log', segs, control, io', proc', Len(spent), discarded, acked, NoRace)
      /\ Nonces(log', control, spent)
  BY <1>1, <1>5, <1>6, Writing, Failed, ZenonT(40)
<1>8. budget' \in Workload /\ NoRace' = NoRace
  BY <1>6, Spending DEF Inv
<1> QED
  BY <1>6, <1>7, <1>8 DEF Inv, fail, ghosts

\* The sync fails: the log latches, and what was written stays in the segment.
LEMMA FlushSyncFailsInv == ASSUME Inv, NEW p \in Proc, FlushSyncFails(p) PROVE Inv'
<1>1. By(io) = p /\ Written(io)
  BY DEF FlushSyncFails, By, Written
<1>2. Copied(io) = Count(io) /\ Count(io) \in Nat /\ Count(io) <= Len(Buf(log))
  BY <1>1, Writing, Writer, WriteTypes DEF Copied
<1>3. PICK m : m = consume(log, Count(io))
  OBVIOUS
<1>4. PICK l : l = [m EXCEPT !.durabilityErr = TRUE]
  BY Zenon
<1>5. /\ IsConsumed(log, m, Count(io)) /\ m \in Logs /\ DurableLSN(m) = DurableLSN(log)
      /\ m.nonceCur = log.nonceCur /\ m.nonceLim = log.nonceLim /\ m.nonceHigh = log.nonceHigh
  BY <1>1, <1>2, <1>3, Writing, ConsumeFacts DEF IsConsumed
<1>6. /\ l \in Logs /\ IsConsumed(log, l, Copied(io)) /\ DurableLSN(l) = DurableLSN(log) /\ Latched(l)
      /\ l.nonceCur = log.nonceCur /\ l.nonceLim = log.nonceLim /\ l.nonceHigh = log.nonceHigh
  <2>1. /\ l \in Logs /\ IsConsumed(log, l, Count(io)) /\ DurableLSN(l) = DurableLSN(m) /\ Latched(l)
        /\ l.nonceCur = m.nonceCur /\ l.nonceLim = m.nonceLim /\ l.nonceHigh = m.nonceHigh
    BY <1>4, <1>5, LatchFacts
  <2> QED
    BY <1>2, <1>5, <2>1, ZenonT(40)
<1>7. Sound(l, segs, control, NoIO, proc, Len(spent), discarded, acked, NoRace)
  BY <1>1, <1>6, SegsKept, Writing, NoWriteFacts, Ends, ZenonT(40) DEF Sound
<1>8. fail(p, l) /\ segs' = segs /\ Spend("fault")
  BY <1>3, <1>4 DEF FlushSyncFails, Count
<1>9. Nonces(l, control, spent)
  BY <1>1, <1>6, Writing, NoncesKept
<1>10. /\ Sound(log', segs, control, io', proc', Len(spent), discarded, acked, NoRace)
       /\ Nonces(log', control, spent)
  BY <1>1, <1>6, <1>7, <1>8, <1>9, Writing, Failed, ZenonT(40)
<1>11. budget' \in Workload /\ NoRace' = NoRace
  BY <1>8, Spending DEF Inv
<1> QED
  BY <1>8, <1>10, <1>11 DEF Inv, fail, ghosts

\* A short write. The k records that reached the segment leave the buffer.
LEMMA ShortWrite ==
    ASSUME Inv, NEW p \in Proc, By(io) = p, ~Written(io), NEW k \in Nat, k < Count(io), NEW h, h = written(k),
           NEW l \in Logs, IsConsumed(log, l, k), DurableLSN(l) = DurableLSN(log), Latched(l)
    PROVE  Sound(l, h, control, NoIO, proc, Len(spent), discarded, acked, NoRace)
<1>1. /\ Count(io) \in Nat /\ Count(io) <= Len(Buf(log)) /\ ~Latched(log) /\ SegOff(log) \in Nat
      /\ Buf(log) \in Seq(Records) /\ log \in Logs
  BY Writing, Writer, WriteTypes, LogTypes
<1>2. k <= Len(Buf(log)) /\ k <= Count(io)
  BY <1>1
<1>3. IsWritten(log, segs, h, k)
  BY <1>1, <1>2, WrittenFacts
<1>4. CASE k = 0
  <2>1. Copied(io) = k
    BY <1>4 DEF Copied
  <2>2. IsSynced(log, segs, h)
    <3>1. PICK s \in Seq(Records), o \in Nat : s = Recs(segs[SegID(log)]) /\ o = SegOff(log)
      BY <1>1, SegmentTypes, SMTT(30) DEF Inv, Sound, Shape, Typed
    <3>2. Len(s) = o
      BY <1>1, <1>4, <2>1, <3>1, SMTT(30) DEF Inv, Sound, Shape, Ended
    <3>3. SubSeq(s, 1, o) = s /\ SubSeq(Buf(log), 1, 0) = <<>> /\ s \o <<>> = s
      BY <1>1, <3>2, Whole, Split
    <3>4. Recs(h[SegID(log)]) = s
      BY <1>3, <1>4, <3>1, <3>3, ZenonT(40) DEF IsWritten
    <3> QED
      BY <1>3, <3>1, <3>4, ZenonT(40) DEF IsWritten, IsSynced
  <2> QED
    BY <2>1, <2>2, Writing, NoWriteFacts, Ends, ZenonT(40) DEF Sound
<1>5. CASE k # 0
  <2>1. PICK lsn \in Nat : lsn = Lsn(Buf(log)[k])
    <3>1. Buf(log)[k] \in Records
      BY <1>1, <1>2, <1>5
    <3> QED
      BY <3>1, RecordTypes
  <2>2. PICK e : e = [by |-> p, n |-> k, last |-> lsn, written |-> TRUE]
    BY Zenon
  <2>3. e \in Writes /\ By(e) = By(io) /\ Count(e) = k /\ Written(e) /\ LastLSN(e) = Lsn(Buf(log)[k]) /\ Copied(e) = k
    BY <2>1, <2>2 DEF Writes, By, Count, Written, LastLSN, Copied
  <2>4. 0 < k
    BY <1>5
  <2>5. Sound(log, h, control, e, proc, Len(spent), discarded, acked, NoRace)
    BY <1>2, <1>3, <2>3, <2>4, Writing, Wrote, ZenonT(40) DEF Sound
  <2>6. Shape(log, h, control, e, proc)
    BY <2>5 DEF Sound
  <2>7. IsSynced(log, h, h)
    BY <2>6 DEF Shape, Typed, IsSynced
  <2>8. By(e) # NoProc
    BY <2>3, Writing
  <2> QED
    BY <2>3, <2>5, <2>6, <2>7, <2>8, NoWriteFacts, Ends, ZenonT(40) DEF Sound
<1> QED
  BY <1>4, <1>5

\* The write stops halfway: the log latches.
LEMMA FlushShortWriteInv == ASSUME Inv, NEW p \in Proc, FlushShortWrite(p) PROVE Inv'
<1>1. By(io) = p /\ ~Written(io) /\ Spend("fault")
  BY DEF FlushShortWrite, By, Written
<1>2. Count(io) \in Nat /\ Count(io) <= Len(Buf(log))
  BY <1>1, Writing, Writer, WriteTypes
<1>3. PICK k \in 0..Count(io) - 1 : segs' = written(k) /\ fail(p, [consume(log, k) EXCEPT !.durabilityErr = TRUE])
  BY Zenon DEF FlushShortWrite, Count
<1>4. k \in Nat /\ k < Count(io) /\ k <= Len(Buf(log))
  BY <1>2, <1>3
<1>5. HoldLen(log) # 0 => k <= HoldOff(log)
  <2>1. HoldOff(log) \in Nat
    BY <1>1, Writing, LogTypes
  <2>2. HoldLen(log) # 0 => Count(io) <= HoldOff(log)
    BY <1>1, Writing
  <2> QED
    BY <1>2, <1>4, <2>1, <2>2
<1>6. PICK m : m = consume(log, k)
  OBVIOUS
<1>7. PICK l : l = [m EXCEPT !.durabilityErr = TRUE]
  BY ZenonT(40)
<1>8. /\ IsConsumed(log, m, k) /\ m \in Logs /\ DurableLSN(m) = DurableLSN(log)
      /\ m.nonceCur = log.nonceCur /\ m.nonceLim = log.nonceLim /\ m.nonceHigh = log.nonceHigh
  BY <1>1, <1>4, <1>5, <1>6, Writing, ConsumeFacts DEF IsConsumed
<1>9. /\ l \in Logs /\ IsConsumed(log, l, k) /\ DurableLSN(l) = DurableLSN(m) /\ Latched(l)
      /\ l.nonceCur = m.nonceCur /\ l.nonceLim = m.nonceLim /\ l.nonceHigh = m.nonceHigh
  BY <1>7, <1>8, LatchFacts
<1>10. Sound(l, segs', control, NoIO, proc, Len(spent), discarded, acked, NoRace)
  BY <1>1, <1>3, <1>4, <1>8, <1>9, ShortWrite
<1>11. Nonces(l, control, spent)
  BY <1>1, <1>8, <1>9, Writing, NoncesKept
<1>12. fail(p, l)
  BY <1>3, <1>6, <1>7
<1>13. /\ Sound(log', segs', control, io', proc', Len(spent), discarded, acked, NoRace)
       /\ Nonces(log', control, spent)
  BY <1>1, <1>9, <1>10, <1>11, <1>12, Writing, Failed, ZenonT(40)
<1>14. budget' \in Workload /\ NoRace' = NoRace
  BY <1>1, Spending DEF Inv
<1> QED
  BY <1>12, <1>13, <1>14 DEF Inv, fail, ghosts

-----------------------------------------------------------------------------
(* Rotation *)

\* The new segment.
LEMMA EmptySegmentFacts ==
    ASSUME NEW lsn \in Nat \ {0}
    PROVE  /\ emptySegment(lsn) \in Segments /\ Start(emptySegment(lsn)) = lsn
           /\ Recs(emptySegment(lsn)) = <<>> /\ Synced(emptySegment(lsn)) = 0
<1>1. <<>> \in Seq(Records)
  OBVIOUS
<1> QED
  BY <1>1 DEF emptySegment, Segments, Start, Recs, Synced

\* The log and the control file that rotate leaves.
LEMMA NewSegmentFacts ==
    ASSUME NEW l \in Logs, NEW m, m = newSegment(l), NEW d, d = controlOf(m)
    PROVE  /\ IsRotated(l, m) /\ d \in Controls
           /\ NextLSN(d) = NextLSN(l) /\ DurableLSN(d) = DurableLSN(l) /\ RedoLSN(d) = RedoLSN(l)
           /\ m.nonceCur = l.nonceCur /\ m.nonceLim = l.nonceLim /\ m.nonceHigh = l.nonceHigh /\ d.nonceHigh = l.nonceHigh
<1>1. PICK id \in Nat, off \in Nat : id = l.segID + 1 /\ off = 0
  BY DEF Logs
<1>2. PICK x : x = [l EXCEPT !.segID = id, !.segOff = off] /\ x = m
  BY <1>1 DEF newSegment
<1>3. /\ m \in Logs /\ m.segOff = 0 /\ m.buf = l.buf /\ m.hold = l.hold /\ m.durabilityErr = l.durabilityErr
      /\ m.durableLSN = l.durableLSN
      /\ m.nextLSN = l.nextLSN /\ m.redoLSN = l.redoLSN /\ m.bufLast = l.bufLast /\ m.segID = id
      /\ m.nonceCur = l.nonceCur /\ m.nonceLim = l.nonceLim /\ m.nonceHigh = l.nonceHigh
  <2>1. /\ x \in Logs /\ x.segOff = off /\ x.buf = l.buf /\ x.hold = l.hold /\ x.durabilityErr = l.durabilityErr
        /\ x.durableLSN = l.durableLSN
        /\ x.nextLSN = l.nextLSN /\ x.redoLSN = l.redoLSN /\ x.bufLast = l.bufLast /\ x.segID = id
        /\ x.nonceCur = l.nonceCur /\ x.nonceLim = l.nonceLim /\ x.nonceHigh = l.nonceHigh
    BY <1>2, ZenonT(40) DEF Logs
  <2> QED
    BY <1>1, <1>2, <2>1, Zenon
<1>4. d \in Controls /\ d.nextLSN = m.nextLSN /\ d.durableLSN = m.durableLSN /\ d.redoLSN = m.redoLSN /\ d.nonceHigh = m.nonceHigh
  BY <1>3 DEF controlOf, Controls, Logs
<1>5. IsRotated(l, m)
  BY <1>1, <1>3, ZenonT(40)
     DEF IsRotated, NextLSN, DurableLSN, RedoLSN, Buf, BufLast, SegID, SegOff, HoldOff, HoldLen, HoldLSN, HoldPrev, Latched
<1> QED
  BY <1>3, <1>4, <1>5, Zenon DEF NextLSN, DurableLSN, RedoLSN

\* A thread that rotates the segment has something to buffer, and may.
LEMMA Rotating ==
    ASSUME NEW l, NEW g, NEW c, NEW f, NEW ps, Shape(l, g, c, f, ps), NEW p \in Proc, Pc(ps[p]) = "rotate"
    PROVE  /\ ps[p] \in Threads /\ Kind(ps[p]) \in {"append", "images", "held"}
           /\ Pending(ps[p]) \in Seq(Records) /\ Pending(ps[p]) # <<>>
           /\ Pending(ps[p]) = IF Kind(ps[p]) = "images" THEN Recs(ps[p]) ELSE <<Last(Recs(ps[p]))>>
           /\ Kind(ps[p]) = "held" => HoldLen(l) = 0
<1>1. ps[p] \in Threads /\ WellFormed(ps[p]) /\ Held(l, ps) /\ \A q \in Proc : WellFormed(ps[q])
  BY DEF Shape, Typed
<1>2. Pending(ps[p]) \in Seq(Records) /\ Kind(ps[p]) \in {"append", "images", "held"}
  BY <1>1, PendingTypes, ThreadTypes
<1>3. Recs(ps[p]) # <<>>
  BY <1>1 DEF WellFormed
<1>4. Pending(ps[p]) = IF Kind(ps[p]) = "images" THEN Recs(ps[p]) ELSE <<Last(Recs(ps[p]))>>
  BY DEF Pending
<1>5. Kind(ps[p]) = "held" => HoldLen(l) = 0
  <2>1. \A q \in Proc : Pc(ps[q]) = "held" => Kind(ps[q]) = "held"
    BY <1>1 DEF WellFormed
  <2> QED
    BY <1>1, <2>1 DEF Held
<1>6. Pending(ps[p]) # <<>>
  <2>1. \A r : <<r>> # <<>>
    OBVIOUS
  <2> QED
    BY <1>3, <1>4, <2>1
<1> QED
  BY <1>1, <1>2, <1>4, <1>5, <1>6

\* The thread p opens the next segment and buffers its records behind it.
LEMMA RotatesAndBuffers ==
    ASSUME NEW l \in Logs, NEW g, NEW c, NEW f, NEW ps, NEW n, NEW gone, NEW a, NEW calm, NEW used,
           Sound(l, g, c, f, ps, n, gone, a, calm), Nonces(l, c, used), By(f) = NoProc, ~Latched(l),
           NEW p \in Proc, Pc(ps[p]) = "rotate",
           NEW h, Extended(g, h, SegID(l) + 1, NextLSN(l)),
           NEW y \in Threads, Buffers(ps[p], y)
    PROVE  /\ Sound(buffered(newSegment(l), Kind(ps[p]), Pending(ps[p])), h, controlOf(newSegment(l)), f,
                    [ps EXCEPT ![p] = y], n, gone, a, calm)
           /\ Nonces(buffered(newSegment(l), Kind(ps[p]), Pending(ps[p])), controlOf(newSegment(l)), used)
<1>1. PICK m, d, qs, x : /\ m = newSegment(l) /\ d = controlOf(m) /\ qs = [ps EXCEPT ![p] = y]
                         /\ x = buffered(m, Kind(ps[p]), Pending(ps[p]))
  BY Zenon
<1>2. /\ IsRotated(l, m) /\ d \in Controls /\ m \in Logs
      /\ NextLSN(d) = NextLSN(l) /\ DurableLSN(d) = DurableLSN(l) /\ RedoLSN(d) = RedoLSN(l)
      /\ m.nonceCur = l.nonceCur /\ m.nonceLim = l.nonceLim /\ m.nonceHigh = l.nonceHigh /\ d.nonceHigh = l.nonceHigh
  BY <1>1, NewSegmentFacts DEF IsRotated
<1>3. Shape(l, g, c, f, ps)
  BY DEF Sound
<1>4. Sound(m, h, d, f, ps, n, gone, a, calm)
  BY <1>2, <1>3, Rotated, ZenonT(40) DEF Sound
<1>5. Shape(m, h, d, f, ps)
  BY <1>4 DEF Sound
<1>6. /\ Kind(ps[p]) \in {"append", "images", "held"} /\ Pending(ps[p]) \in Seq(Records) /\ Pending(ps[p]) # <<>>
      /\ Kind(ps[p]) = "held" => HoldLen(m) = 0
  BY <1>5, Rotating, ZenonT(40)
<1>7. IsBuffered(m, x, Kind(ps[p]), Pending(ps[p]))
  BY <1>1, <1>2, <1>6, BufferedFacts
<1>8. By(f) # p /\ (Kind(y) = "held" => HoldLen(m) = 0)
  BY <1>6, NoProcAssumption DEF Buffers
<1>9. Sound(x, h, d, f, qs, n, gone, a, calm)
  <2>1. /\ Shape(x, h, d, f, qs)
        /\ \A k, b : Placed(m, h, f, ps, k, b) => Placed(x, h, f, qs, k, b)
        /\ \A b : Order(m, h, d, f, ps, b) => Order(x, h, d, f, qs, b)
    <3>1. qs = [ps EXCEPT ![p] = y]
      BY <1>1
    <3> QED
      BY <1>5, <1>7, <1>8, <3>1, Buffered, ZenonT(30)
  <2> QED
    BY <1>4, <2>1, ZenonT(40) DEF Sound
<1>10. x.nonceCur = m.nonceCur /\ x.nonceLim = m.nonceLim /\ x.nonceHigh = m.nonceHigh
  BY <1>1, <1>2, <1>6, BufferedNonces
<1>11. d.nonceHigh = c.nonceHigh
  BY <1>2 DEF Nonces
<1>12. Nonces(x, d, used)
  BY <1>2, <1>10, <1>11, NoncesKept, ZenonT(40)
<1> QED
  BY <1>1, <1>9, <1>12

\* The records of a thread that rotates, in the words of the invariant.
LEMMA PendingIs == ASSUME NEW p \in Proc, Pc(proc[p]) = "rotate" PROVE pending(p) = Pending(proc[p])
<1>1. Pending(proc[p]) = IF Kind(proc[p]) = "images" THEN Recs(proc[p]) ELSE <<Last(Recs(proc[p]))>>
  BY DEF Pending
<1> QED
  BY <1>1 DEF pending, Kind, Recs

\* What the thread does next.
LEMMA AfterAppendFacts ==
    ASSUME NEW p \in Proc, proc \in [Proc -> Threads], Pc(proc[p]) = "rotate", Pending(proc[p]) # <<>>
    PROVE  \E y \in Threads : Buffers(proc[p], y) /\ afterAppend(p) = [proc EXCEPT ![p] = y]
<1>1. PICK pc \in {"appended", "images", "held"} : pc = IF Kind(proc[p]) = "append" THEN "appended" ELSE Kind(proc[p])
  BY ThreadTypes
<1>2. PICK y : y = [proc[p] EXCEPT !.pc = pc]
  BY Zenon
<1>3. y \in Threads /\ Pc(y) = pc /\ Kind(y) = Kind(proc[p]) /\ Recs(y) = Recs(proc[p])
  <2>1. proc[p] \in Threads /\ pc \in {"idle", "appended", "images", "encrypt", "rotate", "held", "flush", "wait", "woken"}
    BY <1>1
  <2> QED
    BY <1>2, <2>1, Moved, ZenonT(40)
<1>4. Buffers(proc[p], y)
  BY <1>1, <1>3 DEF Buffers
<1>5. afterAppend(p) = [proc EXCEPT ![p] = y]
  BY <1>1, <1>2, ThreadTypes DEF afterAppend, Pc, Kind
<1> QED
  BY <1>3, <1>4, <1>5, ZenonT(40)

\* A rotation that finds nothing to flush.
LEMMA RotateEmptyInv == ASSUME Inv, NEW p \in Proc, RotateEmpty(p) PROVE Inv'
<1>1. /\ log \in Logs /\ proc \in [Proc -> Threads] /\ By(io) = NoProc /\ ~Latched(log) /\ Pc(proc[p]) = "rotate"
      /\ Shape(log, segs, control, io, proc) /\ Nonces(log, control, spent)
      /\ Sound(log, segs, control, io, proc, Len(spent), discarded, acked, NoRace)
  BY DEF Inv, Sound, Shape, Typed, RotateEmpty, flushing, By, Latched, Pc
<1>2. PICK y \in Threads : Buffers(proc[p], y) /\ proc' = [proc EXCEPT ![p] = y]
  <2>1. Pending(proc[p]) # <<>>
    BY <1>1, Rotating, ZenonT(40)
  <2>2. proc' = afterAppend(p)
    BY DEF RotateEmpty
  <2> QED
    BY <1>1, <2>1, <2>2, AfterAppendFacts, ZenonT(40)
<1>3. control' = controlOf(newSegment(log)) /\ log' = buffered(newSegment(log), Kind(proc[p]), Pending(proc[p]))
  <2>1. pending(p) = Pending(proc[p])
    BY <1>1, PendingIs
  <2> QED
    BY <2>1 DEF RotateEmpty, rotate, Kind
<1>4. Extended(segs, segs', SegID(log) + 1, NextLSN(log))
  <2>1. PICK id \in Nat, lsn \in Nat \ {0} : id = SegID(log) + 1 /\ lsn = NextLSN(log)
    BY <1>1, LogTypes, SMTT(30)
  <2>2. segs' = [s \in DOMAIN segs \cup {id} |-> IF s = id THEN emptySegment(lsn) ELSE segs[s]]
    BY <2>1, ZenonT(40) DEF RotateEmpty, rotate, SegID, NextLSN
  <2>3. segs \in [DOMAIN segs -> Segments] /\ id \notin DOMAIN segs
    BY <1>1, <2>1, LogTypes, SMTT(30) DEF Shape, Typed
  <2>4. /\ DOMAIN segs' = DOMAIN segs \cup {id} /\ segs' \in [DOMAIN segs' -> Segments]
        /\ \A s \in DOMAIN segs : segs'[s] = segs[s]
        /\ segs'[id] = emptySegment(lsn)
    BY <2>2, <2>3, EmptySegmentFacts
  <2> QED
    BY <2>1, <2>4, EmptySegmentFacts, ZenonT(40) DEF Extended
<1>5. /\ Sound(log', segs', control', io, proc', Len(spent), discarded, acked, NoRace)
      /\ Nonces(log', control', spent)
  BY <1>1, <1>2, <1>3, <1>4, RotatesAndBuffers, ZenonT(40)
<1> QED
  BY <1>5 DEF Inv, NoRace, RotateEmpty, ghosts

\* The greater of two numbers.
LEMMA MaxOfTwo == ASSUME NEW a \in Nat, NEW b \in Nat PROVE Max({a, b}) \in {a, b} /\ Max({a, b}) >= a /\ Max({a, b}) >= b
<1>1. \E x \in {a, b} : \A y \in {a, b} : x >= y
  <2>1. CASE a >= b
    BY <2>1
  <2>2. CASE b >= a
    BY <2>2
  <2> QED
    BY <2>1, <2>2
<1> QED
  BY <1>1 DEF Max

\* The log once the write is synced.
syncedLog == [consume(log, Count(io)) EXCEPT !.durableLSN = Max({@, LastLSN(io)})]

\* The segments once it is.
syncedSegs == [segs EXCEPT ![SegID(log)].synced = Len(Recs(segs[SegID(log)]))]

\* The write is synced: its records leave the buffer and are durable.
LEMMA SyncedFacts ==
    ASSUME Inv, NEW p \in Proc, By(io) = p, Written(io), NEW l, l = syncedLog, NEW h, h = syncedSegs
    PROVE  /\ Sound(l, h, control, NoIO, proc, Len(spent), discarded, acked, NoRace)
           /\ l \in Logs /\ SegID(l) = SegID(log) /\ ~Latched(l) /\ Nonces(l, control, spent)
           /\ DOMAIN h = DOMAIN segs /\ h \in [DOMAIN h -> Segments] /\ \A s \in DOMAIN segs : s # SegID(log) => h[s] = segs[s]
<1>1. /\ Copied(io) = Count(io) /\ Count(io) \in Nat /\ Count(io) <= Len(Buf(log)) /\ LastLSN(io) \in Nat
      /\ DurableLSN(log) \in Nat /\ ~Latched(log)
  BY Writing, Writer, WriteTypes, LogTypes DEF Copied
<1>2. PICK m : m = consume(log, Count(io))
  OBVIOUS
<1>3. /\ IsConsumed(log, m, Count(io)) /\ m \in Logs /\ DurableLSN(m) = DurableLSN(log) /\ Latched(m) = Latched(log)
      /\ m.nonceCur = log.nonceCur /\ m.nonceLim = log.nonceLim /\ m.nonceHigh = log.nonceHigh
  BY <1>1, <1>2, Writing, ConsumeFacts, SMTT(30) DEF IsConsumed
<1>4. PICK d \in Nat : d = Max({DurableLSN(log), LastLSN(io)}) /\ (d = DurableLSN(log) \/ d = LastLSN(io))
  BY <1>1, MaxOfTwo
<1>5. l = [m EXCEPT !.durableLSN = d]
  BY <1>2, <1>3, <1>4 DEF DurableLSN, syncedLog
<1>6. /\ l \in Logs /\ IsConsumed(log, l, Count(io)) /\ DurableLSN(l) = d /\ Latched(l) = Latched(m)
      /\ l.nonceCur = m.nonceCur /\ l.nonceLim = m.nonceLim /\ l.nonceHigh = m.nonceHigh
  <2>1. PICK x : x = [m EXCEPT !.durableLSN = d] /\ x = l
    BY <1>5
  <2>2. /\ x \in Logs /\ IsConsumed(log, x, Count(io)) /\ DurableLSN(x) = d /\ Latched(x) = Latched(m)
        /\ x.nonceCur = m.nonceCur /\ x.nonceLim = m.nonceLim /\ x.nonceHigh = m.nonceHigh
    BY <1>3, <2>1, DurableFacts
  <2> QED
    BY <2>1, <2>2, ZenonT(40)
<1>7. PICK id \in DOMAIN segs, k \in Nat : id = SegID(log) /\ k = Len(Recs(segs[id]))
  <2>1. SegID(log) \in DOMAIN segs /\ segs[SegID(log)] \in Segments
    BY DEF Inv, Sound, Shape, Typed
  <2>2. Len(Recs(segs[SegID(log)])) \in Nat
    BY <2>1, SegmentTypes
  <2> QED
    BY <2>1, <2>2, ZenonT(40)
<1>8. segs \in [DOMAIN segs -> Segments] /\ segs[id] \in Segments
  BY <1>7 DEF Inv, Sound, Shape, Typed
<1> DEFINE x == [segs[id] EXCEPT !.synced = k]
<1>9. h = [segs EXCEPT ![id] = x]
  BY <1>7, Zenon DEF syncedSegs
<1>10. x \in Segments /\ Recs(x) = Recs(segs[id]) /\ Start(x) = Start(segs[id]) /\ Synced(x) = k
  <2>1. \A y \in Segments : LET z == [y EXCEPT !.synced = k]
                            IN z \in Segments /\ Recs(z) = Recs(y) /\ Start(z) = Start(y) /\ Synced(z) = k
    BY DEF Segments, Recs, Start, Synced
  <2> QED
    BY <1>8, <2>1, ZenonT(40)
<1> HIDE DEF x
<1>11. DOMAIN h = DOMAIN segs /\ h \in [DOMAIN h -> Segments] /\ h[id] = x /\ \A s \in DOMAIN segs : s # id => h[s] = segs[s]
  BY <1>8, <1>9, <1>10
<1>12. IsSynced(log, segs, h) /\ Synced(h[SegID(log)]) = Len(Recs(segs[SegID(log)]))
  BY <1>7, <1>10, <1>11, ZenonT(40) DEF IsSynced
<1>13. IsConsumed(log, l, Copied(io))
  BY <1>1, <1>6
<1>14. Sound(l, h, control, NoIO, proc, Len(spent), discarded, acked, NoRace)
  <2>1. \/ DurableLSN(l) = DurableLSN(log)
        \/ DurableLSN(l) = LastLSN(io) /\ Written(io) /\ Synced(h[SegID(log)]) = Len(Recs(segs[SegID(log)]))
    BY <1>4, <1>6, <1>12
  <2>2. /\ Shape(l, h, control, NoIO, proc)
        /\ \A n, gone : Placed(log, segs, io, proc, n, gone) => Placed(l, h, NoIO, proc, n, gone)
        /\ \A a : Order(log, segs, control, io, proc, a) => Order(l, h, control, NoIO, proc, a)
    BY <1>12, <1>13, <2>1, Writing, NoWriteFacts, Ends, ZenonT(40)
  <2> QED
    BY <2>2, Writing, ZenonT(40) DEF Sound
<1>15. Nonces(l, control, spent)
  BY <1>3, <1>6, Writing, NoncesKept, SMTT(30)
<1>16. ~Latched(l) /\ SegID(l) = SegID(log)
  BY <1>1, <1>3, <1>6 DEF IsConsumed
<1> QED
  BY <1>6, <1>7, <1>11, <1>14, <1>15, <1>16

\* flushLocked has synced: durableLSN moves, the waiting threads are woken, and
\* a thread that flushed in order to rotate goes on in the new segment.
LEMMA FlushSyncInv == ASSUME Inv, NEW p \in Proc, FlushSync(p) PROVE Inv'
<1>1. By(io) = p /\ Written(io)
  BY DEF FlushSync, By, Written
<1>2. PICK l, h : l = syncedLog /\ h = syncedSegs
  OBVIOUS
<1>3. /\ Sound(l, h, control, NoIO, proc, Len(spent), discarded, acked, NoRace)
      /\ l \in Logs /\ SegID(l) = SegID(log) /\ ~Latched(l) /\ Nonces(l, control, spent)
      /\ DOMAIN h = DOMAIN segs /\ h \in [DOMAIN h -> Segments] /\ \A s \in DOMAIN segs : s # SegID(log) => h[s] = segs[s]
  BY <1>1, <1>2, SyncedFacts
<1>4. /\ proc' = broadcast(afterAppend(p)) /\ io' = NoIO /\ UNCHANGED <<ghosts, budget>>
      /\ IF proc[p].pc = "rotate"
         THEN /\ segs' = [rotate(l).segs EXCEPT ![SegID(log)] = h[SegID(log)]]
              /\ control' = rotate(l).control
              /\ log' = buffered(rotate(l).log, proc[p].kind, pending(p))
         ELSE segs' = h /\ log' = [l EXCEPT !.flushErr = FALSE] /\ UNCHANGED control
  BY <1>2, ZenonT(40) DEF FlushSync, syncedLog, syncedSegs, Count, LastLSN, SegID, Recs
<1>5. Pc(proc[p]) \in {"flush", "rotate"} /\ proc \in [Proc -> Threads] /\ By(NoIO) = NoProc
  BY <1>1, Writer, Writing, NoWriteFacts DEF NoWrite
<1>6. CASE Pc(proc[p]) = "flush"
  <2>1. segs' = h /\ log' = [l EXCEPT !.flushErr = FALSE] /\ control' = control
    BY <1>4, <1>6 DEF Pc
  <2>2. afterAppend(p) = proc
    <3>1. \A x \in Threads : [x EXCEPT !.pc = x.pc] = x
      BY DEF Threads
    <3>2. afterAppend(p) = [proc EXCEPT ![p] = [proc[p] EXCEPT !.pc = proc[p].pc]]
      BY <1>6 DEF afterAppend, Pc
    <3>3. [proc[p] EXCEPT !.pc = proc[p].pc] = proc[p]
      BY <1>5, <3>1
    <3> QED
      BY <1>5, <3>2, <3>3
  <2>3. SameLog(l, log') /\ Nonces(log', control, spent)
    BY <1>3, <2>1, ErrorNoted, NoncesKept, ZenonT(40)
  <2>4. Sound(log', h, control, NoIO, proc, Len(spent), discarded, acked, NoRace)
    BY <1>3, <2>3, SoundReplaced, ZenonT(40)
  <2>5. Sound(log', h, control, NoIO, broadcast(proc), Len(spent), discarded, acked, NoRace)
    BY <2>4, Woken, ZenonT(40)
  <2>6. Sound(log', segs', control', io', proc', Len(spent), discarded, acked, NoRace) /\ Nonces(log', control', spent)
    BY <1>4, <2>1, <2>2, <2>3, <2>5, ZenonT(40)
  <2> QED
    BY <1>4, <2>6 DEF Inv, NoRace, ghosts
<1>7. CASE Pc(proc[p]) = "rotate"
  <2>1. /\ segs' = [rotate(l).segs EXCEPT ![SegID(log)] = h[SegID(log)]]
        /\ control' = controlOf(newSegment(l)) /\ log' = buffered(newSegment(l), Kind(proc[p]), Pending(proc[p]))
    BY <1>4, <1>7, PendingIs DEF Pc, Kind, rotate
  <2>2. Shape(l, h, control, NoIO, proc)
    BY <1>3 DEF Sound
  <2>3. Pending(proc[p]) # <<>>
    BY <1>7, <2>2, Rotating, ZenonT(40)
  <2>4. PICK y \in Threads : Buffers(proc[p], y) /\ afterAppend(p) = [proc EXCEPT ![p] = y]
    BY <1>5, <1>7, <2>3, AfterAppendFacts, ZenonT(40)
  <2>5. Extended(h, segs', SegID(l) + 1, NextLSN(l))
    <3>1. PICK id \in Nat, new \in Nat, lsn \in Nat \ {0} : id = SegID(l) /\ new = SegID(l) + 1 /\ lsn = NextLSN(l)
      BY <1>3, LogTypes
    <3>2. rotate(l).segs = [s \in DOMAIN segs \cup {new} |-> IF s = new THEN emptySegment(lsn) ELSE segs[s]]
      BY <3>1 DEF rotate, SegID, NextLSN
    <3>3. id \in DOMAIN segs /\ new \notin DOMAIN segs /\ new # id
      BY <1>3, <2>2, <3>1, LogTypes, SMTT(30) DEF Shape, Typed
    <3>4. segs' = [rotate(l).segs EXCEPT ![id] = h[id]]
      BY <1>3, <2>1, <3>1
    <3>5. /\ DOMAIN segs' = DOMAIN h \cup {new} /\ segs' \in [DOMAIN segs' -> Segments]
          /\ \A s \in DOMAIN h : segs'[s] = h[s]
          /\ segs'[new] = emptySegment(lsn)
      BY <1>3, <3>1, <3>2, <3>3, <3>4, EmptySegmentFacts
    <3> QED
      BY <3>1, <3>5, EmptySegmentFacts, ZenonT(40) DEF Extended
  <2>6. /\ Sound(log', segs', control', NoIO, afterAppend(p), Len(spent), discarded, acked, NoRace)
        /\ Nonces(log', control', spent)
    <3>1. /\ Sound(buffered(newSegment(l), Kind(proc[p]), Pending(proc[p])), segs', controlOf(newSegment(l)), NoIO,
                   [proc EXCEPT ![p] = y], Len(spent), discarded, acked, NoRace)
          /\ Nonces(buffered(newSegment(l), Kind(proc[p]), Pending(proc[p])), controlOf(newSegment(l)), spent)
      BY <1>3, <1>5, <1>7, <2>4, <2>5, RotatesAndBuffers, ZenonT(40)
    <3> QED
      BY <2>1, <2>4, <3>1, ZenonT(40)
  <2>7. Sound(log', segs', control', NoIO, broadcast(afterAppend(p)), Len(spent), discarded, acked, NoRace)
    BY <2>6, Woken, ZenonT(40)
  <2>8. Sound(log', segs', control', io', proc', Len(spent), discarded, acked, NoRace)
    BY <1>4, <2>7, Zenon
  <2> QED
    BY <1>4, <2>6, <2>8 DEF Inv, NoRace, ghosts
<1> QED
  BY <1>5, <1>6, <1>7

=============================================================================
