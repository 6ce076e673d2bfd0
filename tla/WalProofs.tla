------------------------------ MODULE WalProofs -----------------------------
(***************************************************************************)
(* Checkpoints and restarts keep the invariant of the write-ahead log, and *)
(* so do all its steps; what recovery needs follows: an acknowledged       *)
(* record is found again, a discarded one never is, LSNs and nonces belong *)
(* to one record.                                                          *)
(***************************************************************************)
EXTENDS WalFlush, WellFoundedInduction

\* A set of naturals has a least element.
LEMMA LeastNat == ASSUME NEW T, T \subseteq Nat, T # {} PROVE \E x \in T : \A y \in T : x <= y
<1> DEFINE R == OpToRel(<, Nat)
<1>1. IsWellFoundedOn(R, Nat)
  BY NatLessThanWellFounded
<1>2. \A x, y \in Nat : y < x => <<y, x>> \in R
  BY DEF OpToRel
<1> HIDE DEF R
<1>3. PICK x \in T : \A y \in T : ~ (<<y, x>> \in R)
  BY <1>1, WFMin, ZenonT(40)
<1>4. \A y \in T : ~ (y < x)
  BY <1>2, <1>3, ZenonT(40)
<1> QED
  BY <1>4

\* A bounded set of naturals has a greatest element.
LEMMA GreatestNat ==
    ASSUME NEW T, T \subseteq Nat, T # {}, NEW b \in Nat, \A x \in T : x <= b
    PROVE  \E x \in T : \A y \in T : x >= y
<1> DEFINE U == {b - x : x \in T}
<1>1. U \subseteq Nat /\ U # {}
  <2>1. ASSUME NEW x \in T PROVE b - x \in Nat
    OBVIOUS
  <2> QED
    BY <2>1, Zenon
<1>2. PICK z \in U : \A y \in U : z <= y
  BY <1>1, LeastNat, ZenonT(40)
<1>3. PICK x \in T : z = b - x
  OBVIOUS
<1>4. ASSUME NEW y \in T PROVE x >= y
  <2>1. b - x <= b - y
    BY <1>2, <1>3
  <2>2. x \in Nat /\ y \in Nat
    OBVIOUS
  <2> QED
    BY <2>1, <2>2
<1> QED
  BY <1>4

-----------------------------------------------------------------------------
(* Checkpoints, segments and restarts *)

\* InstallCheckpoint moves the redo boundary forward, at most to the LSN after
\* durableLSN.
LEMMA InstallCheckpointInv == ASSUME Inv, InstallCheckpoint PROVE Inv'
<1>1. /\ log \in Logs /\ Shape(log, segs, control, io, proc) /\ Nonces(log, control, spent)
      /\ Sound(log, segs, control, io, proc, Len(spent), discarded, acked, NoRace)
      /\ RedoLSN(log) \in Nat \ {0} /\ DurableLSN(log) \in Nat
  BY LogTypes, SMTT(30) DEF Inv, Sound, Shape, Typed
<1>2. PICK redo \in Nat : redo >= RedoLSN(log) /\ log' = [log EXCEPT !.redoLSN = redo] /\ control' = controlOf(log')
  BY <1>1 DEF InstallCheckpoint, RedoLSN, DurableLSN
<1>3. redo \in Nat \ {0} /\ RedoLSN(log) <= redo
  BY <1>1, <1>2
<1>4. PICK m : m = [log EXCEPT !.redoLSN = redo] /\ m = log'
  BY <1>2
<1>5. /\ m \in Logs /\ m.segOff = log.segOff /\ m.buf = log.buf /\ m.hold = log.hold /\ m.durabilityErr = log.durabilityErr
      /\ m.durableLSN = log.durableLSN
      /\ m.nextLSN = log.nextLSN /\ m.redoLSN = redo /\ m.bufLast = log.bufLast /\ m.segID = log.segID
      /\ m.nonceCur = log.nonceCur /\ m.nonceLim = log.nonceLim /\ m.nonceHigh = log.nonceHigh
  BY <1>1, <1>3, <1>4, ZenonT(40) DEF Logs
<1>6. PICK d : d = controlOf(m) /\ d = control'
  BY <1>2, <1>4
<1>7. d \in Controls /\ d.nextLSN = m.nextLSN /\ d.durableLSN = m.durableLSN /\ d.redoLSN = m.redoLSN /\ d.nonceHigh = m.nonceHigh
  BY <1>5, <1>6 DEF controlOf, Controls, Logs
<1>8. IsCheckpointed(log, m, d)
  BY <1>3, <1>5, <1>7, ZenonT(40)
     DEF IsCheckpointed, NextLSN, DurableLSN, RedoLSN, Buf, BufLast, SegID, SegOff, HoldOff, HoldLen, HoldLSN, HoldPrev, Latched
<1>9. Sound(m, segs, d, io, proc, Len(spent), discarded, acked, NoRace)
  <2>1. acked \in SUBSET Records
    BY DEF Inv
  <2>2. /\ Shape(m, segs, d, io, proc)
        /\ \A n, gone : Placed(log, segs, io, proc, n, gone) => Placed(m, segs, io, proc, n, gone)
        /\ Order(log, segs, control, io, proc, acked) => Order(m, segs, d, io, proc, acked)
    BY <1>1, <1>8, <2>1, Checkpointed, ZenonT(40)
  <2> QED
    BY <1>1, <2>2, ZenonT(40) DEF Sound
<1>10. Nonces(m, d, spent)
  <2>1. d.nonceHigh = control.nonceHigh
    BY <1>1, <1>5, <1>7 DEF Nonces
  <2> QED
    BY <1>1, <1>5, <2>1, NoncesKept
<1>11. budget' \in Workload /\ NoRace' = NoRace
  BY Spending DEF Inv, InstallCheckpoint
<1>12. UNCHANGED <<segs, io, proc, ghosts>>
  BY DEF InstallCheckpoint
<1> QED
  BY <1>4, <1>6, <1>9, <1>10, <1>11, <1>12, SMTT(30) DEF Inv, ghosts

\* Max is the greatest element.
LEMMA GreatestIs ==
    ASSUME NEW T, T \subseteq Nat, NEW x \in T, \A y \in T : y <= x
    PROVE  Max(T) = x
<1>1. \A y \in T : x >= y
  OBVIOUS
<1>2. Max(T) \in T /\ \A y \in T : Max(T) >= y
  BY <1>1, ZenonT(40) DEF Max
<1>3. PICK z \in Nat : z = Max(T) /\ z >= x /\ z \in T
  BY <1>2, Zenon
<1> QED
  BY <1>1, <1>3

\* Min is the least element.
LEMMA LeastIs ==
    ASSUME NEW T, T \subseteq Nat, T # {}
    PROVE  Min(T) \in T /\ \A y \in T : Min(T) <= y
BY LeastNat, ZenonT(40) DEF Min

\* The last segment is the one in use, and every other has a successor.
LEMMA LastSegment ==
    ASSUME NEW l, NEW g, NEW c, NEW f, NEW ps, Typed(l, g, c, f, ps), NEW h, DOMAIN h = DOMAIN g
    PROVE  /\ Max(DOMAIN h) = SegID(l)
           /\ \A s \in DOMAIN g : s < SegID(l) =>
                \E q \in DOMAIN g : /\ q > s /\ successorStart(h, s) = Start(h[q])
                                    /\ \A t \in DOMAIN g : t > s => q <= t
<1>1. DOMAIN h \subseteq Nat /\ SegID(l) \in DOMAIN h /\ \A s \in DOMAIN h : s <= SegID(l)
  BY DEF Typed
<1>2. Max(DOMAIN h) = SegID(l)
  BY <1>1, GreatestIs
<1>3. ASSUME NEW s \in DOMAIN g, s < SegID(l)
      PROVE  \E q \in DOMAIN g : /\ q > s /\ successorStart(h, s) = Start(h[q])
                                 /\ \A t \in DOMAIN g : t > s => q <= t
  <2>1. PICK T : T = {q \in DOMAIN h : q > s}
    BY Zenon
  <2>2. T \subseteq Nat /\ T # {}
    BY <1>1, <1>3, <2>1
  <2>3. Min(T) \in T /\ \A y \in T : Min(T) <= y
    BY <2>2, LeastIs, ZenonT(40)
  <2>4. successorStart(h, s) = Start(h[Min(T)])
    BY <2>1 DEF successorStart, Start
  <2> QED
    BY <2>1, <2>3, <2>4
<1> QED
  BY <1>2, <1>3

\* DiscardCheckpointedSegments removes the segments whose successor starts at or
\* below the redo boundary.
LEMMA DiscardInv == ASSUME Inv, DiscardCheckpointedSegments PROVE Inv'
<1>1. /\ Shape(log, segs, control, io, proc) /\ Typed(log, segs, control, io, proc)
      /\ Sound(log, segs, control, io, proc, Len(spent), discarded, acked, NoRace)
  BY DEF Inv, Sound, Shape
<1>2. IsDiscarded(log, segs, segs')
  <2>1. segs' = [s \in DOMAIN segs \ obsolete(RedoLSN(log)) |-> segs[s]]
    BY DEF DiscardCheckpointedSegments, RedoLSN
  <2>2. Max(DOMAIN segs) = SegID(log)
    BY <1>1, LastSegment
  <2>3. SegID(log) \notin obsolete(RedoLSN(log))
    <3>1. SegID(log) \in Nat
      BY <1>1, LogTypes DEF Typed
    <3> QED
      BY <2>2, <3>1 DEF obsolete
  <2>4. \A s \in obsolete(RedoLSN(log)) : \E q \in DOMAIN segs : s < q /\ Start(segs[q]) <= RedoLSN(log)
    <3> SUFFICES ASSUME NEW s \in obsolete(RedoLSN(log))
                 PROVE  \E q \in DOMAIN segs : s < q /\ Start(segs[q]) <= RedoLSN(log)
      OBVIOUS
    <3>1. s \in DOMAIN segs /\ s < SegID(log) /\ successorStart(segs, s) <= RedoLSN(log)
      BY <2>2 DEF obsolete
    <3>2. PICK q \in DOMAIN segs : q > s /\ successorStart(segs, s) = Start(segs[q])
      BY <1>1, <3>1, LastSegment
    <3>3. s < q
      BY <1>1, <3>1, <3>2 DEF Typed
    <3> QED
      BY <3>1, <3>2, <3>3
  <2>5. SegID(log) \in DOMAIN segs /\ segs \in [DOMAIN segs -> Segments]
    BY <1>1 DEF Typed
  <2> HIDE DEF obsolete
  <2>6. ASSUME NEW t \in DOMAIN segs, Start(segs[t]) <= RedoLSN(log)
        PROVE  \E s \in DOMAIN segs' : Start(segs'[s]) <= RedoLSN(log)
    <3> DEFINE T == {s \in DOMAIN segs : Start(segs[s]) <= RedoLSN(log)}
    <3>1. T \subseteq Nat /\ T # {} /\ SegID(log) \in Nat /\ \A s \in T : s <= SegID(log)
      BY <1>1, <2>6, LogTypes, ZenonT(40) DEF Typed
    <3>2. PICK s \in T : \A q \in T : s >= q
      BY <3>1, GreatestNat, ZenonT(40)
    <3>3. \A q \in DOMAIN segs : s < q => ~(Start(segs[q]) <= RedoLSN(log))
      BY <1>1, <3>2 DEF Typed
    <3>4. s \notin obsolete(RedoLSN(log))
      BY <2>4, <3>3
    <3> QED
      BY <2>1, <3>4
  <2> QED
    BY <2>1, <2>3, <2>4, <2>5, <2>6, SMTT(30) DEF IsDiscarded
<1>3. Sound(log, segs', control, io, proc, Len(spent), discarded, acked, NoRace)
  BY <1>1, <1>2, Discarded, ZenonT(40) DEF Sound
<1> QED
  BY <1>3 DEF Inv, NoRace, DiscardCheckpointedSegments, ghosts

\* The segments after a power loss.
LEMMA SurvivingFacts ==
    ASSUME Typed(log, segs, control, io, proc), NEW k \in Nat,
           Synced(segs[SegID(log)]) + k <= Len(Recs(segs[SegID(log)])), NEW h, h = surviving(k)
    PROVE  DOMAIN h = DOMAIN segs /\ h \in [DOMAIN h -> Segments] /\ \A s \in DOMAIN segs : IsSurvivor(segs[s], h[s])
<1> DEFINE j(s) == Synced(segs[s]) + IF s = SegID(log) THEN k ELSE 0
           kept(s) == SubSeq(Recs(segs[s]), 1, j(s))
           x(s) == [segs[s] EXCEPT !.recs = kept(s), !.synced = Len(kept(s))]
<1>1. h = [s \in DOMAIN segs |-> x(s)]
  BY Zenon DEF surviving, SegID, Recs, Synced
<1>2. ASSUME NEW s \in DOMAIN segs PROVE x(s) \in Segments /\ IsSurvivor(segs[s], x(s))
  <2>1. /\ segs[s] \in Segments /\ Recs(segs[s]) \in Seq(Records) /\ Synced(segs[s]) \in Nat
        /\ Synced(segs[s]) <= Len(Recs(segs[s]))
    BY SegmentTypes DEF Typed
  <2>2. PICK i \in Nat : i = j(s) /\ Synced(segs[s]) <= i /\ i <= Len(Recs(segs[s]))
    BY <2>1
  <2> HIDE DEF j
  <2>3. kept(s) \in Seq(Records) /\ Len(kept(s)) \in Nat
    <3>1. SubSeq(Recs(segs[s]), 1, i) \in Seq(Records)
      BY <2>1, <2>2, Split
    <3> QED
      BY <2>2, <3>1
  <2>4. Recs(x(s)) = kept(s) /\ Synced(x(s)) = Len(kept(s)) /\ Start(x(s)) = Start(segs[s]) /\ x(s) \in Segments
    <3>1. \A y \in Segments, rs \in Seq(Records), n \in Nat :
             LET z == [y EXCEPT !.recs = rs, !.synced = n]
             IN z \in Segments /\ Recs(z) = rs /\ Start(z) = Start(y) /\ Synced(z) = n
      BY Zenon DEF Segments, Recs, Start, Synced
    <3> HIDE DEF kept
    <3> QED
      BY <2>1, <2>3, <3>1, ZenonT(40)
  <2> HIDE DEF x
  <2>5. Recs(x(s)) = SubSeq(Recs(segs[s]), 1, i)
    BY <2>2, <2>4
  <2> QED
    BY <2>2, <2>4, <2>5, ZenonT(40) DEF IsSurvivor
<1> HIDE DEF x
<1> QED
  BY <1>1, <1>2, SMTT(30)

\* The last LSN that recovery meets.
LEMMA LastScannedFacts ==
    ASSUME Typed(log, segs, control, io, proc), NEW h \in [DOMAIN segs -> Segments], NEW redo,
           NEW last, last = lastScanned(h, redo)
    PROVE  last \in Nat /\ (Recs(h[SegID(log)]) # <<>> => last = Lsn(Last(Recs(h[SegID(log)]))) /\ last # 0)
<1>1. PICK full : full = {s \in scanned(h, redo) : h[s].recs # <<>>}
  BY Zenon
<1>2. last = IF full = {} THEN 0 ELSE Lsn(Last(Recs(h[Max(full)])))
  BY <1>1 DEF lastScanned, Lsn, Recs
<1>3. DOMAIN h = DOMAIN segs /\ DOMAIN segs \subseteq Nat /\ SegID(log) \in DOMAIN segs /\ SegID(log) \in Nat
      /\ \A s \in DOMAIN segs : s <= SegID(log)
  BY LogTypes DEF Typed
<1>4. Max(DOMAIN h) = SegID(log)
  BY <1>3, LastSegment
<1>5. SegID(log) \in scanned(h, redo) /\ scanned(h, redo) \subseteq DOMAIN segs
  BY <1>3, <1>4 DEF scanned
<1>6. full \subseteq DOMAIN segs /\ \A s \in full : Recs(h[s]) # <<>>
  BY <1>1, <1>5 DEF Recs
<1>7. full # {} => Max(full) \in full
  <2>1. full # {} => \E x \in full : \A y \in full : x >= y
    BY <1>3, <1>6, GreatestNat, ZenonT(40)
  <2> QED
    BY <2>1, ZenonT(40) DEF Max
<1>8. \A s \in full : Lsn(Last(Recs(h[s]))) \in Nat \ {0}
  <2> SUFFICES ASSUME NEW s \in full PROVE Lsn(Last(Recs(h[s]))) \in Nat \ {0}
    OBVIOUS
  <2>1. Recs(h[s]) \in Seq(Records) /\ Recs(h[s]) # <<>>
    BY <1>6, SegmentTypes
  <2>2. Last(Recs(h[s])) \in Records
    BY <2>1 DEF Last
  <2> QED
    BY <2>2, RecordTypes
<1>9. last \in Nat
  BY <1>2, <1>7, <1>8
<1>10. ASSUME Recs(h[SegID(log)]) # <<>> PROVE last = Lsn(Last(Recs(h[SegID(log)]))) /\ last # 0
  <2>1. SegID(log) \in full
    BY <1>1, <1>5, <1>10 DEF Recs
  <2>2. full \subseteq Nat /\ \A y \in full : y <= SegID(log)
    BY <1>3, <1>6
  <2>3. Max(full) = SegID(log)
    BY <2>1, <2>2, GreatestIs, ZenonT(40)
  <2> QED
    BY <1>2, <1>8, <2>1, <2>3
<1> QED
  BY <1>9, <1>10

\* The log that Open makes from the control file, before recovery.
openedLog(off) ==
    reserveNonce([nextLSN |-> control.nextLSN, durableLSN |-> control.durableLSN, redoLSN |-> control.redoLSN,
                  nonceCur |-> 0, nonceLim |-> 0, nonceHigh |-> control.nonceHigh, buf |-> <<>>, bufLast |-> 0,
                  segID |-> Max(DOMAIN segs), segOff |-> off, hold |-> NoHold,
                  durabilityErr |-> FALSE, flushErr |-> FALSE])

\* The log that Open makes from the control file.
LEMMA OpenedFacts ==
    ASSUME Inv, NEW off \in Nat, NEW l, l = openedLog(off)
    PROVE  /\ l \in Logs /\ NextLSN(l) = NextLSN(control) /\ DurableLSN(l) = DurableLSN(control)
           /\ RedoLSN(l) = RedoLSN(control) /\ Buf(l) = <<>> /\ SegID(l) = SegID(log) /\ SegOff(l) = off
           /\ l.hold = NoHold /\ ~Latched(l) /\ Nonces(l, controlOf(l), spent)
<1>1. control \in Controls /\ NonceBatch \in Nat \ {0} /\ NoHold \in Holds /\ <<>> \in Seq(Records)
  BY WalAssumption DEF Inv, Sound, Shape, Typed, NoHold, Holds
<1>2. PICK id \in Nat : id = Max(DOMAIN segs) /\ id = SegID(log)
  BY LastSegment, LogTypes, ZenonT(40) DEF Inv, Sound, Shape, Typed
<1>3. PICK cur \in Nat, high \in Nat : cur = control.nonceHigh /\ high = cur + NonceBatch /\ cur <= high
  BY <1>1 DEF Controls
<1>4. l = [nextLSN |-> control.nextLSN, durableLSN |-> control.durableLSN, redoLSN |-> control.redoLSN,
           nonceCur |-> cur, nonceLim |-> high, nonceHigh |-> high, buf |-> <<>>, bufLast |-> 0,
           segID |-> id, segOff |-> off, hold |-> NoHold, durabilityErr |-> FALSE, flushErr |-> FALSE]
  BY <1>2, <1>3, ZenonT(40) DEF openedLog, reserveNonce
<1>5. /\ l \in Logs /\ l.nextLSN = control.nextLSN /\ l.durableLSN = control.durableLSN /\ l.redoLSN = control.redoLSN
      /\ l.buf = <<>> /\ l.segID = id /\ l.segOff = off /\ l.hold = NoHold /\ ~l.durabilityErr
      /\ l.nonceCur = cur /\ l.nonceLim = high /\ l.nonceHigh = high
  BY <1>1, <1>4 DEF Logs, Controls
<1>6. controlOf(l).nonceHigh = high
  BY <1>5 DEF controlOf
<1>7. \A i \in 1..Len(spent) : spent[i] < cur
  <2>1. PICK n \in Nat : n = log.nonceCur /\ n <= cur
    BY <1>3 DEF Inv, Sound, Shape, Typed, Logs, Nonces
  <2>2. spent \in Seq(Nat) /\ \A i \in 1..Len(spent) : spent[i] < n
    BY <2>1 DEF Inv, Nonces
  <2> QED
    BY <2>1, <2>2
<1>8. Nonces(l, controlOf(l), spent)
  <2>1. \A i, j \in 1..Len(spent) : i < j => spent[i] < spent[j]
    BY DEF Inv, Nonces
  <2> QED
    BY <1>3, <1>5, <1>6, <1>7, <2>1, SMTT(30) DEF Nonces
<1> QED
  BY <1>2, <1>5, <1>8, ZenonT(40) DEF NextLSN, DurableLSN, RedoLSN, Buf, SegID, SegOff, Latched

\* AdvanceAfterRecovery: the log goes on after the control file's mark and
\* after the last record the scan met.
LEMMA AdvancedFacts ==
    ASSUME NEW l \in Logs, NEW last \in Nat, NEW m, m = AdvanceAfterRecovery(l, last)
    PROVE  /\ m \in Logs /\ RedoLSN(m) = RedoLSN(l) /\ Buf(m) = Buf(l) /\ SegID(m) = SegID(l)
           /\ SegOff(m) = SegOff(l) /\ m.hold = l.hold /\ Latched(m) = Latched(l)
           /\ m.nonceCur = l.nonceCur /\ m.nonceLim = l.nonceLim /\ m.nonceHigh = l.nonceHigh
           /\ NextLSN(l) <= NextLSN(m) /\ (DurableLSN(l) < NextLSN(l) => DurableLSN(m) < NextLSN(m))
           /\ last < NextLSN(m)
<1>1. PICK n \in Nat \ {0}, d \in Nat : n = l.nextLSN /\ d = l.durableLSN
  BY DEF Logs
<1>2. PICK next \in Nat \ {0} : next = (IF last = 0 THEN n ELSE last + 1) /\ last < next
  BY <1>1
<1>3. next - 1 \in Nat
  OBVIOUS
<1>4. PICK a \in Nat \ {0} : a = Max({n, next}) /\ a >= n /\ a >= next
  BY MaxOfTwo
<1>5. PICK b \in Nat : b = Max({d, next - 1}) /\ b \in {d, next - 1}
  BY <1>3, MaxOfTwo
<1>6. m = [l EXCEPT !.nextLSN = a, !.durableLSN = b]
  BY <1>1, <1>2, <1>4, <1>5, ZenonT(40) DEF AdvanceAfterRecovery
<1>7. PICK x : x = [l EXCEPT !.nextLSN = a, !.durableLSN = b] /\ x = m
  BY <1>6
<1>8. /\ x \in Logs /\ x.nextLSN = a /\ x.durableLSN = b /\ x.redoLSN = l.redoLSN /\ x.buf = l.buf /\ x.segID = l.segID
      /\ x.segOff = l.segOff /\ x.hold = l.hold /\ x.durabilityErr = l.durabilityErr
      /\ x.nonceCur = l.nonceCur /\ x.nonceLim = l.nonceLim /\ x.nonceHigh = l.nonceHigh
  BY <1>7, ZenonT(40) DEF Logs
<1>9. n <= a /\ last < a /\ (d < n => b < a)
  BY <1>2, <1>4, <1>5
<1> QED
  BY <1>1, <1>7, <1>8, <1>9, ZenonT(40) DEF RedoLSN, Buf, SegID, SegOff, Latched, NextLSN, DurableLSN

\* A power loss at any moment, Open, the scan and AdvanceAfterRecovery.
LEMMA ReopenInv == ASSUME Inv, Reopen PROVE Inv'
<1>1. /\ Shape(log, segs, control, io, proc) /\ Typed(log, segs, control, io, proc) /\ control \in Controls
      /\ Sound(log, segs, control, io, proc, Len(spent), discarded, acked, NoRace)
      /\ Max(DOMAIN segs) = SegID(log) /\ SegID(log) \in DOMAIN segs
  BY LastSegment, ZenonT(40) DEF Inv, Sound, Shape, Typed
<1>2. Synced(segs[SegID(log)]) \in Nat /\ Len(Recs(segs[SegID(log)])) \in Nat
  BY <1>1, SegmentTypes DEF Typed
<1>3. PICK k \in Nat :
        /\ Synced(segs[SegID(log)]) + k <= Len(Recs(segs[SegID(log)]))
        /\ segs' = surviving(k)
        /\ control' = controlOf(openedLog(Len(surviving(k)[Max(DOMAIN segs)].recs)))
        /\ log' = AdvanceAfterRecovery(openedLog(Len(surviving(k)[Max(DOMAIN segs)].recs)),
                                       lastScanned(surviving(k), control.redoLSN))
  <2>1. PICK k \in 0..Len(segs[log.segID].recs) - segs[log.segID].synced :
          /\ segs' = surviving(k)
          /\ control' = controlOf(openedLog(Len(surviving(k)[Max(DOMAIN segs)].recs)))
          /\ log' = AdvanceAfterRecovery(openedLog(Len(surviving(k)[Max(DOMAIN segs)].recs)),
                                         lastScanned(surviving(k), control.redoLSN))
    BY Zenon DEF Reopen, openedLog
  <2>2. k \in Nat /\ Synced(segs[SegID(log)]) + k <= Len(Recs(segs[SegID(log)]))
    BY <1>2 DEF SegID, Recs, Synced
  <2> QED
    BY <2>1, <2>2, ZenonT(40)
<1>4. PICK h : h = surviving(k) /\ h = segs'
  BY <1>3
<1>5. DOMAIN h = DOMAIN segs /\ h \in [DOMAIN segs -> Segments] /\ \A s \in DOMAIN segs : IsSurvivor(segs[s], h[s])
  BY <1>1, <1>3, <1>4, SurvivingFacts, SMTT(30)
<1>6. PICK off \in Nat : off = Len(surviving(k)[Max(DOMAIN segs)].recs) /\ off = Len(Recs(h[SegID(log)]))
  <2>1. Len(Recs(h[SegID(log)])) \in Nat
    BY <1>1, <1>5, SegmentTypes
  <2> QED
    BY <1>1, <1>4, <2>1 DEF Recs
<1>7. PICK l : l = openedLog(off)
  OBVIOUS
<1>8. /\ l \in Logs /\ NextLSN(l) = NextLSN(control) /\ DurableLSN(l) = DurableLSN(control)
      /\ RedoLSN(l) = RedoLSN(control) /\ Buf(l) = <<>> /\ SegID(l) = SegID(log) /\ SegOff(l) = off
      /\ l.hold = NoHold /\ ~Latched(l) /\ Nonces(l, controlOf(l), spent)
  BY <1>7, OpenedFacts
<1>9. PICK last : last = lastScanned(h, control.redoLSN)
  OBVIOUS
<1>10. last \in Nat /\ (Recs(h[SegID(log)]) # <<>> => last = Lsn(Last(Recs(h[SegID(log)]))))
  BY <1>1, <1>5, <1>9, LastScannedFacts
<1>11. PICK m : m = AdvanceAfterRecovery(l, last)
  OBVIOUS
<1>12. /\ m \in Logs /\ RedoLSN(m) = RedoLSN(l) /\ Buf(m) = Buf(l) /\ SegID(m) = SegID(l)
       /\ SegOff(m) = SegOff(l) /\ m.hold = l.hold /\ Latched(m) = Latched(l)
       /\ m.nonceCur = l.nonceCur /\ m.nonceLim = l.nonceLim /\ m.nonceHigh = l.nonceHigh
       /\ NextLSN(l) <= NextLSN(m) /\ (DurableLSN(l) < NextLSN(l) => DurableLSN(m) < NextLSN(m))
       /\ last < NextLSN(m)
  BY <1>8, <1>10, <1>11, AdvancedFacts, SMTT(30)
<1>13. PICK d : d = controlOf(l)
  OBVIOUS
<1>14. d \in Controls /\ NextLSN(d) = NextLSN(l) /\ DurableLSN(d) = DurableLSN(l) /\ RedoLSN(d) = RedoLSN(l)
  BY <1>8, <1>13 DEF controlOf, Controls, Logs, NextLSN, DurableLSN, RedoLSN
<1>15. control' = d /\ log' = m
  BY <1>3, <1>4, <1>6, <1>7, <1>9, <1>11, <1>13, ZenonT(40)
<1>16. HoldOff(m) = 0 /\ HoldLen(m) = 0
  BY <1>8, <1>12 DEF HoldOff, HoldLen, NoHold
<1>17. IsReopened(log, segs, control, m, h, d)
  BY <1>5, <1>6, <1>8, <1>10, <1>12, <1>14, <1>16, ZenonT(40) DEF IsReopened
<1>18. proc' = [p \in Proc |-> Idle] /\ io' = NoIO /\ UNCHANGED ghosts /\ Spend("crash")
  BY DEF Reopen
<1>19. Sound(m, h, d, NoIO, proc', Len(spent), discarded, acked, NoRace)
  <2>1. /\ Shape(m, h, d, NoIO, proc')
        /\ \A n, gone : Placed(log, segs, io, proc, n, gone) => Placed(m, h, NoIO, proc', n, gone)
        /\ \A a : Order(log, segs, control, io, proc, a) => Order(m, h, d, NoIO, proc', a)
    BY <1>1, <1>17, <1>18, NoWriteFacts, Reopened, ZenonT(30)
  <2> QED
    BY <1>1, <2>1, ZenonT(40) DEF Sound
<1>20. Nonces(m, d, spent)
  BY <1>8, <1>12, <1>13, NoncesKept, ZenonT(40)
<1>21. budget' \in Workload /\ NoRace' = NoRace
  BY <1>18, Spending, SMTT(30) DEF Inv
<1> QED
  BY <1>4, <1>15, <1>18, <1>19, <1>20, <1>21 DEF Inv, ghosts

-----------------------------------------------------------------------------
(* The invariant *)

\* Create leaves a log that satisfies it.
LEMMA InitInv == Init => Inv
<1> SUFFICES ASSUME Init PROVE Inv
  OBVIOUS
<1>1. budget \in Workload /\ spent = <<>> /\ acked = {} /\ discarded = {} /\ Len(spent) = 0 /\ spent \in Seq(Nat)
  BY WorkloadsAssumption DEF Init
<1>2. PICK lim \in Nat \ {0} : lim = 1 + NonceBatch /\ 1 <= lim
  BY WalAssumption
<1>3. NoHold \in Holds /\ <<>> \in Seq(Records) /\ NoHold.off = 0 /\ NoHold.len = 0
  BY DEF NoHold, Holds
<1>4. PICK l : l = log /\ l = [nextLSN |-> 1, durableLSN |-> 0, redoLSN |-> 1, nonceCur |-> 1, nonceLim |-> lim,
                               nonceHigh |-> lim, buf |-> <<>>, bufLast |-> 0, segID |-> 1, segOff |-> 0, hold |-> NoHold,
                               durabilityErr |-> FALSE, flushErr |-> FALSE]
  BY <1>2 DEF Init
<1>5. /\ l \in Logs /\ l.nextLSN = 1 /\ l.durableLSN = 0 /\ l.redoLSN = 1 /\ l.nonceCur = 1 /\ l.nonceLim = lim
      /\ l.nonceHigh = lim /\ l.buf = <<>> /\ l.segID = 1 /\ l.segOff = 0 /\ l.hold = NoHold /\ ~l.durabilityErr
  BY <1>3, <1>4, SMTT(30) DEF Logs
<1>6. PICK d : d = control /\ d \in Controls /\ d.nextLSN = 1 /\ d.durableLSN = 0 /\ d.redoLSN = 1 /\ d.nonceHigh = lim
  BY <1>4, <1>5, SMTT(30) DEF Init, controlOf, Controls
<1>7. PICK g : g = segs /\ g = [s \in {1} |-> emptySegment(1)]
  BY DEF Init
<1>8. emptySegment(1) \in Segments /\ Recs(emptySegment(1)) = <<>> /\ Start(emptySegment(1)) = 1 /\ Synced(emptySegment(1)) = 0
  BY <1>3 DEF emptySegment, Segments, Recs, Start, Synced
<1>9. /\ DOMAIN g = {1} /\ g \in [DOMAIN g -> Segments]
      /\ g[1] \in Segments /\ Recs(g[1]) = <<>> /\ Start(g[1]) = 1 /\ Synced(g[1]) = 0
  BY <1>7, <1>8
<1>10. Safe(g[1]) = <<>> /\ Loose(g[1]) = <<>>
  BY <1>9 DEF Safe, Loose
<1>11. /\ NextLSN(l) = 1 /\ DurableLSN(l) = 0 /\ RedoLSN(l) = 1 /\ Buf(l) = <<>> /\ SegID(l) = 1 /\ SegOff(l) = 0
       /\ HoldOff(l) = 0 /\ HoldLen(l) = 0 /\ ~Latched(l)
       /\ NextLSN(d) = 1 /\ DurableLSN(d) = 0 /\ RedoLSN(d) = 1
  BY <1>3, <1>5, <1>6, SMTT(30) DEF NextLSN, DurableLSN, RedoLSN, Buf, SegID, SegOff, HoldOff, HoldLen, Latched
<1>12. PICK f : f = io /\ NoWrite(f)
  BY NoWriteFacts DEF Init
<1>13. f \in Writes /\ By(f) = NoProc /\ ~Written(f) /\ Count(f) = 0 /\ Copied(f) = 0
  BY <1>12 DEF NoWrite, Copied
<1>14. Done(l, f) = <<>> /\ Rest(l, f) = <<>>
  BY <1>11, <1>13, Whole, SMTT(30) DEF Done, Rest
<1>15. PICK ps : /\ ps = proc /\ ps \in [Proc -> Threads]
                 /\ \A p \in Proc : /\ Recs(ps[p]) = <<>> /\ Pending(ps[p]) = <<>> /\ WellFormed(ps[p])
                                    /\ Kind(ps[p]) = "append" /\ Pc(ps[p]) = "idle"
  BY IdleFacts, SMTT(30) DEF Init
<1>16. Nonces(l, d, <<>>)
  BY <1>2, <1>5, <1>6 DEF Nonces
<1>17. Shape(l, g, d, f, ps)
  <2>1. Typed(l, g, d, f, ps)
    BY <1>5, <1>6, <1>9, <1>11, <1>13, <1>15, SMTT(30) DEF Typed
  <2>2. Ended(l, g, f)
    BY <1>9, <1>11, <1>13, <1>14, NoRecords, SMTT(30) DEF Ended
  <2>3. Captured(l, f, ps) /\ Held(l, ps)
    BY <1>11, <1>13, <1>15 DEF Captured, Held
  <2> QED
    BY <2>1, <2>2, <2>3, SMTT(30) DEF Shape
<1>18. Placed(l, g, f, ps, 0, {})
  BY <1>9, <1>11, <1>14, <1>15, NoRecords, ZenonT(40) DEF Placed, Numbered, Distinct, Waiting, Unwritten, Gone, Owned
<1>19. Order(l, g, d, f, ps, {})
  <2>1. Alone(ps) /\ Sorted(ps) /\ Latest(l, g, ps) /\ Kept(l, g, ps)
    BY <1>9, <1>11, <1>15, NoRecords, ZenonT(40) DEF Alone, Sorted, Latest, Kept
  <2>2. Ascending(l, g, d, f)
    <3>1. \A s \in DOMAIN g : s = 1
      BY <1>9
    <3>2. \A s, q \in DOMAIN g : ~(s < q)
      BY <3>1
    <3>3. 1 <= 1 /\ 0 < 1
      OBVIOUS
    <3> QED
      BY <1>9, <1>11, <1>14, <3>1, <3>2, <3>3, NoRecords, ZenonT(40) DEF Ascending
  <2>3. Marks(l, f) /\ Durable(l, g) /\ Vouched(l, g, d, {})
    <3>1. 0 < 1 /\ 1 <= 1
      OBVIOUS
    <3> QED
      BY <1>9, <1>10, <1>11, <1>13, <3>1, NoRecords, ZenonT(40) DEF Marks, Durable, Vouched
  <2> QED
    BY <2>1, <2>2, <2>3 DEF Order
<1> QED
  BY <1>1, <1>4, <1>6, <1>7, <1>12, <1>15, <1>16, <1>17, <1>18, <1>19, SMTT(30) DEF Inv, Sound

\* Every step keeps it.
LEMMA NextInv == Inv /\ [Next]_vars => Inv'
<1> SUFFICES ASSUME Inv, [Next]_vars PROVE Inv'
  OBVIOUS
<1>1. CASE UNCHANGED vars
  BY <1>1 DEF Inv, NoRace, vars
<1>2. ASSUME NEW p \in Proc, Step(p) PROVE Inv'
  BY <1>2, AppendRecordInv, AppendImagesInv, ReturnInv, FlushReturnInv, FlushWaitInv, FlushWakeInv, FlushRefusedInv,
     FlushStartInv, FlushWriteInv, FlushSyncInv, RotateEmptyInv, Zenon DEF Step
<1>3. ASSUME NEW p \in Proc, Fail(p) PROVE Inv'
  BY <1>3, FlushNotWrittenInv, FlushShortWriteInv, FlushSyncFailsInv, ZenonT(40) DEF Fail
<1>4. CASE Next
  BY <1>2, <1>3, <1>4, AppendRecordInv, AppendHeldBatchInv, ReserveImagesInv, StartFlushInv, ReleaseHoldInv,
     InstallCheckpointInv, DiscardInv, ReopenInv, Zenon DEF Next
<1> QED
  BY <1>1, <1>4

\* The inductive invariant holds of every behaviour, for any number of threads,
\* any size of the segments and of the batches, and any workload.
THEOREM Invariance == Spec => []Inv
BY InitInv, NextInv, PTL DEF Spec

-----------------------------------------------------------------------------
(* What follows from it *)

\* The fields of Log, the segments, the write in progress and the threads have
\* their types; the held record lies inside the buffer and a segment has synced
\* no more than it holds.
THEOREM TypesHold == Spec => []TypeOK
<1>1. Inv => TypeOK
  <2> SUFFICES ASSUME Inv PROVE TypeOK
    OBVIOUS
  <2>1. Typed(log, segs, control, io, proc) /\ Captured(log, io, proc) /\ Held(log, proc) /\ budget \in Workload
    BY DEF Inv, Sound, Shape
  <2>2. /\ log \in Logs /\ io \in Writes /\ proc \in [Proc -> Threads] /\ segs \in [DOMAIN segs -> Segments]
        /\ SegID(log) \in DOMAIN segs
    BY <2>1 DEF Typed
  <2>3. /\ log.nextLSN \in Nat \ {0} /\ log.durableLSN \in Nat /\ log.redoLSN \in Nat \ {0}
        /\ log.buf \in Seq(Records) /\ log.bufLast \in Nat /\ log.segOff \in Nat /\ log.segID \in DOMAIN segs
        /\ log.durabilityErr \in BOOLEAN /\ log.flushErr \in BOOLEAN
    BY <2>2 DEF Logs, SegID
  <2>4. HoldOff(log) + HoldLen(log) <= Len(Buf(log)) /\ HoldOff(log) \in 0..Len(Buf(log)) /\ Len(Buf(log)) \in Nat
    <3>1. HoldOff(log) \in Nat /\ HoldLen(log) \in Nat /\ Len(Buf(log)) \in Nat
      BY <2>2, LogTypes
    <3> QED
      BY <2>1, <3>1 DEF Held
  <2>5. /\ log.hold.off + log.hold.len <= Len(log.buf)
        /\ log.hold \in [off : 0..Len(log.buf), len : Nat, lsn : Nat, prevLast : Nat]
    BY <2>2, <2>4 DEF HoldOff, HoldLen, Buf, Logs, Holds
  <2>6. \A s \in DOMAIN segs : segs[s].recs \in Seq(Records) /\ segs[s].synced \in 0..Len(segs[s].recs)
    BY <2>1, <2>2 DEF Typed, Segments, Synced, Recs
  <2>7. io.by \in Proc \cup {NoProc} /\ io.n \in 0..Len(log.buf)
    BY <2>1, <2>2, <2>4, SMTT(30) DEF Captured, Writes, By, Count, Buf
  <2>8. \A p \in Proc :
          /\ proc[p].pc \in {"idle", "appended", "images", "encrypt", "rotate", "held", "flush", "wait", "woken"}
          /\ proc[p].kind \in {"append", "images", "held"}
          /\ proc[p].recs \in Seq(Records)
    BY <2>2 DEF Threads
  <2> QED
    BY <2>1, <2>3, <2>5, <2>6, <2>7, <2>8, ZenonT(40) DEF TypeOK
<1> QED
  BY <1>1, Invariance, PTL

\* No nonce is used twice: nextNonce saves the control file with a batch of
\* nonces before it hands out the first of them, and Open starts after the
\* saved mark.
THEOREM NoncesFresh == Spec => []NonceFresh
<1>1. Inv => NonceFresh
  <2> SUFFICES ASSUME Inv PROVE NonceFresh
    OBVIOUS
  <2>1. spent \in Seq(Nat) /\ \A i, j \in 1..Len(spent) : i < j => spent[i] < spent[j]
    BY SMTT(30) DEF Inv, Nonces
  <2> QED
    BY <2>1 DEF NonceFresh, IsInjective
<1> QED
  BY <1>1, Invariance, PTL

\* A record that ReleaseHold(false) took back is in no segment, in any workload
\* and whatever flushLocked wrote while it was held.
THEOREM DiscardedStaysOut == Spec => []DiscardedNeverWritten
<1>1. Inv => DiscardedNeverWritten
  <2> SUFFICES ASSUME Inv, NEW s \in DOMAIN segs, NEW r \in discarded, r \in Range(segs[s].recs) PROVE FALSE
    BY DEF DiscardedNeverWritten
  <2>1. Absent(Recs(segs[s]), r)
    BY DEF Inv, Sound, Placed, Gone
  <2>2. Recs(segs[s]) \in Seq(Records) /\ r \in Range(Recs(segs[s]))
    BY SegmentTypes DEF Inv, Sound, Shape, Typed, Recs
  <2> QED
    BY <2>1, <2>2, RangeOf DEF Absent
<1> QED
  BY <1>1, Invariance, PTL

\* Two records of a sequence with ascending LSNs have different LSNs.
LEMMA OneInOrder ==
    ASSUME NEW a \in Seq(Records), NEW r \in Range(a), NEW q \in Range(a), Lsn(r) = Lsn(q), Increasing(a)
    PROVE  r = q
<1>1. PICK i \in 1..Len(a), j \in 1..Len(a) : r = a[i] /\ q = a[j]
  BY RangeOf
<1>2. Lsn(a[i]) \in Nat /\ Lsn(a[j]) \in Nat
  BY RecordTypes
<1>3. i < j => Lsn(a[i]) < Lsn(a[j])
  BY Zenon DEF Increasing
<1>4. j < i => Lsn(a[j]) < Lsn(a[i])
  BY ZenonT(40) DEF Increasing
<1> QED
  BY <1>1, <1>2, <1>3, <1>4

\* The same of two sequences one before the other.
LEMMA NoneInBoth ==
    ASSUME NEW a \in Seq(Records), NEW b \in Seq(Records), NEW r \in Range(a), NEW q \in Range(b), Lsn(r) = Lsn(q),
           Before(a, b)
    PROVE  FALSE
<1>1. PICK i \in 1..Len(a), j \in 1..Len(b) : r = a[i] /\ q = b[j]
  BY RangeOf
<1>2. Lsn(a[i]) < Lsn(b[j])
  BY Zenon DEF Before
<1>3. Lsn(a[i]) \in Nat
  BY RecordTypes
<1> QED
  BY <1>1, <1>2, <1>3, SMTT(30)

\* Without the two races no LSN belongs to two records, in the buffer or on
\* disk, before and after restarts: AdvanceAfterRecovery goes on after
\* everything the scan found.
THEOREM LSNsUnique == Spec => [](~budget.rotationRace => UniqueLSN)
<1>1. Inv => (~budget.rotationRace => UniqueLSN)
  <2> DEFINE all == Range(log.buf) \cup UNION {Range(segs[s].recs) : s \in DOMAIN segs}
  <2> SUFFICES ASSUME Inv, NoRace, NEW r \in all, NEW q \in all, r.lsn = q.lsn PROVE r = q
    BY DEF UniqueLSN, NoRace
  <2>1. /\ Shape(log, segs, control, io, proc) /\ Ascending(log, segs, control, io)
        /\ Typed(log, segs, control, io, proc) /\ Captured(log, io, proc)
    BY DEF Inv, Sound, Order, Shape
  <2>2. log \in Logs /\ io \in Writes /\ Lsn(r) = Lsn(q) /\ SegID(log) \in DOMAIN segs
        /\ \A s \in DOMAIN segs : s \in Nat /\ Recs(segs[s]) \in Seq(Records)
    BY <2>1, SegmentTypes DEF Typed, Lsn
  <2>3. Done(log, io) \in Seq(Records) /\ Rest(log, io) \in Seq(Records) /\ Buf(log) = Done(log, io) \o Rest(log, io)
    BY <2>1, <2>2, WriteFacts, ZenonT(40)
  <2>4. Increasing(Rest(log, io))
    <3>1. Joins(Buf(log), Done(log, io), Rest(log, io))
      BY <2>3, Parts
    <3> QED
      BY <2>1, <3>1, ZenonT(40) DEF Joins, Ascending
  <2>5. ASSUME NEW x \in all PROVE x \in Range(Rest(log, io)) \/ \E s \in DOMAIN segs : x \in Range(Recs(segs[s]))
    <3>1. x \in Range(Buf(log)) \/ \E s \in DOMAIN segs : x \in Range(Recs(segs[s]))
      BY DEF Buf, Recs
    <3>2. Range(Buf(log)) = Range(Done(log, io)) \cup Range(Rest(log, io))
      BY <2>3, RangeConcat
    <3>3. Range(Done(log, io)) \subseteq Range(Recs(segs[SegID(log)]))
      BY <2>1, ZenonT(40) DEF Shape, Ended
    <3> QED
      BY <2>2, <3>1, <3>2, <3>3
  <2>6. CASE r \in Range(Rest(log, io)) /\ q \in Range(Rest(log, io))
    BY <2>2, <2>3, <2>4, <2>6, OneInOrder, SMTT(30)
  <2>7. ASSUME NEW s \in DOMAIN segs, NEW x \in Range(Recs(segs[s])), NEW y \in Range(Rest(log, io)), Lsn(x) = Lsn(y)
        PROVE  FALSE
    <3>1. Before(Recs(segs[s]), Rest(log, io))
      BY <2>1 DEF Ascending
    <3> QED
      BY <2>2, <2>3, <2>7, <3>1, NoneInBoth, SMTT(30)
  <2>8. ASSUME NEW s \in DOMAIN segs, NEW t \in DOMAIN segs, r \in Range(Recs(segs[s])), q \in Range(Recs(segs[t]))
        PROVE  r = q
    <3>1. CASE s = t
      <4>1. Increasing(Recs(segs[s]))
        BY <2>1 DEF Ascending
      <4> QED
        BY <2>2, <2>8, <3>1, <4>1, OneInOrder, SMTT(30)
    <3>2. CASE s < t
      <4>1. Before(Recs(segs[s]), Recs(segs[t]))
        BY <2>1, <3>2 DEF Ascending
      <4> QED
        BY <2>2, <2>8, <4>1, NoneInBoth, SMTT(30)
    <3>3. CASE t < s
      <4>1. Before(Recs(segs[t]), Recs(segs[s]))
        BY <2>1, <3>3 DEF Ascending
      <4> QED
        BY <2>2, <2>8, <4>1, NoneInBoth, SMTT(30)
    <3> QED
      BY <2>2, <3>1, <3>2, <3>3
  <2> HIDE DEF all
  <2> QED
    BY <2>2, <2>5, <2>6, <2>7, <2>8, SMTT(30)
<1> QED
  BY <1>1, Invariance, PTL

\* Without the two races a record for which Flush returned nil is found by the
\* scan of recovery after a power loss at any moment, unless a checkpoint has
\* passed it, and the segment of the redo boundary is still there.
THEOREM AckedIsRecoverable == Spec => [](NoRace => AckedRecoverable)
<1>1. Inv => (NoRace => AckedRecoverable)
  <2> SUFFICES ASSUME Inv, NoRace PROVE AckedRecoverable
    OBVIOUS
  <2>1. /\ Typed(log, segs, control, io, proc) /\ Ascending(log, segs, control, io)
        /\ Vouched(log, segs, control, acked) /\ acked \subseteq Records
    BY DEF Inv, Sound, Order, Shape
  <2>2. /\ DOMAIN segs \subseteq Nat /\ SegID(log) \in DOMAIN segs /\ SegID(log) \in Nat
        /\ RedoLSN(control) \in Nat /\ RedoLSN(log) = RedoLSN(control)
        /\ \A s \in DOMAIN segs : /\ s <= SegID(log) /\ segs[s] \in Segments /\ Synced(segs[s]) <= Len(Recs(segs[s]))
                                  /\ Start(segs[s]) \in Nat /\ Recs(segs[s]) \in Seq(Records)
    BY <2>1, LogTypes, ControlTypes, SegmentTypes, ZenonT(40) DEF Typed, Vouched
  <2>3. /\ DOMAIN Stable = DOMAIN segs
        /\ \A s \in DOMAIN segs : Start(Stable[s]) = Start(segs[s]) /\ Recs(Stable[s]) = Safe(segs[s])
    <3>1. ASSUME NEW s \in DOMAIN segs
          PROVE  /\ Start([segs[s] EXCEPT !.recs = Safe(segs[s])]) = Start(segs[s])
                 /\ Recs([segs[s] EXCEPT !.recs = Safe(segs[s])]) = Safe(segs[s])
      BY <2>2 DEF Segments, Start, Recs
    <3>2. Stable = [s \in DOMAIN segs |-> [segs[s] EXCEPT !.recs = Safe(segs[s])]]
      BY Zenon DEF Stable, Safe, Recs, Synced
    <3> QED
      BY <3>1, <3>2
  <2>4. ASSUME NEW r \in acked, r.lsn >= control.redoLSN PROVE r \in ScanFrom(Stable, control.redoLSN)
    <3>1. Lsn(r) >= RedoLSN(log) /\ Lsn(r) \in Nat
      BY <2>1, <2>2, <2>4, RecordTypes DEF Lsn, RedoLSN
    <3>2. PICK s \in DOMAIN segs : r \in Range(Safe(segs[s]))
      BY <2>1, <3>1, ZenonT(40) DEF Vouched
    <3>3. r \in Range(Recs(segs[s]))
      BY <2>2, <3>2, SegmentFacts, ZenonT(40)
    <3>4. s \in scanned(Stable, RedoLSN(control))
      <4>1. CASE s = SegID(log)
        BY <2>1, <2>3, <4>1, LastSegment, SMTT(30) DEF scanned
      <4>2. CASE s < SegID(log)
        <5>1. PICK q \in DOMAIN segs : q > s /\ successorStart(Stable, s) = Start(Stable[q])
          BY <2>1, <2>3, <4>2, LastSegment, SMTT(30)
        <5>2. Below(Recs(segs[s]), Start(segs[q]))
          <6>1. s < q
            BY <2>2, <5>1
          <6> QED
            BY <2>1, <6>1, ZenonT(40) DEF Ascending
        <5>3. Lsn(r) < Start(segs[q])
          BY <2>2, <3>3, <5>2, RangeOf, SMTT(30) DEF Below
        <5>4. successorStart(Stable, s) > RedoLSN(control)
          BY <2>2, <2>3, <3>1, <5>1, <5>3
        <5> QED
          BY <2>3, <5>4, ZenonT(40) DEF scanned
      <4> QED
        BY <2>2, <4>1, <4>2, SMTT(30)
    <3> QED
      BY <2>3, <2>4, <3>2, <3>4 DEF ScanFrom, Recs, RedoLSN
  <2>5. segs[Min(DOMAIN segs)].start <= control.redoLSN
    <3>1. PICK t \in DOMAIN segs : Start(segs[t]) <= RedoLSN(control)
      BY <2>1, <2>2 DEF Vouched
    <3>2. PICK s \in DOMAIN segs : s = Min(DOMAIN segs) /\ s <= t
      BY <2>2, LeastIs
    <3>3. Start(segs[s]) <= Start(segs[t])
      <4>1. CASE s = t
        BY <2>2, <4>1
      <4>2. CASE s < t
        BY <2>1, <4>2 DEF Ascending
      <4> QED
        BY <2>2, <3>2, <4>1, <4>2
    <3>4. Start(segs[s]) <= RedoLSN(control)
      BY <2>2, <3>1, <3>3
    <3> QED
      BY <3>2, <3>4 DEF Start, RedoLSN
  <2> QED
    BY <2>4, <2>5 DEF AckedRecoverable
<1> QED
  BY <1>1, Invariance, PTL

=============================================================================
