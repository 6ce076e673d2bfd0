------------------------------- MODULE WalDisk ------------------------------
(***************************************************************************)
(* What the steps that reach the disk do to the parts of the invariant: a  *)
(* new segment, a write, a sync, a checkpoint, the removal of segments, a  *)
(* power loss.                                                             *)
(***************************************************************************)
EXTENDS WalSteps

\* A prefix holds what a shorter prefix holds.
LEMMA Prefixes ==
    ASSUME NEW s \in Seq(Records), NEW j \in Nat, NEW k \in Nat, j <= k, k <= Len(s)
    PROVE  /\ SubSeq(s, 1, k) \in Seq(Records)
           /\ \E t \in Seq(Records) : Joins(s, SubSeq(s, 1, k), t)
           /\ Range(SubSeq(s, 1, j)) \subseteq Range(SubSeq(s, 1, k))
<1>1. /\ SubSeq(s, 1, k) \in Seq(Records) /\ SubSeq(s, k + 1, Len(s)) \in Seq(Records)
      /\ s = SubSeq(s, 1, k) \o SubSeq(s, k + 1, Len(s))
  BY Split, ZenonT(40)
<1>2. Joins(s, SubSeq(s, 1, k), SubSeq(s, k + 1, Len(s)))
  BY <1>1, Parts, Zenon
<1>3. PICK u \in Seq(Records), v \in Seq(Records) : u = SubSeq(s, 1, j) /\ v = SubSeq(s, 1, k)
  <2>1. SubSeq(s, 1, j) \in Seq(Records)
    OBVIOUS
  <2> QED
    BY <1>1, <2>1, Zenon
<1>4. Len(u) = j /\ \A i \in 1..j : u[i] = s[i]
  BY <1>3
<1>5. Len(v) = k /\ \A i \in 1..k : v[i] = s[i]
  BY <1>3
<1>6. ASSUME NEW r \in Range(u) PROVE r \in Range(v)
  <2>1. PICK i \in 1..j : r = u[i]
    BY <1>4, <1>6, RangeOf
  <2>2. i \in 1..k /\ r = v[i]
    BY <1>4, <1>5, <2>1
  <2> QED
    BY <1>5, <2>2, RangeOf
<1> QED
  BY <1>1, <1>2, <1>3, <1>6, Zenon

-----------------------------------------------------------------------------
(* A new segment *)

\* The log goes on in the next segment.
IsRotated(l, m) ==
    /\ m \in Logs /\ NextLSN(m) = NextLSN(l) /\ DurableLSN(m) = DurableLSN(l) /\ RedoLSN(m) = RedoLSN(l)
    /\ Buf(m) = Buf(l) /\ BufLast(m) = BufLast(l) /\ SegID(m) = SegID(l) + 1 /\ SegOff(m) = 0
    /\ HoldOff(m) = HoldOff(l) /\ HoldLen(m) = HoldLen(l) /\ HoldLSN(m) = HoldLSN(l) /\ HoldPrev(m) = HoldPrev(l)
    /\ Latched(m) = Latched(l)

\* The segments h are those of g and one more, empty, which starts at lsn.
Extended(g, h, id, lsn) ==
    /\ DOMAIN h = DOMAIN g \cup {id} /\ h \in [DOMAIN h -> Segments]
    /\ \A s \in DOMAIN g : h[s] = g[s]
    /\ Start(h[id]) = lsn /\ Recs(h[id]) = <<>> /\ Synced(h[id]) = 0

\* rotate: a new segment, and the control file with the next LSN.
LEMMA Rotated ==
    ASSUME NEW l, NEW g, NEW c, NEW f, NEW ps, NEW m, NEW h, NEW d \in Controls,
           Shape(l, g, c, f, ps), By(f) = NoProc, ~Latched(l),
           IsRotated(l, m), Extended(g, h, SegID(l) + 1, NextLSN(l)),
           NextLSN(d) = NextLSN(l), DurableLSN(d) = DurableLSN(l), RedoLSN(d) = RedoLSN(l)
    PROVE  /\ Shape(m, h, d, f, ps)
           /\ \A n, gone : Placed(l, g, f, ps, n, gone) => Placed(m, h, f, ps, n, gone)
           /\ \A a : Order(l, g, c, f, ps, a) => Order(m, h, d, f, ps, a)
<1>1. /\ Typed(l, g, c, f, ps) /\ Held(l, ps) /\ Ended(l, g, f) /\ Captured(l, f, ps)
      /\ l \in Logs /\ m \in Logs /\ f \in Writes /\ c \in Controls /\ ps \in [Proc -> Threads]
      /\ \A s \in DOMAIN g : g[s] \in Segments /\ Recs(g[s]) \in Seq(Records) /\ Synced(g[s]) \in Nat /\ Start(g[s]) \in Nat
  BY SegmentTypes DEF Shape, Typed, IsRotated
<1>2. PICK id \in Nat : id = SegID(l)
  BY <1>1, LogTypes
<1>3. DOMAIN g \subseteq Nat /\ id \in DOMAIN g /\ \A s \in DOMAIN g : s <= id
  BY <1>1, <1>2 DEF Typed
<1>4. /\ DOMAIN h = DOMAIN g \cup {id + 1} /\ \A s \in DOMAIN g : h[s] = g[s] /\ s # id + 1
      /\ Start(h[id + 1]) = NextLSN(l) /\ Recs(h[id + 1]) = <<>> /\ Synced(h[id + 1]) = 0
      /\ h \in [DOMAIN h -> Segments] /\ SegID(m) = id + 1
  BY <1>2, <1>3 DEF Extended, IsRotated
<1>5. Copied(f) = 0 /\ Done(l, f) = <<>> /\ Done(m, f) = <<>> /\ Rest(m, f) = Rest(l, f)
  <2>1. Copied(f) = 0
    BY <1>1 DEF Captured, Copied
  <2>2. Done(l, f) = <<>>
    BY <1>1, <2>1, WriteFacts
  <2> QED
    BY <2>1, <2>2 DEF Done, Rest, IsRotated
<1>6. \A s \in DOMAIN g : Synced(g[s]) = Len(Recs(g[s]))
  BY <1>1, <1>2, <1>5, LogTypes DEF Ended
<1>7. Shape(m, h, d, f, ps)
  <2>1. Typed(m, h, d, f, ps)
    <3>1. \A s \in DOMAIN h : s <= id + 1
      BY <1>3, <1>4
    <3>2. \A s \in DOMAIN h : Synced(h[s]) <= Len(Recs(h[s]))
      BY <1>1, <1>4 DEF Typed
    <3>3. DOMAIN h \subseteq Nat
      BY <1>3, <1>4
    <3> QED
      BY <1>1, <1>4, <3>1, <3>2, <3>3 DEF Typed
  <2>2. Ended(m, h, f)
    BY <1>4, <1>5, <1>6, NoRecords DEF Ended, IsRotated
  <2>3. Captured(m, f, ps)
    BY <1>1 DEF Captured, IsRotated
  <2>4. Held(m, ps)
    BY <1>1 DEF Held, IsRotated
  <2> QED
    BY <2>1, <2>2, <2>3, <2>4 DEF Shape
<1>8. ASSUME NEW n, NEW gone, Placed(l, g, f, ps, n, gone) PROVE Placed(m, h, f, ps, n, gone)
  <2>1. \A s \in DOMAIN h : (s \in DOMAIN g /\ Recs(h[s]) = Recs(g[s])) \/ Recs(h[s]) = <<>>
    BY <1>4
  <2>2. Numbered(m, h, ps, n)
    BY <1>8, <2>1, NoRecords, Zenon DEF Placed, Numbered, IsRotated
  <2>3. Distinct(m, ps)
    BY <1>8 DEF Placed, Distinct, IsRotated
  <2>4. Waiting(m, h, ps)
    BY <1>8, <2>1, NoRecords, Zenon DEF Placed, Waiting, IsRotated
  <2>5. Unwritten(m, h, f)
    BY <1>5, <1>8, <2>1, NoRecords, Zenon DEF Placed, Unwritten
  <2>6. Gone(m, h, ps, n, gone)
    BY <1>8, <2>1, NoRecords, Zenon DEF Placed, Gone, IsRotated
  <2> QED
    BY <1>8, <2>2, <2>3, <2>4, <2>5, <2>6 DEF Placed
<1>9. ASSUME NEW a, Order(l, g, c, f, ps, a) PROVE Order(m, h, d, f, ps, a)
  <2>1. /\ Alone(ps) /\ Ascending(l, g, c, f) /\ Marks(l, f) /\ Durable(l, g)
        /\ Sorted(ps) /\ Latest(l, g, ps) /\ Kept(l, g, ps) /\ Vouched(l, g, c, a)
    BY <1>9 DEF Order
  <2>2. NextLSN(l) \in Nat /\ NextLSN(c) \in Nat /\ DurableLSN(l) \in Nat
    BY <1>1, LogTypes, ControlTypes
  <2>3. Ascending(m, h, d, f)
    <3>1. ASSUME NEW s \in DOMAIN h
          PROVE  /\ Increasing(Recs(h[s])) /\ Start(h[s]) <= NextLSN(d)
                 /\ Below(Recs(h[s]), NextLSN(m)) /\ Before(Recs(h[s]), Rest(m, f))
      <4>1. CASE s = id + 1
        BY <1>4, <2>2, <4>1, NoRecords
      <4>2. CASE s \in DOMAIN g
        BY <1>1, <1>4, <1>5, <2>1, <2>2, <4>2 DEF Ascending, IsRotated
      <4> QED
        BY <1>4, <4>1, <4>2
    <3>2. ASSUME NEW s \in DOMAIN h, NEW q \in DOMAIN h, s < q
          PROVE  /\ Start(h[s]) <= Start(h[q]) /\ Below(Recs(h[s]), Start(h[q]))
                 /\ Before(Recs(h[s]), Recs(h[q]))
      <4>1. s \in DOMAIN g
        BY <1>3, <1>4, <3>2
      <4>2. CASE q = id + 1
        BY <1>1, <1>4, <2>1, <2>2, <4>1, <4>2, NoRecords DEF Ascending
      <4>3. CASE q \in DOMAIN g
        BY <1>4, <2>1, <3>2, <4>1, <4>3 DEF Ascending
      <4> QED
        BY <1>4, <4>2, <4>3
    <3>3. NextLSN(m) = NextLSN(l) /\ DurableLSN(m) = DurableLSN(l) /\ Buf(m) = Buf(l)
      BY DEF IsRotated
    <3>4. Rest(m, f) = Rest(l, f)
      BY <3>3 DEF Rest
    <3>5. NextLSN(d) <= NextLSN(m) /\ DurableLSN(d) < NextLSN(d)
      BY <2>1, <2>2, <3>3 DEF Durable
    <3> QED
      BY <2>1, <3>1, <3>2, <3>3, <3>4, <3>5, Zenon DEF Ascending
  <2>4. Marks(m, f)
    BY <2>1 DEF Marks, IsRotated
  <2>5. Durable(m, h)
    <3>1. Loose(h[id + 1]) = <<>>
      BY <1>4 DEF Loose
    <3> QED
      BY <1>4, <2>1, <3>1, NoRecords DEF Durable, IsRotated
  <2>6. Latest(m, h, ps)
    BY <1>4, <2>1, NoRecords DEF Latest, IsRotated
  <2>7. Kept(m, h, ps)
    <3>1. \A r : Found(l, g, r) => Found(m, h, r)
      BY <1>4 DEF Found, IsRotated
    <3> QED
      BY <2>1, <3>1 DEF Kept, IsRotated
  <2>8. Vouched(m, h, d, a)
    <3>1. \A s \in DOMAIN g : s \in DOMAIN h /\ Start(h[s]) = Start(g[s]) /\ Safe(h[s]) = Safe(g[s])
      BY <1>4
    <3> QED
      BY <2>1, <3>1, Zenon DEF Vouched, IsRotated
  <2> QED
    BY <2>1, <2>3, <2>4, <2>5, <2>6, <2>7, <2>8 DEF Order
<1> QED
  BY <1>7, <1>8, <1>9

-----------------------------------------------------------------------------
(* Writing and syncing *)

\* The first k records of the buffer have been written at segOff.
IsWritten(l, g, h, k) ==
    /\ DOMAIN h = DOMAIN g /\ h \in [DOMAIN h -> Segments]
    /\ \A s \in DOMAIN g : s # SegID(l) => h[s] = g[s]
    /\ Start(h[SegID(l)]) = Start(g[SegID(l)]) /\ Synced(h[SegID(l)]) = Synced(g[SegID(l)])
    /\ Recs(h[SegID(l)]) = SubSeq(Recs(g[SegID(l)]), 1, SegOff(l)) \o SubSeq(Buf(l), 1, k)

\* flushLocked has written k of the records it captured.
LEMMA Wrote ==
    ASSUME NEW l, NEW g, NEW c, NEW f, NEW ps, NEW e \in Writes, NEW h, NEW k \in Nat,
           Shape(l, g, c, f, ps), By(f) # NoProc, ~Written(f), 0 < k, k <= Count(f),
           IsWritten(l, g, h, k), By(e) = By(f), Count(e) = k, Written(e)
    PROVE  /\ Shape(l, h, c, e, ps)
           /\ \A n, gone : Placed(l, g, f, ps, n, gone) => Placed(l, h, e, ps, n, gone)
           /\ \A a : Order(l, g, c, f, ps, a) /\ LastLSN(e) = Lsn(Buf(l)[k]) => Order(l, h, c, e, ps, a)
<1>1. /\ Typed(l, g, c, f, ps) /\ Held(l, ps) /\ Ended(l, g, f) /\ Captured(l, f, ps)
      /\ l \in Logs /\ f \in Writes /\ c \in Controls /\ ps \in [Proc -> Threads]
      /\ \A s \in DOMAIN g : g[s] \in Segments /\ Recs(g[s]) \in Seq(Records) /\ Synced(g[s]) \in Nat /\ Start(g[s]) \in Nat
  BY SegmentTypes DEF Shape, Typed
<1>2. PICK id \in Nat : id = SegID(l) /\ id \in DOMAIN g /\ \A s \in DOMAIN g : s \in Nat /\ s <= id
  BY <1>1, LogTypes DEF Typed
<1>3. PICK old \in Seq(Records), buf \in Seq(Records) : old = Recs(g[id]) /\ buf = Buf(l)
  BY <1>1, <1>2, LogTypes
<1>4. Copied(f) = 0 /\ Copied(e) = k /\ k <= Len(buf) /\ SegOff(l) = Len(old) /\ Synced(g[id]) = Len(old) /\ ~Latched(l)
  <2>1. Copied(f) = 0 /\ Copied(e) = k
    BY DEF Copied
  <2>2. k <= Len(buf) /\ ~Latched(l)
    BY <1>1, <1>3, WriteTypes DEF Captured
  <2> QED
    BY <1>1, <1>2, <1>3, <2>1, <2>2, LogTypes DEF Ended
<1>5. Captured(l, e, ps)
  <2>1. PICK n \in Nat, o \in Nat : n = Count(f) /\ o = HoldOff(l)
    BY <1>1, LogTypes, WriteTypes, Zenon
  <2>2. HoldLen(l) # 0 => k <= o
    BY <1>1, <2>1 DEF Captured
  <2> QED
    BY <1>1, <1>3, <1>4, <2>1, <2>2 DEF Captured
<1>6. PICK w \in Seq(Records), rest \in Seq(Records) :
        /\ w = Done(l, e) /\ rest = Rest(l, e) /\ buf = w \o rest /\ Len(w) = k
        /\ Rest(l, f) = buf
  <2>1. Done(l, e) \in Seq(Records) /\ Rest(l, e) \in Seq(Records) /\ buf = Done(l, e) \o Rest(l, e)
    BY <1>1, <1>3, <1>5, WriteFacts, Zenon
  <2>2. Len(SubSeq(buf, 1, k)) = k
    BY <1>4
  <2>3. Done(l, e) = SubSeq(buf, 1, k)
    BY <1>3, <1>4 DEF Done
  <2>4. Rest(l, f) = buf
    BY <1>1, <1>3, <1>4, WriteFacts
  <2> QED
    BY <2>1, <2>2, <2>3, <2>4, Zenon
<1>7. /\ DOMAIN h = DOMAIN g /\ h \in [DOMAIN h -> Segments] /\ \A s \in DOMAIN g : s # id => h[s] = g[s]
      /\ Start(h[id]) = Start(g[id]) /\ Synced(h[id]) = Len(old) /\ Recs(h[id]) = old \o w
  <2>1. SubSeq(old, 1, Len(old)) = old
    BY Whole
  <2>2. SubSeq(Buf(l), 1, k) = w
    BY <1>4, <1>6 DEF Done
  <2> QED
    BY <1>2, <1>3, <1>4, <2>1, <2>2, Zenon DEF IsWritten
<1>8. PICK all \in Seq(Records) : all = old \o w /\ Len(all) = Len(old) + k
  <2>1. old \o w \in Seq(Records) /\ Len(old \o w) = Len(old) + Len(w) /\ Len(w) = k
    BY <1>6, ConcatFacts, Zenon
  <2> QED
    BY <2>1, Zenon
<1>9. Joins(buf, w, rest) /\ Joins(all, old, w)
  BY <1>6, <1>8, Parts
<1>10. Shape(l, h, c, e, ps)
  <2>1. Typed(l, h, c, e, ps)
    <3>1. \A s \in DOMAIN h : Synced(h[s]) <= Len(Recs(h[s]))
      <4>1. Synced(h[id]) <= Len(Recs(h[id]))
        <5>1. Len(old) <= Len(all)
          BY <1>8
        <5> QED
          BY <1>7, <1>8, <5>1
      <4>2. \A s \in DOMAIN g : Synced(g[s]) <= Len(Recs(g[s]))
        BY <1>1 DEF Typed
      <4> QED
        BY <1>7, <4>1, <4>2, Zenon
    <3> QED
      BY <1>1, <1>7, <3>1, Zenon DEF Typed
  <2>2. Ended(l, h, e)
    <3>1. Range(all) = Range(old) \cup Range(w)
      BY <1>9 DEF Joins
    <3> QED
      BY <1>1, <1>2, <1>4, <1>6, <1>7, <1>8, <3>1 DEF Ended
  <2> QED
    BY <1>1, <1>5, <2>1, <2>2 DEF Shape
<1>11. ASSUME NEW n, NEW gone, Placed(l, g, f, ps, n, gone) PROVE Placed(l, h, e, ps, n, gone)
  <2>1. /\ Numbered(l, g, ps, n) /\ Distinct(l, ps) /\ Waiting(l, g, ps) /\ Unwritten(l, g, f)
        /\ Gone(l, g, ps, n, gone) /\ Owned(ps, n)
    BY <1>11 DEF Placed
  <2>2. Numbered(l, h, ps, n)
    <3>1. Upto(all, n)
      BY <1>2, <1>3, <1>9, <2>1 DEF Joins, Numbered
    <3> QED
      BY <1>7, <1>8, <2>1, <3>1, ZenonT(40) DEF Numbered
  <2>3. Waiting(l, h, ps)
    <3>1. \A p \in Proc : Apart(Pending(ps[p]), all)
      BY <1>2, <1>3, <1>9, <2>1 DEF Joins, Waiting
    <3> QED
      BY <1>7, <1>8, <2>1, <3>1, ZenonT(40) DEF Waiting
  <2>4. Unwritten(l, h, e)
    <3>1. \A s \in DOMAIN g : Apart(rest, Recs(g[s]))
      BY <1>6, <1>9, <2>1, SMTT(30) DEF Joins, Unwritten
    <3>2. Apart(rest, w)
      BY <1>3, <1>9, <2>1, ApartSymmetric DEF Joins, Distinct
    <3>3. Apart(rest, all)
      BY <1>2, <1>3, <1>9, <3>1, <3>2 DEF Joins
    <3> QED
      BY <1>6, <1>7, <1>8, <3>1, <3>3, ZenonT(40) DEF Unwritten
  <2>5. Gone(l, h, ps, n, gone)
    <3>1. \A r \in gone : Absent(all, r)
      BY <1>2, <1>3, <1>9, <2>1, Zenon DEF Joins, Gone
    <3> QED
      BY <1>7, <1>8, <2>1, <3>1, Zenon DEF Gone
  <2> QED
    BY <2>1, <2>2, <2>3, <2>4, <2>5 DEF Placed
<1>12. ASSUME NEW a, Order(l, g, c, f, ps, a), LastLSN(e) = Lsn(Buf(l)[k]) PROVE Order(l, h, c, e, ps, a)
  <2>1. /\ Alone(ps) /\ Ascending(l, g, c, f) /\ Marks(l, f) /\ Durable(l, g)
        /\ Sorted(ps) /\ Latest(l, g, ps) /\ Kept(l, g, ps) /\ Vouched(l, g, c, a)
    BY <1>12 DEF Order
  <2>2. /\ Increasing(w) /\ Increasing(rest) /\ Before(w, rest) /\ Below(w, NextLSN(l)) /\ Above(w, DurableLSN(l))
        /\ \A s \in DOMAIN g : Before(Recs(g[s]), w) /\ Before(Recs(g[s]), rest)
        /\ \A p \in Proc : Before(w, Pending(ps[p]))
    BY <1>3, <1>6, <1>9, <2>1, Zenon DEF Joins, Ascending, Durable, Latest
  <2>3. /\ Increasing(all) /\ Below(all, NextLSN(l)) /\ Before(all, rest)
        /\ \A s \in DOMAIN g : s # id => Below(Recs(g[s]), Start(g[id])) /\ Before(Recs(g[s]), all)
        /\ \A p \in Proc : Before(all, Pending(ps[p]))
    <3>1. \A s \in DOMAIN g : s # id => s < id
      BY <1>2
    <3>2. Increasing(all) /\ Below(all, NextLSN(l)) /\ Before(all, rest)
      BY <1>2, <1>3, <1>9, <2>1, <2>2, Zenon DEF Joins, Ascending
    <3>3. \A s \in DOMAIN g : s # id => Below(Recs(g[s]), Start(g[id])) /\ Before(Recs(g[s]), all)
      BY <1>2, <1>3, <1>9, <2>1, <2>2, <3>1, Zenon DEF Joins, Ascending
    <3>4. \A p \in Proc : Before(all, Pending(ps[p]))
      BY <1>2, <1>3, <1>9, <2>1, <2>2, Zenon DEF Joins, Latest
    <3> QED
      BY <3>2, <3>3, <3>4
  <2>4. Ascending(l, h, c, e)
    <3>1. ASSUME NEW s \in DOMAIN h
          PROVE  /\ Increasing(Recs(h[s])) /\ Start(h[s]) <= NextLSN(c)
                 /\ Below(Recs(h[s]), NextLSN(l)) /\ Before(Recs(h[s]), Rest(l, e))
      BY <1>2, <1>6, <1>7, <1>8, <2>1, <2>2, <2>3, Zenon DEF Ascending
    <3>2. ASSUME NEW s \in DOMAIN h, NEW q \in DOMAIN h, s < q
          PROVE  /\ Start(h[s]) <= Start(h[q]) /\ Below(Recs(h[s]), Start(h[q]))
                 /\ Before(Recs(h[s]), Recs(h[q]))
      <4>1. s # id /\ h[s] = g[s] /\ Start(h[q]) = Start(g[q])
        <5>1. s \in Nat /\ q \in Nat /\ q <= id
          BY <1>2, <1>7
        <5>2. s # id
          BY <3>2, <5>1
        <5> QED
          BY <1>7, <5>2, SMTT(30)
      <4> QED
        BY <1>2, <1>7, <1>8, <2>1, <2>3, <3>2, <4>1, Zenon DEF Ascending
    <3> QED
      BY <2>1, <3>1, <3>2, Zenon DEF Ascending
  <2>5. Marks(l, e)
    BY <1>12, <2>1 DEF Marks
  <2>6. SubSeq(all, 1, Len(old)) = old /\ SubSeq(all, Len(old) + 1, Len(all)) = w
    <3>1. /\ SubSeq(old \o w, 1, Len(old)) = SubSeq(old, 1, Len(old))
          /\ SubSeq(old \o w, Len(old) + 1, Len(old \o w)) = SubSeq(old, Len(old) + 1, Len(old)) \o w
      BY ConcatSubSeq, SMTT(30)
    <3>2. SubSeq(old, 1, Len(old)) = old /\ SubSeq(old, Len(old) + 1, Len(old)) = <<>>
      BY Whole
    <3>3. <<>> \o w = w
      BY Whole
    <3> QED
      BY <1>8, <3>1, <3>2, <3>3
  <2>7. Durable(l, h)
    BY <1>2, <1>7, <1>8, <2>1, <2>2, <2>6, Zenon DEF Durable, Loose
  <2>8. Latest(l, h, ps)
    BY <1>7, <1>8, <2>1, <2>3, ZenonT(40) DEF Latest
  <2>9. Range(old) \subseteq Range(all)
    BY <1>9 DEF Joins
  <2>10. Kept(l, h, ps)
    <3>1. \A r : Found(l, g, r) => Found(l, h, r)
      BY <1>2, <1>3, <1>7, <1>8, <2>9, Zenon DEF Found
    <3> QED
      BY <2>1, <3>1 DEF Kept
  <2>11. Vouched(l, h, c, a)
    <3>1. Safe(g[id]) = old
      BY <1>3, <1>4, Whole DEF Safe
    <3>2. Safe(h[id]) = old
      BY <1>7, <1>8, <2>6 DEF Safe
    <3>3. \A s \in DOMAIN g : Start(h[s]) = Start(g[s]) /\ Safe(h[s]) = Safe(g[s])
      BY <1>7, <3>1, <3>2, Zenon
    <3> QED
      BY <1>7, <2>1, <3>3 DEF Vouched
  <2> QED
    BY <2>1, <2>4, <2>5, <2>7, <2>8, <2>10, <2>11 DEF Order
<1> QED
  BY <1>10, <1>11, <1>12

\* The first k records of the buffer leave it; the log may get the latch.
IsConsumed(l, m, k) ==
    /\ m \in Logs /\ NextLSN(m) = NextLSN(l) /\ RedoLSN(m) = RedoLSN(l)
    /\ Buf(m) = SubSeq(Buf(l), k + 1, Len(Buf(l))) /\ BufLast(m) = BufLast(l)
    /\ SegID(m) = SegID(l) /\ SegOff(m) = SegOff(l) + k
    /\ HoldOff(m) = IF HoldLen(l) > 0 THEN HoldOff(l) - k ELSE HoldOff(l)
    /\ HoldLen(m) = HoldLen(l) /\ HoldLSN(m) = HoldLSN(l) /\ HoldPrev(m) = HoldPrev(l)

\* The last segment may get synced.
IsSynced(l, g, h) ==
    /\ DOMAIN h = DOMAIN g /\ h \in [DOMAIN h -> Segments]
    /\ \A s \in DOMAIN g : s # SegID(l) => h[s] = g[s]
    /\ Start(h[SegID(l)]) = Start(g[SegID(l)]) /\ Recs(h[SegID(l)]) = Recs(g[SegID(l)])
    /\ Synced(h[SegID(l)]) \in {Synced(g[SegID(l)]), Len(Recs(g[SegID(l)]))}

\* No write is in progress.
NoWrite(e) == e \in Writes /\ By(e) = NoProc /\ ~Written(e) /\ Count(e) = 0

\* The write in progress ends: what it put into the segment leaves the buffer.
LEMMA Ends ==
    ASSUME NEW l, NEW g, NEW c, NEW f, NEW ps, NEW m, NEW h, NEW e,
           Shape(l, g, c, f, ps), By(f) # NoProc, NoWrite(e),
           IsConsumed(l, m, Copied(f)), IsSynced(l, g, h),
           ~Latched(m) => Synced(h[SegID(l)]) = Len(Recs(g[SegID(l)])),
           \/ DurableLSN(m) = DurableLSN(l)
           \/ DurableLSN(m) = LastLSN(f) /\ Written(f) /\ Synced(h[SegID(l)]) = Len(Recs(g[SegID(l)]))
    PROVE  /\ Shape(m, h, c, e, ps)
           /\ \A n, gone : Placed(l, g, f, ps, n, gone) => Placed(m, h, e, ps, n, gone)
           /\ \A a : Order(l, g, c, f, ps, a) => Order(m, h, c, e, ps, a)
<1>1. /\ Typed(l, g, c, f, ps) /\ Held(l, ps) /\ Ended(l, g, f) /\ Captured(l, f, ps)
      /\ l \in Logs /\ m \in Logs /\ f \in Writes /\ e \in Writes /\ c \in Controls /\ ps \in [Proc -> Threads]
      /\ \A s \in DOMAIN g : g[s] \in Segments /\ Recs(g[s]) \in Seq(Records) /\ Synced(g[s]) \in Nat /\ Start(g[s]) \in Nat
  BY SegmentTypes DEF Shape, Typed, IsConsumed, NoWrite
<1>2. PICK id \in Nat : id = SegID(l) /\ id \in DOMAIN g /\ \A s \in DOMAIN g : s \in Nat /\ s <= id
  BY <1>1, LogTypes DEF Typed
<1>3. PICK old \in Seq(Records), buf \in Seq(Records), k \in Nat : old = Recs(g[id]) /\ buf = Buf(l) /\ k = Copied(f)
  BY <1>1, <1>2, LogTypes, WriteFacts, Zenon
<1>4. k <= Len(buf) /\ ~Latched(l) /\ (HoldLen(l) # 0 => k <= HoldOff(l)) /\ (Written(f) => k = Count(f) /\ 0 < k)
  <2>1. k <= Len(buf)
    BY <1>1, <1>3, WriteFacts, Zenon
  <2>2. HoldOff(l) \in Nat
    BY <1>1, LogTypes, Zenon
  <2>3. Written(f) => k = Count(f)
    BY <1>3 DEF Copied
  <2>4. ~Written(f) => k = 0
    BY <1>3 DEF Copied
  <2>5. 0 < Count(f) /\ ~Latched(l) /\ (HoldLen(l) # 0 => Count(f) <= HoldOff(l))
    BY <1>1, Zenon DEF Captured
  <2> QED
    BY <2>1, <2>2, <2>3, <2>4, <2>5
<1>5. PICK w \in Seq(Records), rest \in Seq(Records) :
        w = Done(l, f) /\ rest = Rest(l, f) /\ buf = w \o rest
  <2>1. Done(l, f) \in Seq(Records) /\ Rest(l, f) \in Seq(Records) /\ Buf(l) = Done(l, f) \o Rest(l, f)
    BY <1>1, WriteFacts, Zenon
  <2> QED
    BY <1>3, <2>1
<1>6. rest = SubSeq(buf, k + 1, Len(buf))
  BY <1>3, <1>4, <1>5 DEF Rest
<1>7. Joins(buf, w, rest)
  BY <1>5, Parts
<1>8. Moves(buf, rest, k)
  <2>1. k <= Len(buf)
    BY <1>4
  <2> QED
    BY <1>6, <2>1, Shifted, Zenon
<1>9. Buf(m) = rest /\ Done(m, e) = <<>> /\ Rest(m, e) = rest /\ Copied(e) = 0
  <2>1. Buf(m) = rest
    BY <1>3, <1>6 DEF IsConsumed
  <2>2. Copied(e) = 0
    BY DEF Copied, NoWrite
  <2> QED
    BY <2>1, <2>2, Whole DEF Done, Rest
<1>10. /\ DOMAIN h = DOMAIN g /\ h \in [DOMAIN h -> Segments]
       /\ \A s \in DOMAIN g : Start(h[s]) = Start(g[s]) /\ Recs(h[s]) = Recs(g[s]) /\ (s # id => h[s] = g[s])
       /\ Synced(h[id]) = Synced(g[id]) \/ Synced(h[id]) = Len(old)
       /\ ~Latched(m) => Synced(h[id]) = Len(old)
  BY <1>2, <1>3 DEF IsSynced
<1>11. Shape(m, h, c, e, ps)
  <2>1. Typed(m, h, c, e, ps)
    <3>1. Synced(h[id]) <= Len(Recs(h[id])) /\ \A s \in DOMAIN g : Synced(g[s]) <= Len(Recs(g[s]))
      BY <1>1, <1>2, <1>3, <1>10 DEF Typed
    <3> QED
      BY <1>1, <1>10, <3>1, Zenon DEF Typed, IsConsumed
  <2>2. Ended(m, h, e)
    <3>1. SegID(m) = id /\ SegOff(m) = SegOff(l) + k
      BY <1>2, <1>3 DEF IsConsumed
    <3>2. Len(old) = SegOff(l) + k /\ SegOff(l) \in Nat
      BY <1>1, <1>2, <1>3, <1>4, LogTypes, Zenon DEF Ended
    <3> QED
      BY <1>1, <1>2, <1>3, <1>9, <1>10, <3>1, <3>2, NoRecords DEF Ended
  <2>3. Captured(m, e, ps)
    BY DEF Captured, NoWrite
  <2>4. Held(m, ps)
    <3>1. PICK o \in Nat, n \in Nat : o = HoldOff(l) /\ n = HoldLen(l)
      BY <1>1, LogTypes, Zenon
    <3>2. n # 0 => /\ k <= o /\ o < Len(buf) /\ HoldOff(m) = o - k /\ o - k < Len(rest)
                   /\ rest[o - k + 1] = buf[o + 1]
      <4> SUFFICES ASSUME n # 0
                   PROVE  /\ k <= o /\ o < Len(buf) /\ HoldOff(m) = o - k /\ o - k < Len(rest)
                          /\ rest[o - k + 1] = buf[o + 1]
        BY Zenon
      <4>1. k <= o /\ o < Len(buf)
        BY <1>1, <1>3, <1>4, <3>1, Zenon DEF Held
      <4>2. HoldOff(m) = o - k
        BY <1>3, <3>1 DEF IsConsumed
      <4> QED
        BY <1>8, <4>1, <4>2, Zenon DEF Moves
    <3>3. n = 0 => HoldOff(m) = o
      BY <3>1 DEF IsConsumed
    <3>4. HoldLen(m) = n
      BY <3>1 DEF IsConsumed
    <3>5. ASSUME NEW p \in Proc, Pc(ps[p]) = "held" PROVE n = 1 /\ Recs(ps[p]) = <<buf[o + 1]>>
      BY <1>1, <1>3, <3>1, <3>5, Zenon DEF Held
    <3>6. n = 0 => o = 0
      BY <1>1, <3>1, Zenon DEF Held
    <3>7. n # 0 => n = 1 /\ \E p \in Proc : Pc(ps[p]) = "held"
      BY <1>1, <3>1, Zenon DEF Held
    <3>8. ASSUME NEW p \in Proc, Pc(ps[p]) = "held"
          PROVE  HoldLen(m) = 1 /\ Recs(ps[p]) = <<Buf(m)[HoldOff(m) + 1]>>
      <4>1. n = 1 /\ Recs(ps[p]) = <<buf[o + 1]>>
        BY <3>5, <3>8
      <4>2. HoldOff(m) = o - k /\ rest[o - k + 1] = buf[o + 1]
        BY <3>2, <4>1
      <4> QED
        BY <1>9, <3>4, <4>1, <4>2, Zenon
    <3> QED
      BY <1>1, <1>9, <3>2, <3>3, <3>4, <3>6, <3>7, <3>8, Zenon DEF Held
  <2> QED
    BY <2>1, <2>2, <2>3, <2>4 DEF Shape
<1>12. ASSUME NEW n, NEW gone, Placed(l, g, f, ps, n, gone) PROVE Placed(m, h, e, ps, n, gone)
  <2>1. /\ Numbered(l, g, ps, n) /\ Distinct(l, ps) /\ Waiting(l, g, ps) /\ Unwritten(l, g, f)
        /\ Gone(l, g, ps, n, gone) /\ Owned(ps, n)
    BY <1>12 DEF Placed
  <2>2. Numbered(m, h, ps, n)
    BY <1>3, <1>7, <1>9, <1>10, <2>1 DEF Joins, Numbered
  <2>3. Distinct(m, ps)
    BY <1>3, <1>7, <1>9, <2>1 DEF Joins, Distinct
  <2>4. Waiting(m, h, ps)
    BY <1>3, <1>7, <1>9, <1>10, <2>1 DEF Joins, Waiting
  <2>5. Unwritten(m, h, e)
    BY <1>5, <1>9, <1>10, <2>1 DEF Unwritten
  <2>6. Gone(m, h, ps, n, gone)
    BY <1>3, <1>7, <1>9, <1>10, <2>1 DEF Joins, Gone
  <2> QED
    BY <2>1, <2>2, <2>3, <2>4, <2>5, <2>6 DEF Placed
<1>13. ASSUME NEW a, Order(l, g, c, f, ps, a) PROVE Order(m, h, c, e, ps, a)
  <2>1. /\ Alone(ps) /\ Ascending(l, g, c, f) /\ Marks(l, f) /\ Durable(l, g)
        /\ Sorted(ps) /\ Latest(l, g, ps) /\ Kept(l, g, ps) /\ Vouched(l, g, c, a)
    BY <1>13 DEF Order
  <2>2. Increasing(rest) /\ Below(rest, NextLSN(l)) /\ Above(rest, DurableLSN(l))
    BY <1>3, <1>7, <2>1, Zenon DEF Joins, Ascending, Durable
  <2>3. Ascending(m, h, c, e)
    BY <1>5, <1>9, <1>10, <2>1, <2>2, Zenon DEF Ascending, IsConsumed
  <2>4. DurableLSN(m) < NextLSN(m) /\ Above(rest, DurableLSN(m)) /\ \A p \in Proc : Above(Pending(ps[p]), DurableLSN(m))
    <3>1. NextLSN(m) = NextLSN(l)
      BY DEF IsConsumed
    <3>2. CASE DurableLSN(m) = DurableLSN(l)
      BY <2>1, <2>2, <3>1, <3>2, Zenon DEF Durable, Latest
    <3>3. CASE DurableLSN(m) = LastLSN(f) /\ Written(f)
      <4>1. buf[k] \in Records /\ LastLSN(f) = Lsn(buf[k]) /\ k \in 1..Len(buf)
        BY <1>3, <1>4, <2>1, <3>3 DEF Marks
      <4>2. Above(rest, Lsn(buf[k]))
        <5> SUFFICES ASSUME NEW i \in 1..Len(rest) PROVE Lsn(buf[k]) < Lsn(rest[i])
          BY Zenon DEF Above
        <5>1. rest[i] = buf[k + i] /\ k + i \in 1..Len(buf) /\ k < k + i
          BY <1>8, Zenon DEF Moves
        <5> QED
          BY <1>3, <2>1, <4>1, <5>1, Zenon DEF Ascending, Increasing
      <4>3. Lsn(buf[k]) < NextLSN(l)
        BY <1>3, <2>1, <4>1 DEF Ascending, Below
      <4>4. \A p \in Proc : Above(Pending(ps[p]), Lsn(buf[k]))
        BY <1>3, <2>1, <4>1, Zenon DEF Latest, Before, Above
      <4> QED
        BY <3>1, <3>3, <4>1, <4>2, <4>3, <4>4, ZenonT(40)
    <3> QED
      BY <3>2, <3>3
  <2>5. Marks(m, e)
    <3>1. PICK o \in Nat, n \in Nat : o = HoldOff(l) /\ n = HoldLen(l)
      BY <1>1, LogTypes, Zenon
    <3>2. rest # <<>> => BufLast(m) = Lsn(Last(rest))
      <4> SUFFICES ASSUME rest # <<>> PROVE BufLast(m) = Lsn(Last(rest))
        OBVIOUS
      <4>1. rest[Len(rest)] = buf[Len(buf)] /\ buf # <<>>
        BY <1>8, Zenon DEF Moves
      <4> QED
        BY <1>3, <2>1, <4>1, Zenon DEF Marks, IsConsumed, Last
    <3>3. n # 0 => /\ HoldLSN(m) = Lsn(rest[HoldOff(m) + 1])
                   /\ HoldOff(m) > 0 => HoldPrev(m) = Lsn(rest[HoldOff(m)])
      <4> SUFFICES ASSUME n # 0
                   PROVE  /\ HoldLSN(m) = Lsn(rest[HoldOff(m) + 1])
                          /\ HoldOff(m) > 0 => HoldPrev(m) = Lsn(rest[HoldOff(m)])
        OBVIOUS
      <4>1. k <= o /\ o < Len(buf)
        BY <1>1, <1>3, <1>4, <3>1, Zenon DEF Held
      <4>2. HoldOff(m) = o - k /\ HoldLSN(m) = Lsn(buf[o + 1]) /\ (o > 0 => HoldPrev(m) = Lsn(buf[o]))
        BY <1>3, <2>1, <3>1 DEF IsConsumed, Marks
      <4>3. rest[o - k + 1] = buf[o + 1]
        BY <1>8, <4>1, Zenon DEF Moves
      <4>4. o - k > 0 => rest[o - k] = buf[o] /\ o > 0
        <5> SUFFICES ASSUME o - k > 0 PROVE rest[o - k] = buf[o] /\ o > 0
          BY Zenon
        <5>1. k < o /\ o > 0
          BY <4>1
        <5> QED
          BY <1>8, <4>1, <5>1, Zenon DEF Moves
      <4> QED
        BY <4>2, <4>3, <4>4, Zenon
    <3> QED
      BY <1>9, <3>1, <3>2, <3>3, Zenon DEF Marks, IsConsumed, NoWrite
  <2>6. Durable(m, h)
    <3>1. Above(Loose(h[id]), DurableLSN(m))
      <4>1. CASE Synced(h[id]) = Len(old)
        <5>1. Loose(h[id]) = <<>>
          BY <1>2, <1>3, <1>10, <4>1 DEF Loose
        <5> QED
          BY <5>1, NoRecords
      <4>2. CASE Synced(h[id]) = Synced(g[id]) /\ Synced(h[id]) # Len(old)
        <5>1. DurableLSN(m) = DurableLSN(l) /\ Loose(h[id]) = Loose(g[id])
          BY <1>2, <1>3, <1>10, <4>2, Zenon DEF Loose
        <5> QED
          BY <1>2, <2>1, <5>1, Zenon DEF Durable
      <4> QED
        BY <1>10, <4>1, <4>2
    <3> QED
      BY <1>2, <1>9, <2>4, <3>1, Zenon DEF Durable, IsConsumed
  <2>7. Latest(m, h, ps)
    <3>1. \A p \in Proc : Before(rest, Pending(ps[p]))
      BY <1>3, <1>7, <2>1 DEF Joins, Latest
    <3> QED
      BY <1>9, <1>10, <2>1, <2>4, <3>1, ZenonT(40) DEF Latest, IsConsumed
  <2>8. Kept(m, h, ps)
    <3>1. Range(buf) = Range(w) \cup Range(rest)
      BY <1>7 DEF Joins
    <3>2. Range(w) \subseteq Range(old)
      BY <1>1, <1>2, <1>3, <1>5, Zenon DEF Ended
    <3>3. \A r : Found(l, g, r) => Found(m, h, r)
      BY <1>2, <1>3, <1>9, <1>10, <3>1, <3>2, ZenonT(40) DEF Found, IsConsumed
    <3> QED
      BY <2>1, <3>3 DEF Kept, IsConsumed
  <2>9. Vouched(m, h, c, a)
    <3>1. \A s \in DOMAIN g : Range(Safe(g[s])) \subseteq Range(Safe(h[s]))
      <4> SUFFICES ASSUME NEW s \in DOMAIN g, s = id PROVE Range(Safe(g[s])) \subseteq Range(Safe(h[s]))
        BY <1>10
      <4>1. CASE Synced(h[id]) = Synced(g[id])
        BY <1>2, <1>10, <4>1 DEF Safe
      <4>2. CASE Synced(h[id]) = Len(old)
        <5>1. h[id] \in Segments /\ Synced(h[id]) = Len(Recs(h[id]))
          BY <1>2, <1>3, <1>10, <4>2
        <5>2. Safe(h[id]) = Recs(g[id])
          BY <1>2, <1>10, <5>1, SegmentFacts
        <5>3. Range(Safe(g[id])) \subseteq Range(Recs(g[id]))
          BY <1>1, <1>2, SegmentFacts DEF Typed
        <5> QED
          BY <5>2, <5>3
      <4> QED
        BY <1>10, <4>1, <4>2
    <3> QED
      BY <1>10, <2>1, <3>1 DEF Vouched, IsConsumed
  <2> QED
    BY <2>1, <2>3, <2>5, <2>6, <2>7, <2>8, <2>9 DEF Order
<1> QED
  BY <1>11, <1>12, <1>13

-----------------------------------------------------------------------------
(* Starting a write and returning from one *)

\* flushLocked captures what is not held of the buffer.
LEMMA Starts ==
    ASSUME NEW l, NEW g, NEW c, NEW f, NEW ps, NEW e \in Writes,
           Shape(l, g, c, f, ps), By(f) = NoProc, ~Latched(l),
           By(e) \in Proc, ~Written(e), 0 < Count(e),
           Count(e) = IF HoldLen(l) > 0 THEN HoldOff(l) ELSE Len(Buf(l)),
           LastLSN(e) = IF HoldLen(l) > 0 THEN HoldPrev(l) ELSE BufLast(l),
           Pc(ps[By(e)]) \in {"flush", "rotate"},
           Pc(ps[By(e)]) = "flush" => DurableLSN(l) < Lsn(Last(Recs(ps[By(e)])))
    PROVE  /\ Shape(l, g, c, e, ps)
           /\ \A n, gone : Placed(l, g, f, ps, n, gone) => Placed(l, g, e, ps, n, gone)
           /\ \A a : Order(l, g, c, f, ps, a) => Order(l, g, c, e, ps, a)
<1>1. /\ Typed(l, g, c, f, ps) /\ Held(l, ps) /\ Ended(l, g, f) /\ Captured(l, f, ps) /\ l \in Logs
      /\ HoldLen(l) \in Nat /\ HoldOff(l) \in Nat /\ Buf(l) \in Seq(Records)
  BY LogTypes, SMTT(30) DEF Shape, Typed
<1>2. Copied(f) = 0 /\ Copied(e) = 0
  BY <1>1 DEF Captured, Copied
<1>3. Done(l, e) = Done(l, f) /\ Rest(l, e) = Rest(l, f)
  BY <1>2 DEF Done, Rest
<1>4. Count(e) <= Len(Buf(l)) /\ (HoldLen(l) # 0 => Count(e) <= HoldOff(l)) /\ By(e) # NoProc
  BY <1>1, NoProcAssumption DEF Held
<1>5. Shape(l, g, c, e, ps)
  <2>1. Typed(l, g, c, e, ps)
    BY <1>1 DEF Typed
  <2>2. Ended(l, g, e)
    BY <1>1, <1>2, <1>3, Zenon DEF Ended
  <2>3. Captured(l, e, ps)
    BY <1>4 DEF Captured
  <2> QED
    BY <1>1, <2>1, <2>2, <2>3 DEF Shape
<1>6. ASSUME NEW n, NEW gone, Placed(l, g, f, ps, n, gone) PROVE Placed(l, g, e, ps, n, gone)
  BY <1>3, <1>6, Zenon DEF Placed, Unwritten
<1>7. ASSUME NEW a, Order(l, g, c, f, ps, a) PROVE Order(l, g, c, e, ps, a)
  <2>1. Ascending(l, g, c, e)
    BY <1>3, <1>7, Zenon DEF Order, Ascending
  <2>2. LastLSN(e) = Lsn(Buf(l)[Count(e)])
    <3>1. CASE HoldLen(l) > 0
      <4>1. HoldLen(l) # 0 /\ Count(e) = HoldOff(l) /\ LastLSN(e) = HoldPrev(l)
        BY <1>1, <3>1
      <4>2. HoldOff(l) > 0
        BY <1>1, <4>1
      <4> QED
        BY <1>7, <4>1, <4>2, Zenon DEF Order, Marks
    <3>2. CASE ~(HoldLen(l) > 0)
      <4>1. Count(e) = Len(Buf(l)) /\ Buf(l) # <<>>
        BY <1>1, <3>2
      <4> QED
        BY <1>7, <3>2, <4>1, Zenon DEF Order, Marks, Last
    <3> QED
      BY <3>1, <3>2
  <2>3. Marks(l, e)
    BY <1>7, <2>2, Zenon DEF Order, Marks
  <2> QED
    BY <1>7, <2>1, <2>3 DEF Order
<1> QED
  BY <1>5, <1>6, <1>7

\* A durable record of a thread that has no more to buffer is synced, or a
\* checkpoint has passed it: Flush may vouch for it.
LEMMA Vouches ==
    ASSUME NEW l, NEW g, NEW c, NEW f, NEW ps, NEW p \in Proc, NEW a,
           Shape(l, g, c, f, ps), Order(l, g, c, f, ps, a),
           Pc(ps[p]) = "flush", DurableLSN(l) >= Lsn(Last(Recs(ps[p])))
    PROVE  Order(l, g, c, f, ps, a \cup Range(Recs(ps[p])))
<1>1. /\ Typed(l, g, c, f, ps) /\ Ended(l, g, f) /\ l \in Logs /\ SegID(l) \in DOMAIN g
      /\ Recs(ps[p]) \in Seq(Records) /\ Recs(ps[p]) # <<>> /\ DurableLSN(l) \in Nat
      /\ \A s \in DOMAIN g : g[s] \in Segments /\ Synced(g[s]) <= Len(Recs(g[s]))
      /\ Buf(l) \in Seq(Records)
  BY LogTypes, ThreadTypes, SMTT(30) DEF Shape, Typed, WellFormed
<1>2. Increasing(Recs(ps[p])) /\ Durable(l, g) /\ Kept(l, g, ps) /\ Vouched(l, g, c, a)
  BY DEF Order, Sorted
<1>3. ASSUME NEW r \in Range(Recs(ps[p])), Lsn(r) >= RedoLSN(l) PROVE \E s \in DOMAIN g : r \in Range(Safe(g[s]))
  <2>1. PICK recs \in Seq(Records) : recs = Recs(ps[p]) /\ recs # <<>>
    BY <1>1
  <2>2. PICK i \in 1..Len(recs) : r = recs[i] /\ r \in Records
    BY <2>1 DEF Range
  <2>3. Lsn(r) \in Nat /\ Lsn(Last(recs)) \in Nat /\ Last(recs) = recs[Len(recs)] /\ Len(recs) \in 1..Len(recs)
    BY <2>1, <2>2, RecordTypes DEF Last
  <2>4. Lsn(r) <= Lsn(Last(recs))
    BY <1>2, <2>1, <2>2, <2>3 DEF Increasing
  <2>5. Lsn(r) <= DurableLSN(l)
    BY <1>1, <2>1, <2>3, <2>4
  <2>6. Pending(ps[p]) = <<>>
    BY DEF Pending
  <2>7. Found(l, g, r)
    BY <1>2, <2>6, NoRecords DEF Kept
  <2>8. r \notin Range(Buf(l))
    <3>1. \A j \in 1..Len(Buf(l)) : DurableLSN(l) < Lsn(Buf(l)[j])
      BY <1>2, Zenon DEF Durable, Above
    <3>2. \A j \in 1..Len(Buf(l)) : Buf(l)[j] # r
      BY <1>1, <2>3, <2>5, <3>1
    <3>3. Buf(l) \in Seq(Records)
      BY <1>1
    <3> QED
      BY <3>2, <3>3, RangeOf
  <2>9. PICK s \in DOMAIN g : r \in Range(Recs(g[s]))
    <3>1. RedoLSN(l) \in Nat
      BY <1>1, LogTypes
    <3>2. ~(Lsn(r) < RedoLSN(l))
      BY <1>3, <2>3, <3>1
    <3> QED
      BY <2>7, <2>8, <3>2, Zenon DEF Found
  <2>10. Range(Recs(g[s])) = Range(Safe(g[s])) \cup Range(Loose(g[s])) /\ Loose(g[s]) \in Seq(Records)
    BY <1>1, SegmentFacts, Zenon
  <2>11. r \notin Range(Loose(g[s]))
    <3>1. CASE s = SegID(l)
      <4>1. \A j \in 1..Len(Loose(g[s])) : DurableLSN(l) < Lsn(Loose(g[s])[j])
        BY <1>2, <3>1, Zenon DEF Durable, Above
      <4>2. \A j \in 1..Len(Loose(g[s])) : Loose(g[s])[j] # r
        BY <1>1, <2>3, <2>5, <4>1, SMTT(30)
      <4> QED
        BY <2>10, <4>2, RangeOf, Zenon
    <3>2. CASE s # SegID(l)
      BY <1>1, <3>2, SegmentFacts, NoRecords, Zenon DEF Ended
    <3> QED
      BY <3>1, <3>2
  <2> QED
    BY <2>9, <2>10, <2>11, Zenon
<1>4. Vouched(l, g, c, a \cup Range(Recs(ps[p])))
  BY <1>2, <1>3 DEF Vouched
<1> QED
  BY <1>4 DEF Order

-----------------------------------------------------------------------------
(* Checkpoints, segments and restarts *)

\* The redo boundary moves forward, and the control file is written.
IsCheckpointed(l, m, d) ==
    /\ m \in Logs /\ NextLSN(m) = NextLSN(l) /\ DurableLSN(m) = DurableLSN(l) /\ RedoLSN(l) <= RedoLSN(m)
    /\ Buf(m) = Buf(l) /\ BufLast(m) = BufLast(l) /\ SegID(m) = SegID(l) /\ SegOff(m) = SegOff(l)
    /\ HoldOff(m) = HoldOff(l) /\ HoldLen(m) = HoldLen(l) /\ HoldLSN(m) = HoldLSN(l) /\ HoldPrev(m) = HoldPrev(l)
    /\ Latched(m) = Latched(l)
    /\ d \in Controls /\ NextLSN(d) = NextLSN(m) /\ DurableLSN(d) = DurableLSN(m) /\ RedoLSN(d) = RedoLSN(m)

\* InstallCheckpoint keeps the invariant: what it passes is no longer vouched for.
LEMMA Checkpointed ==
    ASSUME NEW l, NEW g, NEW c, NEW f, NEW ps, NEW m, NEW d, Shape(l, g, c, f, ps), IsCheckpointed(l, m, d)
    PROVE  /\ Shape(m, g, d, f, ps)
           /\ \A n, gone : Placed(l, g, f, ps, n, gone) => Placed(m, g, f, ps, n, gone)
           /\ \A a \in SUBSET Records : Order(l, g, c, f, ps, a) => Order(m, g, d, f, ps, a)
<1>1. Done(m, f) = Done(l, f) /\ Rest(m, f) = Rest(l, f)
  BY SMTT(30) DEF IsCheckpointed, Done, Rest
<1>2. Shape(m, g, d, f, ps)
  BY <1>1, SMTT(30) DEF IsCheckpointed, Shape, Typed, Ended, Captured, Held
<1>3. ASSUME NEW n, NEW gone, Placed(l, g, f, ps, n, gone) PROVE Placed(m, g, f, ps, n, gone)
  BY <1>1, <1>3 DEF IsCheckpointed, Placed, Numbered, Distinct, Waiting, Unwritten, Gone
<1>4. ASSUME NEW a \in SUBSET Records, Order(l, g, c, f, ps, a) PROVE Order(m, g, d, f, ps, a)
  <2>1. /\ Alone(ps) /\ Ascending(l, g, c, f) /\ Marks(l, f) /\ Durable(l, g)
        /\ Sorted(ps) /\ Latest(l, g, ps) /\ Kept(l, g, ps) /\ Vouched(l, g, c, a)
    BY <1>4 DEF Order
  <2>2. /\ l \in Logs /\ c \in Controls /\ ps \in [Proc -> Threads] /\ g \in [DOMAIN g -> Segments]
        /\ RedoLSN(l) \in Nat /\ RedoLSN(m) \in Nat /\ RedoLSN(l) <= RedoLSN(m)
        /\ NextLSN(c) \in Nat /\ NextLSN(d) = NextLSN(l) /\ NextLSN(l) \in Nat /\ DurableLSN(d) = DurableLSN(l)
    BY LogTypes, ControlTypes, SMTT(30) DEF Shape, Typed, IsCheckpointed
  <2>3. \A s \in DOMAIN g : Start(g[s]) \in Nat
    BY <2>2, SegmentTypes
  <2>4. \A s \in DOMAIN g : Start(g[s]) <= NextLSN(d)
    BY <2>1, <2>2, <2>3 DEF Ascending
  <2>5. NextLSN(d) <= NextLSN(m) /\ DurableLSN(d) < NextLSN(d)
    BY <2>1, <2>2 DEF IsCheckpointed, Durable
  <2>6. Ascending(m, g, d, f)
    BY <1>1, <2>1, <2>4, <2>5, Zenon DEF Ascending, IsCheckpointed
  <2>7. Marks(m, f) /\ Durable(m, g) /\ Latest(m, g, ps)
    BY <2>1, Zenon DEF Marks, Durable, Latest, IsCheckpointed
  <2>8. \A r \in Records : Lsn(r) \in Nat
    BY RecordTypes
  <2>9. Kept(m, g, ps)
    <3>1. ASSUME NEW p \in Proc, NEW r \in Range(Recs(ps[p])) PROVE r \in Records
      <4>1. Recs(ps[p]) \in Seq(Records)
        BY <2>2, ThreadTypes
      <4> QED
        BY <3>1, <4>1, RangeOf
    <3>2. \A r \in Records : Found(l, g, r) => Found(m, g, r)
      <4>1. \A r \in Records : Lsn(r) < RedoLSN(l) => Lsn(r) < RedoLSN(m)
        BY <2>2, <2>8
      <4> QED
        BY <4>1, Zenon DEF Found, IsCheckpointed
    <3> QED
      BY <2>1, <3>1, <3>2, Zenon DEF Kept, IsCheckpointed
  <2>10. Vouched(m, g, d, a)
    <3>1. \A s \in DOMAIN g : Start(g[s]) <= RedoLSN(l) => Start(g[s]) <= RedoLSN(m)
      BY <2>2, <2>3
    <3>2. \A r \in a : Lsn(r) >= RedoLSN(m) => Lsn(r) >= RedoLSN(l)
      BY <2>2, <2>8
    <3> QED
      BY <2>1, <3>1, <3>2, Zenon DEF Vouched, IsCheckpointed
  <2> QED
    BY <2>1, <2>6, <2>7, <2>9, <2>10 DEF Order
<1> QED
  BY <1>2, <1>3, <1>4

\* Some segments are gone, each with a later one that starts at or below the
\* redo boundary; not the one in use, nor the last that starts there.
IsDiscarded(l, g, h) ==
    /\ DOMAIN h \subseteq DOMAIN g /\ SegID(l) \in DOMAIN h /\ h \in [DOMAIN h -> Segments]
    /\ \A s \in DOMAIN h : h[s] = g[s]
    /\ \A s \in DOMAIN g : s \notin DOMAIN h => \E q \in DOMAIN g : s < q /\ Start(g[q]) <= RedoLSN(l)
    /\ (\E s \in DOMAIN g : Start(g[s]) <= RedoLSN(l)) => \E s \in DOMAIN h : Start(h[s]) <= RedoLSN(l)

\* DiscardCheckpointedSegments takes no record away that recovery would read.
LEMMA Discarded ==
    ASSUME NEW l, NEW g, NEW c, NEW f, NEW ps, NEW h, Shape(l, g, c, f, ps), IsDiscarded(l, g, h)
    PROVE  /\ Shape(l, h, c, f, ps)
           /\ \A n, gone : Placed(l, g, f, ps, n, gone) => Placed(l, h, f, ps, n, gone)
           /\ \A a : Order(l, g, c, f, ps, a) => Order(l, h, c, f, ps, a)
<1>1. Shape(l, h, c, f, ps)
  BY Zenon DEF Shape, Typed, Ended, IsDiscarded
<1>2. ASSUME NEW n, NEW gone, Placed(l, g, f, ps, n, gone) PROVE Placed(l, h, f, ps, n, gone)
  BY <1>2, Zenon DEF IsDiscarded, Placed, Numbered, Waiting, Unwritten, Gone
<1>3. ASSUME NEW a, Order(l, g, c, f, ps, a) PROVE Order(l, h, c, f, ps, a)
  <2>1. /\ Alone(ps) /\ Ascending(l, g, c, f) /\ Marks(l, f) /\ Durable(l, g)
        /\ Sorted(ps) /\ Latest(l, g, ps) /\ Kept(l, g, ps) /\ Vouched(l, g, c, a)
    BY <1>3 DEF Order
  <2>2. /\ l \in Logs /\ RedoLSN(l) \in Nat /\ SegID(l) \in Nat
        /\ \A s \in DOMAIN g : s \in Nat /\ s <= SegID(l) /\ g[s] \in Segments /\ Synced(g[s]) <= Len(Recs(g[s]))
    BY LogTypes DEF Shape, Typed
  <2>3. \A s \in DOMAIN g : Start(g[s]) \in Nat /\ Recs(g[s]) \in Seq(Records)
    BY <2>2, SegmentTypes
  <2>4. Ascending(l, h, c, f)
    BY <2>1, Zenon DEF Ascending, IsDiscarded
  <2>5. Durable(l, h) /\ Latest(l, h, ps)
    BY <2>1, Zenon DEF Durable, Latest, IsDiscarded
  <2>6. ASSUME NEW s \in DOMAIN g, s \notin DOMAIN h, NEW r \in Range(Recs(g[s])) PROVE Lsn(r) < RedoLSN(l)
    <3>1. PICK q \in DOMAIN g : s < q /\ Start(g[q]) <= RedoLSN(l)
      BY <2>6 DEF IsDiscarded
    <3>2. Below(Recs(g[s]), Start(g[q]))
      BY <2>1, <3>1, ZenonT(40) DEF Ascending
    <3>3. PICK i \in 1..Len(Recs(g[s])) : r = Recs(g[s])[i]
      BY <2>3, <2>6, RangeOf, Zenon
    <3>4. Lsn(r) < Start(g[q]) /\ Lsn(r) \in Nat
      BY <2>3, <3>2, <3>3, RecordTypes, SMTT(30) DEF Below
    <3> QED
      BY <2>2, <2>3, <3>1, <3>4, SMTT(30)
  <2>7. Kept(l, h, ps)
    <3>1. \A r : Found(l, g, r) => Found(l, h, r)
      BY <2>6, ZenonT(40) DEF Found, IsDiscarded
    <3> QED
      BY <2>1, <3>1, Zenon DEF Kept
  <2>8. Vouched(l, h, c, a)
    <3>1. \E s \in DOMAIN h : Start(h[s]) <= RedoLSN(l)
      BY <2>1, Zenon DEF Vouched, IsDiscarded
    <3>2. ASSUME NEW r \in a, Lsn(r) >= RedoLSN(l) PROVE \E s \in DOMAIN h : r \in Range(Safe(h[s]))
      <4>1. PICK s \in DOMAIN g : r \in Range(Safe(g[s]))
        BY <2>1, <3>2 DEF Vouched
      <4>2. r \in Range(Recs(g[s])) /\ Recs(g[s]) \in Seq(Records)
        BY <2>2, <2>3, <4>1, SegmentFacts
      <4>3. Lsn(r) \in Nat
        BY <4>2, RangeOf, RecordTypes, SMTT(30)
      <4>4. s \in DOMAIN h
        BY <2>2, <2>6, <3>2, <4>2, <4>3
      <4> QED
        BY <4>1, <4>4, SMTT(30) DEF IsDiscarded
    <3> QED
      BY <2>1, <3>1, <3>2, Zenon DEF Vouched
  <2> QED
    BY <2>1, <2>4, <2>5, <2>7, <2>8 DEF Order
<1> QED
  BY <1>1, <1>2, <1>3

\* Of every segment the synced part is left, of the last one maybe more.
IsSurvivor(x, y) ==
    /\ y \in Segments /\ Start(y) = Start(x) /\ Synced(y) = Len(Recs(y))
    /\ \E k \in Nat : Synced(x) <= k /\ k <= Len(Recs(x)) /\ Recs(y) = SubSeq(Recs(x), 1, k)

\* The log m, the control file d and the segments h after a power loss and Open.
IsReopened(l, g, c, m, h, d) ==
    /\ DOMAIN h = DOMAIN g /\ h \in [DOMAIN h -> Segments] /\ \A s \in DOMAIN g : IsSurvivor(g[s], h[s])
    /\ d \in Controls /\ NextLSN(d) = NextLSN(c) /\ DurableLSN(d) = DurableLSN(c) /\ RedoLSN(d) = RedoLSN(c)
    /\ m \in Logs /\ RedoLSN(m) = RedoLSN(c) /\ Buf(m) = <<>>
    /\ SegID(m) = SegID(l) /\ SegOff(m) = Len(Recs(h[SegID(l)]))
    /\ HoldOff(m) = 0 /\ HoldLen(m) = 0 /\ ~Latched(m)
    /\ NextLSN(c) <= NextLSN(m)
    /\ DurableLSN(c) < NextLSN(c) => DurableLSN(m) < NextLSN(m)
    /\ Recs(h[SegID(l)]) # <<>> => Lsn(Last(Recs(h[SegID(l)]))) < NextLSN(m)

\* After a power loss and Open the invariant holds of what is left.
LEMMA Reopened ==
    ASSUME NEW l, NEW g, NEW c, NEW f, NEW ps, NEW m, NEW h, NEW d, NEW e, NEW qs,
           Shape(l, g, c, f, ps), IsReopened(l, g, c, m, h, d), NoWrite(e), qs = [p \in Proc |-> Idle]
    PROVE  /\ Shape(m, h, d, e, qs)
           /\ \A n, gone : Placed(l, g, f, ps, n, gone) => Placed(m, h, e, qs, n, gone)
           /\ \A a : Order(l, g, c, f, ps, a) => Order(m, h, d, e, qs, a)
<1>1. /\ Typed(l, g, c, f, ps) /\ l \in Logs /\ c \in Controls /\ m \in Logs /\ e \in Writes
      /\ \A s \in DOMAIN g : /\ g[s] \in Segments /\ Recs(g[s]) \in Seq(Records) /\ Synced(g[s]) \in Nat
                             /\ Start(g[s]) \in Nat /\ Synced(g[s]) <= Len(Recs(g[s]))
  BY SegmentTypes DEF Shape, Typed, IsReopened, NoWrite
<1>2. PICK id \in Nat : id = SegID(l) /\ id \in DOMAIN g /\ \A s \in DOMAIN g : s \in Nat /\ s <= id
  BY <1>1, LogTypes, SMTT(30) DEF Typed
<1>3. ASSUME NEW s \in DOMAIN g
      PROVE  /\ h[s] \in Segments /\ Start(h[s]) = Start(g[s]) /\ Synced(h[s]) = Len(Recs(h[s]))
             /\ Recs(h[s]) \in Seq(Records) /\ Range(Safe(g[s])) \subseteq Range(Recs(h[s]))
             /\ \E t \in Seq(Records) : Joins(Recs(g[s]), Recs(h[s]), t)
  <2>1. IsSurvivor(g[s], h[s])
    BY DEF IsReopened
  <2>2. PICK k \in Nat : Synced(g[s]) <= k /\ k <= Len(Recs(g[s])) /\ Recs(h[s]) = SubSeq(Recs(g[s]), 1, k)
    BY <2>1 DEF IsSurvivor
  <2>3. /\ Recs(h[s]) \in Seq(Records) /\ Range(Safe(g[s])) \subseteq Range(Recs(h[s]))
        /\ \E t \in Seq(Records) : Joins(Recs(g[s]), Recs(h[s]), t)
    BY <1>1, <2>2, Prefixes, Zenon DEF Safe
  <2> QED
    BY <2>1, <2>3, Zenon DEF IsSurvivor
<1>4. ASSUME NEW s \in DOMAIN g
      PROVE  Synced(h[s]) <= Len(Recs(h[s])) /\ Safe(h[s]) = Recs(h[s]) /\ Loose(h[s]) = <<>>
  <2>1. h[s] \in Segments /\ Recs(h[s]) \in Seq(Records) /\ Synced(h[s]) = Len(Recs(h[s]))
    BY <1>3, ZenonT(40)
  <2>2. Len(Recs(h[s])) \in Nat
    BY <2>1
  <2>3. Synced(h[s]) <= Len(Recs(h[s]))
    BY <2>1, <2>2
  <2> QED
    BY <2>1, <2>3, SegmentFacts, Zenon
<1>5. /\ qs \in [Proc -> Threads]
      /\ \A p \in Proc : /\ Recs(qs[p]) = <<>> /\ Pending(qs[p]) = <<>> /\ WellFormed(qs[p])
                         /\ Kind(qs[p]) = "append" /\ Pc(qs[p]) = "idle"
  BY IdleFacts
<1>6. Copied(e) = 0 /\ Done(m, e) = <<>> /\ Rest(m, e) = <<>> /\ Buf(m) = <<>>
  BY Whole DEF Copied, NoWrite, Done, Rest, IsReopened
<1>7. Shape(m, h, d, e, qs)
  <2>1. Typed(m, h, d, e, qs)
    <3>1. DOMAIN h = DOMAIN g /\ SegID(m) = SegID(l) /\ d \in Controls
      BY DEF IsReopened
    <3>2. h \in [DOMAIN h -> Segments]
      BY DEF IsReopened
    <3>3. \A s \in DOMAIN h : Synced(h[s]) <= Len(Recs(h[s]))
      BY <1>4, <3>1, ZenonT(40)
    <3> QED
      BY <1>1, <1>5, <3>1, <3>2, <3>3, ZenonT(40) DEF Typed
  <2>2. Ended(m, h, e)
    BY <1>2, <1>3, <1>6, NoRecords DEF Ended, IsReopened
  <2>3. Captured(m, e, qs)
    BY DEF Captured, NoWrite
  <2>4. Held(m, qs)
    BY <1>5 DEF Held, IsReopened
  <2> QED
    BY <2>1, <2>2, <2>3, <2>4 DEF Shape
<1>8. ASSUME NEW n, NEW gone, Placed(l, g, f, ps, n, gone) PROVE Placed(m, h, e, qs, n, gone)
  <2>1. ASSUME NEW s \in DOMAIN g
        PROVE  Upto(Recs(h[s]), n) /\ \A r : Absent(Recs(g[s]), r) => Absent(Recs(h[s]), r)
    BY <1>3, <1>8, ZenonT(40) DEF Joins, Placed, Numbered
  <2>2. DOMAIN h = DOMAIN g
    BY DEF IsReopened
  <2>3. Numbered(m, h, qs, n) /\ Distinct(m, qs) /\ Waiting(m, h, qs) /\ Unwritten(m, h, e) /\ Owned(qs, n)
    BY <1>5, <1>6, <2>1, <2>2, NoRecords, Zenon DEF Numbered, Distinct, Waiting, Unwritten, Owned
  <2>4. Gone(m, h, qs, n, gone)
    BY <1>5, <1>6, <1>8, <2>1, <2>2, NoRecords, ZenonT(40) DEF Placed, Gone
  <2> QED
    BY <2>3, <2>4 DEF Placed
<1>9. ASSUME NEW a, Order(l, g, c, f, ps, a) PROVE Order(m, h, d, e, qs, a)
  <2>1. Ascending(l, g, c, f) /\ Vouched(l, g, c, a) /\ DOMAIN h = DOMAIN g
    BY <1>9 DEF Order, IsReopened
  <2>2. NextLSN(c) \in Nat /\ NextLSN(m) \in Nat /\ NextLSN(c) <= NextLSN(m) /\ NextLSN(d) = NextLSN(c)
    BY <1>1, LogTypes, ControlTypes DEF IsReopened
  <2>3. \A s, q \in DOMAIN g : s < q => Below(Recs(h[s]), Start(g[q])) /\ Before(Recs(h[s]), Recs(h[q]))
    BY <1>3, <2>1, Zenon DEF Joins, Ascending
  <2>4. \A s \in DOMAIN g : Increasing(Recs(h[s]))
    BY <1>3, <2>1, Zenon DEF Joins, Ascending
  <2>5. ASSUME NEW s \in DOMAIN g PROVE Below(Recs(h[s]), NextLSN(m))
    <3>1. CASE s = id
      <4> SUFFICES ASSUME NEW i \in 1..Len(Recs(h[s])) PROVE Lsn(Recs(h[s])[i]) < NextLSN(m)
        BY ZenonT(40) DEF Below
      <4>1. PICK recs \in Seq(Records) : recs = Recs(h[s])
        BY <1>3
      <4>2. recs # <<>> /\ Len(recs) \in 1..Len(recs) /\ i \in 1..Len(recs) /\ i <= Len(recs)
        BY <4>1
      <4>3. Lsn(recs[Len(recs)]) < NextLSN(m)
        BY <1>2, <3>1, <4>1, <4>2 DEF IsReopened, Last
      <4>4. Lsn(recs[i]) \in Nat /\ Lsn(recs[Len(recs)]) \in Nat
        BY <4>2, RecordTypes
      <4>5. i # Len(recs) => Lsn(recs[i]) < Lsn(recs[Len(recs)])
        BY <2>4, <4>1, <4>2, SMTT(30) DEF Increasing
      <4> QED
        BY <2>2, <4>1, <4>3, <4>4, <4>5
    <3>2. CASE s # id
      <4>1. s < id
        BY <1>2, <3>2, SMTT(30)
      <4>2. Below(Recs(h[s]), Start(g[id])) /\ Start(g[id]) \in Nat /\ Start(g[id]) <= NextLSN(c)
        BY <1>1, <1>2, <2>1, <2>3, <4>1, Zenon DEF Ascending
      <4> QED
        BY <1>3, <2>2, <4>2, Monotone, Zenon
    <3> QED
      BY <3>1, <3>2
  <2>6. Ascending(m, h, d, e)
    <3>1. DurableLSN(d) < NextLSN(d) /\ NextLSN(d) <= NextLSN(m)
      BY <2>1, <2>2, SMTT(30) DEF Ascending, IsReopened
    <3>2. \A s \in DOMAIN g : Start(h[s]) <= NextLSN(d)
      BY <1>3, <2>1, <2>2, Zenon DEF Ascending
    <3>3. \A s, q \in DOMAIN g : s < q => Start(h[s]) <= Start(h[q]) /\ Below(Recs(h[s]), Start(h[q]))
      BY <1>3, <2>1, <2>3, Zenon DEF Ascending
    <3> QED
      BY <1>6, <2>1, <2>3, <2>4, <2>5, <3>1, <3>2, <3>3, NoRecords, ZenonT(40) DEF Ascending
  <2>7. Marks(m, e)
    BY <1>6 DEF Marks, IsReopened, NoWrite
  <2>8. Durable(m, h)
    <3>1. Loose(h[id]) = <<>>
      BY <1>2, <1>4, Zenon
    <3> QED
      BY <1>2, <1>6, <2>1, <3>1, NoRecords DEF Durable, Ascending, IsReopened
  <2>9. Alone(qs) /\ Sorted(qs) /\ Latest(m, h, qs) /\ Kept(m, h, qs)
    BY <1>5, NoRecords, Zenon DEF Alone, Sorted, Latest, Kept
  <2>10. Vouched(m, h, d, a)
    BY <1>3, <1>4, <2>1, Zenon DEF Vouched, IsReopened
  <2> QED
    BY <2>6, <2>7, <2>8, <2>9, <2>10 DEF Order
<1> QED
  BY <1>7, <1>8, <1>9

=============================================================================
