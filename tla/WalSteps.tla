------------------------------ MODULE WalSteps ------------------------------
(***************************************************************************)
(* Sequences of records, and what the steps of the threads do to the parts *)
(* of the invariant: a thread moves, gets LSNs for new records, buffers    *)
(* them, releases the record it holds.                                     *)
(***************************************************************************)
EXTENDS WalState, TLAPS

-----------------------------------------------------------------------------
(* Facts about records and sequences of them *)

\* Ids and LSNs start at 1.
LEMMA RecordTypes == \A r \in Records : Id(r) \in Nat \ {0} /\ Lsn(r) \in Nat \ {0}
BY DEF Records, Id, Lsn

\* The types of the fields of a log that the proofs below speak of.
LEMMA LogTypes ==
    \A l \in Logs : /\ NextLSN(l) \in Nat \ {0} /\ DurableLSN(l) \in Nat /\ RedoLSN(l) \in Nat \ {0}
                    /\ Buf(l) \in Seq(Records) /\ BufLast(l) \in Nat /\ SegID(l) \in Nat /\ SegOff(l) \in Nat
                    /\ HoldOff(l) \in Nat /\ HoldLen(l) \in Nat /\ HoldLSN(l) \in Nat /\ HoldPrev(l) \in Nat
                    /\ Latched(l) \in BOOLEAN
BY SMTT(30) DEF Logs, Holds, NextLSN, DurableLSN, RedoLSN, Buf, BufLast, SegID, SegOff, HoldOff, HoldLen, HoldLSN, HoldPrev, Latched

\* The types of the fields of a segment.
LEMMA SegmentTypes ==
    \A x \in Segments : Start(x) \in Nat \ {0} /\ Recs(x) \in Seq(Records) /\ Synced(x) \in Nat
BY DEF Segments, Start, Recs, Synced

\* The types of the fields of the control file.
LEMMA ControlTypes ==
    \A c \in Controls : NextLSN(c) \in Nat \ {0} /\ DurableLSN(c) \in Nat /\ RedoLSN(c) \in Nat \ {0}
BY DEF Controls, NextLSN, DurableLSN, RedoLSN

\* The types of the fields of the write in progress.
LEMMA WriteTypes ==
    \A f \in Writes : By(f) \in Proc \cup {NoProc} /\ Count(f) \in Nat /\ LastLSN(f) \in Nat /\ Written(f) \in BOOLEAN
BY DEF Writes, By, Count, LastLSN, Written

\* The types of the fields of a thread.
LEMMA ThreadTypes ==
    \A x \in Threads :
      /\ Pc(x) \in {"idle", "appended", "images", "encrypt", "rotate", "held", "flush", "wait", "woken"}
      /\ Kind(x) \in {"append", "images", "held"} /\ Recs(x) \in Seq(Records)
BY DEF Threads, Pc, Kind, Recs

\* What is where in a sequence put behind another.
LEMMA ConcatFacts ==
    ASSUME NEW S, NEW a \in Seq(S), NEW b \in Seq(S)
    PROVE  /\ a \o b \in Seq(S) /\ Len(a \o b) = Len(a) + Len(b)
           /\ \A i \in 1..Len(a) : i \in 1..Len(a \o b) /\ (a \o b)[i] = a[i]
           /\ \A i \in 1..Len(b) : Len(a) + i \in 1..Len(a \o b) /\ (a \o b)[Len(a) + i] = b[i]
           /\ \A i \in 1..Len(a \o b) : i > Len(a) => i - Len(a) \in 1..Len(b) /\ (a \o b)[i] = b[i - Len(a)]
OBVIOUS

\* Two sequences with the same elements in the same places are one.
LEMMA SameSeq ==
    ASSUME NEW S, NEW s \in Seq(S), NEW t \in Seq(S), Len(s) = Len(t), \A i \in 1..Len(s) : s[i] = t[i]
    PROVE  s = t
OBVIOUS

\* The whole of a sequence, and a sequence with nothing before or behind it.
LEMMA Whole ==
    ASSUME NEW S, NEW s \in Seq(S)
    PROVE  SubSeq(s, 1, Len(s)) = s /\ s \o <<>> = s /\ <<>> \o s = s
OBVIOUS

\* A sequence is its first k elements followed by the others, as Buf and Recs are
\* split at what has been written and at what has been synced.
LEMMA Split ==
    ASSUME NEW S, NEW s \in Seq(S), NEW k \in Nat, k <= Len(s)
    PROVE  /\ SubSeq(s, 1, k) \in Seq(S) /\ SubSeq(s, k + 1, Len(s)) \in Seq(S)
           /\ s = SubSeq(s, 1, k) \o SubSeq(s, k + 1, Len(s))
           /\ Len(SubSeq(s, 1, k)) = k /\ Len(SubSeq(s, k + 1, Len(s))) = Len(s) - k
           /\ k = 0 => SubSeq(s, 1, k) = <<>> /\ SubSeq(s, k + 1, Len(s)) = s
           /\ k = Len(s) => SubSeq(s, 1, k) = s /\ SubSeq(s, k + 1, Len(s)) = <<>>
<1>1. SubSeq(s, 1, k) \in Seq(S) /\ SubSeq(s, k + 1, Len(s)) \in Seq(S)
  OBVIOUS
<1>2. Len(SubSeq(s, 1, k)) = k /\ Len(SubSeq(s, k + 1, Len(s))) = Len(s) - k
  OBVIOUS
<1>3. s = SubSeq(s, 1, k) \o SubSeq(s, k + 1, Len(s))
  <2>1. PICK u \in Seq(S) : u = SubSeq(s, 1, k) /\ Len(u) = k /\ \A i \in 1..k : u[i] = s[i]
    <3>1. \A i \in 1..k : SubSeq(s, 1, k)[i] = s[i]
      OBVIOUS
    <3> QED
      BY <1>1, <1>2, <3>1, Zenon
  <2>2. PICK v \in Seq(S) : v = SubSeq(s, k + 1, Len(s)) /\ Len(v) = Len(s) - k /\ \A i \in 1..Len(s) - k : v[i] = s[k + i]
    <3>1. \A i \in 1..Len(s) - k : SubSeq(s, k + 1, Len(s))[i] = s[k + i]
      OBVIOUS
    <3> QED
      BY <1>1, <1>2, <3>1, Zenon
  <2>3. PICK c \in Seq(S) : c = u \o v
    BY ConcatFacts, Zenon
  <2>4. /\ Len(c) = Len(u) + Len(v) /\ \A i \in 1..Len(u) : c[i] = u[i]
        /\ \A i \in 1..Len(c) : i > Len(u) => i - Len(u) \in 1..Len(v) /\ c[i] = v[i - Len(u)]
    BY <2>3, ConcatFacts
  <2>5. Len(c) = Len(s)
    BY <2>1, <2>2, <2>4
  <2>6. ASSUME NEW i \in 1..Len(c) PROVE c[i] = s[i]
    <3>1. CASE i <= k
      BY <2>1, <2>4, <3>1
    <3>2. CASE i > k
      <4>1. Len(u) = k /\ i \in 1..Len(s)
        BY <2>1, <2>5
      <4>2. i - k \in 1..Len(s) - k /\ c[i] = v[i - k] /\ k + (i - k) = i
        BY <2>4, <3>2, <4>1
      <4> QED
        BY <2>2, <4>2, Zenon
    <3> QED
      BY <3>1, <3>2
  <2> QED
    BY <2>1, <2>2, <2>3, <2>5, <2>6, SameSeq, Zenon
<1>4. k = 0 => SubSeq(s, 1, k) = <<>> /\ SubSeq(s, k + 1, Len(s)) = s
  BY Whole
<1>5. k = Len(s) => SubSeq(s, 1, k) = s /\ SubSeq(s, k + 1, Len(s)) = <<>>
  BY Whole
<1> QED
  BY <1>1, <1>2, <1>3, <1>4, <1>5, Zenon

\* The records of a sequence are those at its places.
LEMMA RangeOf == \A s \in Seq(Records) : \A r : r \in Range(s) <=> \E i \in 1..Len(s) : r = s[i]
BY DEF Range

\* The records of two sequences in a row.
LEMMA RangeConcat ==
    ASSUME NEW S, NEW a \in Seq(S), NEW b \in Seq(S)
    PROVE  Range(a \o b) = Range(a) \cup Range(b) /\ Range(a) \subseteq S
<1>1. \A s \in Seq(S) : Range(s) = {s[i] : i \in 1..Len(s)}
  BY DEF Range
<1>2. a \o b \in Seq(S)
  OBVIOUS
<1>3. PICK c \in Seq(S) : c = a \o b
  BY <1>2, Zenon
<1>4. /\ \A i \in 1..Len(a) : i \in 1..Len(c) /\ c[i] = a[i]
      /\ \A i \in 1..Len(b) : Len(a) + i \in 1..Len(c) /\ c[Len(a) + i] = b[i]
      /\ \A i \in 1..Len(c) : i > Len(a) => i - Len(a) \in 1..Len(b) /\ c[i] = b[i - Len(a)]
  BY <1>3, ConcatFacts
<1>5. Range(c) \subseteq Range(a) \cup Range(b)
  <2>1. ASSUME NEW i \in 1..Len(c) PROVE c[i] \in Range(a) \cup Range(b)
    <3>1. CASE i \in 1..Len(a)
      BY <1>1, <1>4, <3>1
    <3>2. CASE i > Len(a)
      BY <1>1, <1>4, <3>2
    <3> QED
      BY <3>1, <3>2
  <2> QED
    BY <1>1, <2>1
<1>6. Range(a) \subseteq Range(c) /\ Range(b) \subseteq Range(c)
  <2>1. \A i \in 1..Len(a) : a[i] \in Range(c)
    BY <1>1, <1>4
  <2>2. \A i \in 1..Len(b) : b[i] \in Range(c)
    BY <1>1, <1>4
  <2> QED
    BY <1>1, <2>1, <2>2, SMTT(30)
<1>7. Range(a) \subseteq S
  BY <1>1
<1> QED
  BY <1>3, <1>5, <1>6, <1>7, Zenon

\* Having no id in common does not depend on the order.
LEMMA ApartSymmetric == \A s, t : Apart(s, t) <=> Apart(t, s)
BY DEF Apart

\* What holds of c when it is a followed by b.
Joins(c, a, b) ==
    /\ \A n : Upto(c, n) <=> Upto(a, n) /\ Upto(b, n)
    /\ \A r : Absent(c, r) <=> Absent(a, r) /\ Absent(b, r)
    /\ \A x : Below(c, x) <=> Below(a, x) /\ Below(b, x)
    /\ \A x : Above(c, x) <=> Above(a, x) /\ Above(b, x)
    /\ \A t : Apart(c, t) <=> Apart(a, t) /\ Apart(b, t)
    /\ \A t : Apart(t, c) <=> Apart(t, a) /\ Apart(t, b)
    /\ \A t : Before(c, t) <=> Before(a, t) /\ Before(b, t)
    /\ \A t : Before(t, c) <=> Before(t, a) /\ Before(t, b)
    /\ OneEach(c) <=> OneEach(a) /\ OneEach(b) /\ Apart(a, b)
    /\ Increasing(c) <=> Increasing(a) /\ Increasing(b) /\ Before(a, b)
    /\ Range(c) = Range(a) \cup Range(b)

\* A sequence of records put behind another joins them.
LEMMA Parts ==
    ASSUME NEW a \in Seq(Records), NEW b \in Seq(Records)
    PROVE  Joins(a \o b, a, b)
<1>1. PICK c \in Seq(Records) : c = a \o b
  BY ConcatFacts, Zenon
<1>2. /\ Len(c) = Len(a) + Len(b) /\ \A i \in 1..Len(a) : i \in 1..Len(c) /\ c[i] = a[i]
      /\ \A i \in 1..Len(b) : Len(a) + i \in 1..Len(c) /\ c[Len(a) + i] = b[i]
      /\ \A i \in 1..Len(c) : i > Len(a) => i - Len(a) \in 1..Len(b) /\ c[i] = b[i - Len(a)]
  BY <1>1, ConcatFacts
<1>3. \A i \in 1..Len(c) : (\E j \in 1..Len(a) : j = i /\ c[i] = a[j]) \/ (\E j \in 1..Len(b) : i = Len(a) + j /\ c[i] = b[j])
  BY <1>2
<1>4. \A n : Upto(c, n) <=> Upto(a, n) /\ Upto(b, n)
  BY <1>2, <1>3, Zenon DEF Upto
<1>5. ASSUME NEW r PROVE Absent(c, r) <=> Absent(a, r) /\ Absent(b, r)
  <2>1. Absent(c, r) => Absent(a, r) /\ Absent(b, r)
    BY <1>2, Zenon DEF Absent
  <2>2. Absent(a, r) /\ Absent(b, r) => Absent(c, r)
    BY <1>3, Zenon DEF Absent
  <2> QED
    BY <2>1, <2>2
<1>6. \A x : Below(c, x) <=> Below(a, x) /\ Below(b, x)
  BY <1>2, <1>3, Zenon DEF Below
<1>7. \A x : Above(c, x) <=> Above(a, x) /\ Above(b, x)
  BY <1>2, <1>3, Zenon DEF Above
<1>8. \A t : Apart(c, t) <=> Apart(a, t) /\ Apart(b, t)
  <2>1. ASSUME NEW t, Apart(c, t) PROVE Apart(a, t) /\ Apart(b, t)
    <3>1. ASSUME NEW i \in 1..Len(a), NEW j \in 1..Len(t) PROVE Id(a[i]) # Id(t[j])
      <4>1. i \in 1..Len(c) /\ c[i] = a[i]
        BY <1>2
      <4> QED
        BY <2>1, <4>1 DEF Apart
    <3>2. ASSUME NEW i \in 1..Len(b), NEW j \in 1..Len(t) PROVE Id(b[i]) # Id(t[j])
      <4>1. Len(a) + i \in 1..Len(c) /\ c[Len(a) + i] = b[i]
        BY <1>2
      <4> QED
        BY <2>1, <4>1 DEF Apart
    <3> QED
      BY <3>1, <3>2, Zenon DEF Apart
  <2>2. ASSUME NEW t, Apart(a, t), Apart(b, t), NEW i \in 1..Len(c), NEW j \in 1..Len(t) PROVE Id(c[i]) # Id(t[j])
    <3>1. CASE \E h \in 1..Len(a) : h = i /\ c[i] = a[h]
      BY <2>2, <3>1 DEF Apart
    <3>2. CASE \E h \in 1..Len(b) : i = Len(a) + h /\ c[i] = b[h]
      BY <2>2, <3>2 DEF Apart
    <3> QED
      BY <1>3, <3>1, <3>2
  <2> QED
    BY <2>1, <2>2, Zenon DEF Apart
<1>9. \A t : Apart(t, c) <=> Apart(t, a) /\ Apart(t, b)
  BY <1>8, ApartSymmetric
<1>10. \A t : Before(c, t) <=> Before(a, t) /\ Before(b, t)
  BY <1>2, <1>3, Zenon DEF Before
<1>11. \A t : Before(t, c) <=> Before(t, a) /\ Before(t, b)
  BY <1>2, <1>3, Zenon DEF Before
<1>12. OneEach(c) <=> OneEach(a) /\ OneEach(b) /\ Apart(a, b)
  <2>1. ASSUME OneEach(c) PROVE OneEach(a) /\ OneEach(b) /\ Apart(a, b)
    <3>1. OneEach(a)
      BY <1>2, <2>1, Zenon DEF OneEach
    <3>2. ASSUME NEW i \in 1..Len(b), NEW j \in 1..Len(b), Id(b[i]) = Id(b[j]) PROVE i = j
      <4>1. /\ Len(a) + i \in 1..Len(c) /\ c[Len(a) + i] = b[i]
            /\ Len(a) + j \in 1..Len(c) /\ c[Len(a) + j] = b[j]
        BY <1>2
      <4>2. Len(a) + i = Len(a) + j
        BY <2>1, <3>2, <4>1, Zenon DEF OneEach
      <4> QED
        BY <4>2
    <3>3. ASSUME NEW i \in 1..Len(a), NEW j \in 1..Len(b), Id(a[i]) = Id(b[j]) PROVE FALSE
      <4>1. i = Len(a) + j
        BY <1>2, <2>1, <3>3 DEF OneEach
      <4> QED
        BY <4>1
    <3> QED
      BY <3>1, <3>2, <3>3 DEF OneEach, Apart
  <2>2. ASSUME OneEach(a), OneEach(b), Apart(a, b), NEW i \in 1..Len(c), NEW j \in 1..Len(c), Id(c[i]) = Id(c[j]) PROVE i = j
    <3>1. CASE i \in 1..Len(a) /\ c[i] = a[i]
      <4>1. j \in 1..Len(a) /\ c[j] = a[j]
        BY <1>3, <2>2, <3>1, Zenon DEF Apart
      <4> QED
        BY <2>2, <3>1, <4>1 DEF OneEach
    <3>2. CASE \E h \in 1..Len(b) : i = Len(a) + h /\ c[i] = b[h]
      <4>1. \E h \in 1..Len(b) : j = Len(a) + h /\ c[j] = b[h]
        BY <1>3, <2>2, <3>2 DEF Apart
      <4> QED
        BY <2>2, <3>2, <4>1, SMTT(30) DEF OneEach
    <3> QED
      BY <1>3, <3>1, <3>2
  <2> QED
    BY <2>1, <2>2 DEF OneEach
<1>13. Increasing(c) <=> Increasing(a) /\ Increasing(b) /\ Before(a, b)
  <2>1. ASSUME Increasing(c) PROVE Increasing(a) /\ Increasing(b) /\ Before(a, b)
    <3>1. Increasing(a)
      BY <1>2, <2>1, Zenon DEF Increasing
    <3>2. ASSUME NEW i \in 1..Len(b), NEW j \in 1..Len(b), i < j PROVE Lsn(b[i]) < Lsn(b[j])
      <4>1. Len(a) + i < Len(a) + j
        BY <3>2
      <4> QED
        BY <1>2, <2>1, <4>1, Zenon DEF Increasing
    <3>3. ASSUME NEW i \in 1..Len(a), NEW j \in 1..Len(b) PROVE Lsn(a[i]) < Lsn(b[j])
      <4>1. i < Len(a) + j
        OBVIOUS
      <4> QED
        BY <1>2, <2>1, <4>1 DEF Increasing
    <3> QED
      BY <3>1, <3>2, <3>3 DEF Increasing, Before
  <2>2. ASSUME Increasing(a), Increasing(b), Before(a, b), NEW i \in 1..Len(c), NEW j \in 1..Len(c), i < j PROVE Lsn(c[i]) < Lsn(c[j])
    <3>1. CASE j \in 1..Len(a)
      <4>1. i \in 1..Len(a)
        BY <2>2, <3>1
      <4>2. c[i] = a[i] /\ c[j] = a[j]
        BY <1>2, <3>1, <4>1
      <4> QED
        BY <2>2, <3>1, <4>1, <4>2 DEF Increasing
    <3>2. CASE i \in 1..Len(a) /\ j > Len(a)
      BY <1>2, <2>2, <3>2 DEF Before
    <3>3. CASE i > Len(a)
      <4>1. i - Len(a) < j - Len(a) /\ j > Len(a)
        BY <2>2, <3>3
      <4> QED
        BY <1>2, <2>2, <3>3, <4>1, Zenon DEF Increasing
    <3> QED
      BY <3>1, <3>2, <3>3
  <2> QED
    BY <2>1, <2>2 DEF Increasing
<1>14. Range(c) = Range(a) \cup Range(b)
  BY <1>1, RangeConcat
<1> QED
  BY <1>1, <1>4, <1>5, <1>6, <1>7, <1>8, <1>9, <1>10, <1>11, <1>12, <1>13, <1>14, Zenon DEF Joins

\* What holds of no records at all.
LEMMA NoRecords ==
    /\ \A n : Upto(<<>>, n)
    /\ \A r : Absent(<<>>, r)
    /\ \A x : At(<<>>, x) /\ Below(<<>>, x) /\ Above(<<>>, x)
    /\ \A t : Apart(<<>>, t) /\ Apart(t, <<>>) /\ Before(<<>>, t) /\ Before(t, <<>>)
    /\ OneEach(<<>>) /\ Increasing(<<>>) /\ Range(<<>>) = {}
BY DEF Upto, Absent, At, Below, Above, Apart, Before, OneEach, Increasing, Range

\* Bounds on ids and LSNs may be widened.
LEMMA Monotone ==
    ASSUME NEW s \in Seq(Records), NEW x \in Nat, NEW y \in Nat, x <= y
    PROVE  (Below(s, x) => Below(s, y)) /\ (Above(s, y) => Above(s, x)) /\ (Upto(s, x) => Upto(s, y))
<1>1. \A i \in 1..Len(s) : Lsn(s[i]) \in Nat /\ Id(s[i]) \in Nat
  BY RecordTypes
<1> QED
  BY <1>1 DEF Below, Above, Upto

\* What is left of a sequence without its first k elements.
LEMMA SuffixFacts ==
    ASSUME NEW S, NEW s \in Seq(S), NEW k \in Nat, k <= Len(s)
    PROVE  /\ SubSeq(s, k + 1, Len(s)) \in Seq(S) /\ Len(SubSeq(s, k + 1, Len(s))) = Len(s) - k
           /\ \A i \in 1..Len(s) - k : SubSeq(s, k + 1, Len(s))[i] = s[k + i]
<1>1. SubSeq(s, k + 1, Len(s)) \in Seq(S) /\ Len(SubSeq(s, k + 1, Len(s))) = Len(s) - k
  OBVIOUS
<1>2. \A i \in 1..Len(s) - k : SubSeq(s, k + 1, Len(s))[i] = s[k + i]
  OBVIOUS
<1> QED
  BY <1>1, <1>2

\* Places of the elements of t, which is s without its first k elements.
Moves(s, t, k) ==
    /\ Len(t) = Len(s) - k
    /\ \A i \in 1..Len(t) : t[i] = s[k + i] /\ k + i \in 1..Len(s) /\ k < k + i
    /\ t # <<>> => s # <<>> /\ t[Len(t)] = s[Len(s)]
    /\ \A o \in Nat : k <= o /\ o < Len(s) => o - k \in Nat /\ o - k < Len(t) /\ t[o - k + 1] = s[o + 1]
    /\ \A o \in Nat : k < o /\ o < Len(s) => t[o - k] = s[o]

\* An offset in a sequence of n elements, once k of them have left it.
LEMMA Offsets ==
    ASSUME NEW n \in Nat, NEW k \in Nat, NEW o \in Nat, o < n
    PROVE  /\ k <= o => /\ o - k + 1 \in 1..n - k /\ k + (o - k + 1) = o + 1
                        /\ o - k \in Nat /\ o - k < n - k
           /\ k < o => o - k \in 1..n - k /\ k + (o - k) = o
OBVIOUS

\* The elements that are left keep their order and move k places.
LEMMA MovesFacts ==
    ASSUME NEW s \in Seq(Records), NEW t \in Seq(Records), NEW k \in Nat, k <= Len(s),
           Len(t) = Len(s) - k, \A i \in 1..Len(s) - k : t[i] = s[k + i]
    PROVE  Moves(s, t, k)
<1>1. Len(s) \in Nat
  OBVIOUS
<1>2. \A i \in 1..Len(t) : t[i] = s[k + i] /\ k + i \in 1..Len(s) /\ k < k + i
  OBVIOUS
<1>3. ASSUME t # <<>> PROVE s # <<>> /\ t[Len(t)] = s[Len(s)]
  <2>1. Len(t) \in 1..Len(t) /\ k + Len(t) = Len(s)
    BY <1>3
  <2>2. t[Len(t)] = s[k + Len(t)]
    BY <1>2, <2>1, Zenon
  <2> QED
    BY <2>1, <2>2
<1>4. ASSUME NEW o \in Nat, k <= o, o < Len(s)
      PROVE  o - k \in Nat /\ o - k < Len(t) /\ t[o - k + 1] = s[o + 1]
  <2>1. o - k + 1 \in 1..Len(t) /\ k + (o - k + 1) = o + 1 /\ o - k \in Nat /\ o - k < Len(t)
    <3>1. o - k + 1 \in 1..Len(s) - k /\ k + (o - k + 1) = o + 1 /\ o - k \in Nat /\ o - k < Len(s) - k
      BY <1>1, <1>4, Offsets
    <3> QED
      BY <3>1, Zenon
  <2> QED
    BY <1>2, <2>1
<1>5. ASSUME NEW o \in Nat, k < o, o < Len(s) PROVE t[o - k] = s[o]
  <2>1. o - k \in 1..Len(t) /\ k + (o - k) = o
    <3>1. o - k \in 1..Len(s) - k /\ k + (o - k) = o
      BY <1>1, <1>5, Offsets
    <3> QED
      BY <3>1, Zenon
  <2> QED
    BY <1>2, <2>1
<1> QED
  BY <1>2, <1>3, <1>4, <1>5 DEF Moves

\* What is left of the buffer when flushLocked has consumed k records, and where
\* the held record then lies.
LEMMA Shifted ==
    ASSUME NEW s \in Seq(Records), NEW k \in Nat, k <= Len(s)
    PROVE  Moves(s, SubSeq(s, k + 1, Len(s)), k)
<1> DEFINE t == SubSeq(s, k + 1, Len(s))
<1>1. t \in Seq(Records) /\ Len(t) = Len(s) - k /\ \A i \in 1..Len(s) - k : t[i] = s[k + i]
  BY SuffixFacts, Zenon
<1> HIDE DEF t
<1>2. Moves(s, t, k)
  BY <1>1, MovesFacts, Zenon
<1> QED
  BY <1>2, Zenon DEF t

\* What a concatenation is without the first k elements of its first part.
LEMMA ConcatSubSeq ==
    ASSUME NEW S, NEW a \in Seq(S), NEW b \in Seq(S), NEW k \in Nat, k <= Len(a)
    PROVE  /\ SubSeq(a \o b, 1, k) = SubSeq(a, 1, k)
           /\ SubSeq(a \o b, k + 1, Len(a \o b)) = SubSeq(a, k + 1, Len(a)) \o b
<1>1. PICK c \in Seq(S) : c = a \o b
  BY ConcatFacts, Zenon
<1>2. /\ Len(c) = Len(a) + Len(b)
      /\ \A i \in 1..Len(a) : c[i] = a[i]
      /\ \A i \in 1..Len(b) : c[Len(a) + i] = b[i]
  BY <1>1, ConcatFacts
<1>3. SubSeq(c, 1, k) = SubSeq(a, 1, k)
  <2>1. SubSeq(c, 1, k) \in Seq(S) /\ SubSeq(a, 1, k) \in Seq(S) /\ Len(SubSeq(c, 1, k)) = k /\ Len(SubSeq(a, 1, k)) = k
    BY <1>2
  <2>2. \A i \in 1..k : SubSeq(c, 1, k)[i] = SubSeq(a, 1, k)[i]
    BY <1>2, SMTT(30)
  <2> QED
    BY <2>1, <2>2, SameSeq
<1>4. SubSeq(c, k + 1, Len(c)) = SubSeq(a, k + 1, Len(a)) \o b
  <2>1. k <= Len(c)
    BY <1>2
  <2>2. PICK t \in Seq(S) : t = SubSeq(a, k + 1, Len(a))
    BY SuffixFacts, Zenon
  <2>3. PICK u \in Seq(S) : u = SubSeq(c, k + 1, Len(c))
    BY <2>1, SuffixFacts, Zenon
  <2>4. Len(t) = Len(a) - k /\ \A i \in 1..Len(a) - k : t[i] = a[k + i]
    BY <2>2, SuffixFacts, Zenon
  <2>5. Len(u) = Len(c) - k /\ \A i \in 1..Len(c) - k : u[i] = c[k + i]
    BY <2>1, <2>3, SuffixFacts, Zenon
  <2>6. PICK v \in Seq(S) : v = t \o b
    BY ConcatFacts, Zenon
  <2>7. /\ Len(v) = Len(t) + Len(b) /\ \A i \in 1..Len(t) : v[i] = t[i]
        /\ \A i \in 1..Len(v) : i > Len(t) => i - Len(t) \in 1..Len(b) /\ v[i] = b[i - Len(t)]
    BY <2>6, ConcatFacts
  <2>8. Len(u) = Len(v)
    BY <1>2, <2>4, <2>5, <2>7
  <2>9. ASSUME NEW i \in 1..Len(u) PROVE u[i] = v[i]
    <3>1. CASE i <= Len(t)
      <4>1. i \in 1..Len(t) /\ i \in 1..Len(a) - k /\ i \in 1..Len(c) - k /\ k + i \in 1..Len(a)
        BY <2>4, <2>5, <3>1
      <4> QED
        BY <1>2, <2>4, <2>5, <2>7, <4>1, Zenon
    <3>2. CASE i > Len(t)
      <4>1. v[i] = b[i - Len(t)] /\ i - Len(t) \in 1..Len(b)
        BY <2>7, <2>8, <3>2
      <4>2. u[i] = c[Len(a) + (i - Len(t))]
        <5>1. u[i] = c[k + i]
          BY <2>5
        <5>2. Len(t) = Len(a) - k
          BY <2>4
        <5>3. k + i = Len(a) + (i - Len(t))
          BY <5>2
        <5> QED
          BY <5>1, <5>3
      <4> QED
        BY <1>2, <4>1, <4>2, Zenon
    <3> QED
      BY <2>4, <3>1, <3>2
  <2> QED
    BY <2>2, <2>3, <2>6, <2>8, <2>9, SameSeq, Zenon
<1> QED
  BY <1>1, <1>3, <1>4, Zenon

\* A sequence is what comes before its element k + 1, that element, and the rest.
LEMMA Around ==
    ASSUME NEW s \in Seq(Records), NEW k \in Nat, k < Len(s), NEW e \in Records, e = s[k + 1]
    PROVE  \E u \in Seq(Records), v \in Seq(Records) :
             /\ u = SubSeq(s, 1, k) /\ v = SubSeq(s, k + 2, Len(s)) /\ Len(u) = k /\ Len(v) = Len(s) - k - 1
             /\ <<e>> \o v \in Seq(Records) /\ s = u \o (<<e>> \o v)
             /\ \A i \in 1..k : u[i] = s[i]
             /\ v # <<>> => v[Len(v)] = s[Len(s)]
<1> DEFINE u == SubSeq(s, 1, k)
           v == SubSeq(s, k + 2, Len(s))
           t == <<e>> \o v
<1>1. u \in Seq(Records) /\ Len(u) = k /\ \A i \in 1..k : u[i] = s[i]
  OBVIOUS
<1>2. v \in Seq(Records) /\ Len(v) = Len(s) - k - 1 /\ \A i \in 1..Len(s) - k - 1 : v[i] = s[k + 1 + i]
  <2>1. k + 1 \in Nat /\ k + 1 <= Len(s)
    OBVIOUS
  <2>2. /\ SubSeq(s, (k + 1) + 1, Len(s)) \in Seq(Records) /\ Len(SubSeq(s, (k + 1) + 1, Len(s))) = Len(s) - (k + 1)
        /\ \A i \in 1..Len(s) - (k + 1) : SubSeq(s, (k + 1) + 1, Len(s))[i] = s[(k + 1) + i]
    BY <2>1, SuffixFacts, Zenon
  <2> QED
    BY <2>2
<1> HIDE DEF u, v
<1>3. /\ t \in Seq(Records) /\ Len(t) = 1 + Len(v) /\ t[1] = e
      /\ \A i \in 1..Len(v) : t[1 + i] = v[i]
  BY <1>2
<1> HIDE DEF t
<1>4. /\ u \o t \in Seq(Records) /\ Len(u \o t) = Len(u) + Len(t)
      /\ \A i \in 1..Len(u) : (u \o t)[i] = u[i]
      /\ \A i \in 1..Len(t) : (u \o t)[Len(u) + i] = t[i]
  <2>1. u \in Seq(Records) /\ t \in Seq(Records)
    BY <1>1, <1>3
  <2> QED
    BY <2>1, ConcatFacts
<1>5. PICK w \in Seq(Records) : w = u \o t
  BY <1>4, Zenon
<1>6. Len(w) = Len(s)
  <2>1. Len(w) = k + (1 + (Len(s) - k - 1))
    BY <1>1, <1>2, <1>3, <1>4, <1>5, Zenon
  <2> QED
    BY <2>1
<1>7. ASSUME NEW i \in 1..Len(s) PROVE w[i] = s[i]
  <2>1. CASE i <= k
    BY <1>1, <1>4, <1>5, <2>1
  <2>2. CASE i = k + 1
    <3>1. w[k + 1] = t[1]
      BY <1>1, <1>2, <1>3, <1>4, <1>5
    <3> QED
      BY <1>3, <2>2, <3>1
  <2>3. CASE i > k + 1
    <3>1. Len(v) = Len(s) - k - 1 /\ Len(v) \in Nat
      BY <1>2
    <3>2. PICK j \in 1..Len(v) : i = k + 1 + j
      <4>1. i - (k + 1) \in 1..Len(v) /\ i = k + 1 + (i - (k + 1))
        BY <2>3, <3>1
      <4> QED
        BY <4>1
    <3>3. w[k + (1 + j)] = t[1 + j]
      <4>1. 1 + j \in 1..Len(t)
        BY <1>3, <3>1
      <4> QED
        BY <1>1, <1>4, <1>5, <4>1
    <3>4. t[1 + j] = v[j] /\ v[j] = s[k + 1 + j]
      BY <1>2, <1>3
    <3> QED
      BY <3>2, <3>3, <3>4
  <2> QED
    BY <2>1, <2>2, <2>3
<1>8. w = s
  BY <1>6, <1>7, SameSeq
<1>9. v # <<>> => v[Len(v)] = s[Len(s)]
  BY <1>2
<1>10. s = u \o t
  BY <1>5, <1>8
<1> QED
  BY <1>1, <1>2, <1>3, <1>9, <1>10, Zenon DEF u, v, t

\* What holds of a single record.
LEMMA OneRecord ==
    ASSUME NEW r \in Records
    PROVE  /\ <<r>> \in Seq(Records) /\ Range(<<r>>) = {r}
           /\ \A n : Upto(<<r>>, n) <=> Id(r) <= n
           /\ \A t : Apart(t, <<r>>) <=> Absent(t, r)
           /\ \A t : Apart(<<r>>, t) <=> Absent(t, r)
           /\ \A t : Before(<<r>>, t) <=> Above(t, Lsn(r))
<1>1. <<r>> \in Seq(Records)
  OBVIOUS
<1>2. PICK s \in Seq(Records) : s = <<r>>
  BY <1>1, Zenon
<1>3. Len(s) = 1 /\ s[1] = r /\ 1..Len(s) = {1}
  BY <1>2
<1>4. Range(s) = {r}
  BY <1>3, RangeOf
<1>5. \A n : Upto(s, n) <=> Id(r) <= n
  BY <1>3, Zenon DEF Upto
<1>6. \A t : Apart(t, s) <=> Absent(t, r)
  BY <1>3, Zenon DEF Apart, Absent
<1>7. \A t : Apart(s, t) <=> Absent(t, r)
  BY <1>6, ApartSymmetric
<1>8. \A t : Before(s, t) <=> Above(t, Lsn(r))
  BY <1>3, Zenon DEF Before, Above
<1> QED
  BY <1>2, <1>4, <1>5, <1>6, <1>7, <1>8

\* The buffer is what the write in progress has put into the segment, then the
\* rest.
LEMMA WriteFacts ==
    ASSUME NEW l \in Logs, NEW f \in Writes, NEW ps, Captured(l, f, ps)
    PROVE  /\ Copied(f) \in Nat /\ Copied(f) <= Len(Buf(l))
           /\ Done(l, f) \in Seq(Records) /\ Rest(l, f) \in Seq(Records) /\ Buf(l) = Done(l, f) \o Rest(l, f)
           /\ Copied(f) = 0 => Done(l, f) = <<>> /\ Rest(l, f) = Buf(l)
<1>1. Buf(l) \in Seq(Records) /\ Count(f) \in Nat
  BY LogTypes, WriteTypes
<1>2. Copied(f) \in Nat /\ Copied(f) <= Len(Buf(l))
  BY <1>1, WriteTypes DEF Captured, Copied
<1> QED
  BY <1>1, <1>2, Split, ZenonT(40) DEF Done, Rest

\* A segment is its synced part, then the rest.
LEMMA SegmentFacts ==
    ASSUME NEW x \in Segments, Synced(x) <= Len(Recs(x))
    PROVE  /\ Safe(x) \in Seq(Records) /\ Loose(x) \in Seq(Records) /\ Recs(x) = Safe(x) \o Loose(x)
           /\ Range(Recs(x)) = Range(Safe(x)) \cup Range(Loose(x))
           /\ Synced(x) = Len(Recs(x)) => Safe(x) = Recs(x) /\ Loose(x) = <<>>
<1>1. Recs(x) \in Seq(Records) /\ Synced(x) \in Nat
  BY SegmentTypes
<1>2. /\ Safe(x) \in Seq(Records) /\ Loose(x) \in Seq(Records) /\ Recs(x) = Safe(x) \o Loose(x)
      /\ Synced(x) = Len(Recs(x)) => Safe(x) = Recs(x) /\ Loose(x) = <<>>
  BY <1>1, Split, ZenonT(40) DEF Safe, Loose
<1> QED
  BY <1>2, RangeConcat

-----------------------------------------------------------------------------
(* Threads *)

\* What a thread has still to buffer is a sequence of records.
LEMMA PendingTypes == \A x \in Threads : WellFormed(x) => Pending(x) \in Seq(Records)
BY ThreadTypes DEF Pending, WellFormed, Last

\* A thread at rest.
LEMMA IdleFacts ==
    Idle \in Threads /\ Pc(Idle) = "idle" /\ Recs(Idle) = <<>> /\ Kind(Idle) = "append" /\ Pending(Idle) = <<>> /\ WellFormed(Idle)
<1>1. Idle \in Threads /\ Pc(Idle) = "idle" /\ Recs(Idle) = <<>> /\ Kind(Idle) = "append"
  BY DEF Idle, Threads, Pc, Recs, Kind
<1> QED
  BY <1>1 DEF Pending, WellFormed

-----------------------------------------------------------------------------
(* Steps of the threads *)

\* What a thread may become without touching the log: idle, unless it holds a
\* record back, or another place among those that come after appending.
After == {"appended", "flush", "wait", "woken"}

\* The thread x becomes y.
Follows(x, y) ==
    \/ y = x
    \/ Pc(x) # "held" /\ y = Idle
    \/ /\ Kind(y) = Kind(x) /\ Recs(y) = Recs(x)
       /\ (Pc(x) \in After /\ Pc(y) \in After) \/ (Pc(x) = "encrypt" /\ Pc(y) = "rotate")

\* A thread that moves so keeps its records, or drops them all.
LEMMA FollowsFacts ==
    ASSUME NEW x \in Threads, NEW y \in Threads, Follows(x, y), WellFormed(x)
    PROVE  /\ WellFormed(y)
           /\ \/ Recs(y) = <<>> /\ Pending(y) = <<>> /\ Kind(y) = "append"
              \/ Recs(y) = Recs(x) /\ Pending(y) = Pending(x) /\ Kind(y) = Kind(x)
           /\ Pc(x) = "held" \/ Pc(y) = "held" => y = x
<1>1. CASE y = x
  BY <1>1
<1>2. CASE Pc(x) # "held" /\ y = Idle
  BY <1>2, IdleFacts
<1>3. CASE Kind(y) = Kind(x) /\ Recs(y) = Recs(x) /\ Pc(x) \in After /\ Pc(y) \in After
  BY <1>3 DEF WellFormed, Pending, After
<1>4. CASE Kind(y) = Kind(x) /\ Recs(y) = Recs(x) /\ Pc(x) = "encrypt" /\ Pc(y) = "rotate"
  BY <1>4 DEF WellFormed, Pending
<1> QED
  BY <1>1, <1>2, <1>3, <1>4 DEF Follows

\* Threads that move without touching the log keep the invariant: a call that
\* returns, waits for a flush, is woken by the broadcast or starts to flush.
LEMMA ThreadsFollow ==
    ASSUME NEW l, NEW g, NEW c, NEW f, NEW ps, NEW qs \in [Proc -> Threads],
           Shape(l, g, c, f, ps),
           \A p \in Proc : Follows(ps[p], qs[p]),
           By(f) # NoProc => qs[By(f)] = ps[By(f)]
    PROVE  /\ Shape(l, g, c, f, qs)
           /\ \A n, gone : Placed(l, g, f, ps, n, gone) => Placed(l, g, f, qs, n, gone)
           /\ \A a : Order(l, g, c, f, ps, a) => Order(l, g, c, f, qs, a)
<1>1. Typed(l, g, c, f, ps) /\ Held(l, ps) /\ Ended(l, g, f) /\ Captured(l, f, ps)
  BY DEF Shape
<1>2. \A p \in Proc :
        /\ WellFormed(qs[p])
        /\ \/ Recs(qs[p]) = <<>> /\ Pending(qs[p]) = <<>> /\ Kind(qs[p]) = "append"
           \/ Recs(qs[p]) = Recs(ps[p]) /\ Pending(qs[p]) = Pending(ps[p]) /\ Kind(qs[p]) = Kind(ps[p])
        /\ Pc(ps[p]) = "held" \/ Pc(qs[p]) = "held" => qs[p] = ps[p]
  BY <1>1, FollowsFacts DEF Typed
<1>3. Shape(l, g, c, f, qs)
  <2>1. Typed(l, g, c, f, qs)
    BY <1>1, <1>2 DEF Typed
  <2>2. Captured(l, f, qs)
    BY <1>1 DEF Captured
  <2>3. Held(l, qs)
    BY <1>1, <1>2 DEF Held
  <2> QED
    BY <1>1, <2>1, <2>2, <2>3 DEF Shape
<1>4. ASSUME NEW n, NEW gone, Placed(l, g, f, ps, n, gone) PROVE Placed(l, g, f, qs, n, gone)
  <2>1. Numbered(l, g, qs, n)
    BY <1>2, <1>4, NoRecords DEF Placed, Numbered
  <2>2. Distinct(l, qs)
    BY <1>2, <1>4, NoRecords DEF Placed, Distinct
  <2>3. Waiting(l, g, qs)
    BY <1>2, <1>4, NoRecords DEF Placed, Waiting
  <2>4. Gone(l, g, qs, n, gone)
    BY <1>2, <1>4, NoRecords DEF Placed, Gone
  <2>5. Owned(qs, n)
    BY <1>2, <1>4, NoRecords DEF Placed, Owned
  <2> QED
    BY <1>4, <2>1, <2>2, <2>3, <2>4, <2>5 DEF Placed
<1>5. ASSUME NEW a, Order(l, g, c, f, ps, a) PROVE Order(l, g, c, f, qs, a)
  <2>1. Alone(qs)
    BY <1>2, <1>5 DEF Order, Alone
  <2>2. Sorted(qs)
    BY <1>2, <1>5, NoRecords DEF Order, Sorted
  <2>3. Latest(l, g, qs)
    BY <1>2, <1>5, NoRecords DEF Order, Latest
  <2>4. Kept(l, g, qs)
    BY <1>2, <1>5, NoRecords DEF Order, Kept
  <2> QED
    BY <1>5, <2>1, <2>2, <2>3, <2>4 DEF Order
<1> QED
  BY <1>3, <1>4, <1>5

\* The two logs differ at most in flushErr and in the nonces.
SameLog(l, m) ==
    /\ m \in Logs /\ NextLSN(m) = NextLSN(l) /\ DurableLSN(m) = DurableLSN(l) /\ RedoLSN(m) = RedoLSN(l)
    /\ Buf(m) = Buf(l) /\ BufLast(m) = BufLast(l) /\ SegID(m) = SegID(l) /\ SegOff(m) = SegOff(l)
    /\ HoldOff(m) = HoldOff(l) /\ HoldLen(m) = HoldLen(l) /\ HoldLSN(m) = HoldLSN(l) /\ HoldPrev(m) = HoldPrev(l)
    /\ Latched(m) = Latched(l)

\* What a log says besides its records may change: flushErr, and the nonces.
LEMMA LogReplaced ==
    ASSUME NEW l, NEW g, NEW c, NEW f, NEW ps, NEW m, SameLog(l, m), Shape(l, g, c, f, ps)
    PROVE  /\ Shape(m, g, c, f, ps)
           /\ \A n, gone : Placed(l, g, f, ps, n, gone) => Placed(m, g, f, ps, n, gone)
           /\ \A a : Order(l, g, c, f, ps, a) => Order(m, g, c, f, ps, a)
<1>1. Done(m, f) = Done(l, f) /\ Rest(m, f) = Rest(l, f)
  BY DEF SameLog, Done, Rest
<1>2. Shape(m, g, c, f, ps)
  BY <1>1 DEF SameLog, Shape, Typed, Ended, Captured, Held
<1>3. ASSUME NEW n, NEW gone, Placed(l, g, f, ps, n, gone) PROVE Placed(m, g, f, ps, n, gone)
  BY <1>1, <1>3 DEF SameLog, Placed, Numbered, Distinct, Waiting, Unwritten, Gone
<1>4. ASSUME NEW a, Order(l, g, c, f, ps, a) PROVE Order(m, g, c, f, ps, a)
  BY <1>1, <1>4, Zenon DEF SameLog, Order, Ascending, Marks, Durable, Latest, Kept, Found, Vouched
<1> QED
  BY <1>2, <1>3, <1>4

-----------------------------------------------------------------------------
(* Records get their LSNs *)

\* The two logs differ at most in the next LSN and in the nonces.
SameButNumbers(l, m) ==
    /\ m \in Logs /\ DurableLSN(m) = DurableLSN(l) /\ RedoLSN(m) = RedoLSN(l)
    /\ Buf(m) = Buf(l) /\ BufLast(m) = BufLast(l) /\ SegID(m) = SegID(l) /\ SegOff(m) = SegOff(l)
    /\ HoldOff(m) = HoldOff(l) /\ HoldLen(m) = HoldLen(l) /\ HoldLSN(m) = HoldLSN(l) /\ HoldPrev(m) = HoldPrev(l)
    /\ Latched(m) = Latched(l)

\* What the control file may become while l turns into m: nothing else, or what
\* l says with a next LSN between theirs.
Saves(l, m, c, d) ==
    \/ NextLSN(d) = NextLSN(c) /\ DurableLSN(d) = DurableLSN(c) /\ RedoLSN(d) = RedoLSN(c)
    \/ /\ DurableLSN(d) = DurableLSN(l) /\ RedoLSN(d) = RedoLSN(l)
       /\ NextLSN(l) <= NextLSN(d) /\ NextLSN(d) <= NextLSN(m)

\* k records with the ids after n and the LSNs from next on.
Fresh(new, k, n, next) == Len(new) = k /\ \A i \in 1..k : Id(new[i]) = n + i /\ Lsn(new[i]) = next + i - 1

\* New records have ids and LSNs that no record has.
LEMMA FreshFacts ==
    ASSUME NEW new \in Seq(Records), NEW k \in Nat, NEW n \in Nat, NEW next \in Nat, Fresh(new, k, n, next)
    PROVE  /\ Upto(new, n + k) /\ OneEach(new) /\ Increasing(new) /\ Below(new, next + k)
           /\ k = 1 => At(new, next)
           /\ \A d \in Nat : d < next => Above(new, d)
           /\ \A s \in Seq(Records) : Upto(s, n) => Upto(s, n + k) /\ Apart(new, s) /\ Apart(s, new)
           /\ \A s \in Seq(Records) : Below(s, next) => Before(s, new)
           /\ \A r \in Records : Id(r) <= n => Id(r) <= n + k /\ Absent(new, r)
<1>1. Len(new) = k /\ \A i \in 1..Len(new) : Id(new[i]) = n + i /\ Lsn(new[i]) = next + i - 1
  BY DEF Fresh
<1>2. Upto(new, n + k)
  BY <1>1 DEF Upto
<1>3. OneEach(new)
  BY <1>1 DEF OneEach
<1>4. Increasing(new)
  BY <1>1 DEF Increasing
<1>5. Below(new, next + k)
  BY <1>1 DEF Below
<1>6. k = 1 => At(new, next)
  BY <1>1 DEF At
<1>7. \A d \in Nat : d < next => Above(new, d)
  BY <1>1 DEF Above
<1>8. ASSUME NEW s \in Seq(Records), Upto(s, n) PROVE Upto(s, n + k) /\ Apart(new, s) /\ Apart(s, new)
  <2>1. \A i \in 1..Len(s) : Id(s[i]) \in Nat /\ Id(s[i]) <= n
    BY <1>8, RecordTypes, SMTT(30) DEF Upto
  <2> QED
    BY <1>1, <2>1 DEF Upto, Apart
<1>9. ASSUME NEW s \in Seq(Records), Below(s, next) PROVE Before(s, new)
  <2>1. \A i \in 1..Len(s) : Lsn(s[i]) \in Nat /\ Lsn(s[i]) < next
    BY <1>9, RecordTypes, SMTT(30) DEF Below
  <2> QED
    BY <1>1, <2>1 DEF Before
<1>10. ASSUME NEW r \in Records, Id(r) <= n PROVE Id(r) <= n + k /\ Absent(new, r)
  BY <1>1, <1>10, RecordTypes DEF Absent
<1> QED
  BY <1>2, <1>3, <1>4, <1>5, <1>6, <1>7, <1>8, <1>9, <1>10

\* The thread x becomes y, which has the records new and has still to buffer
\* them.
Takes(x, y, new) ==
    /\ Pc(x) \in {"idle", "images"} /\ Pc(y) \in {"encrypt", "rotate"}
    /\ Recs(y) = Recs(x) \o new /\ new # <<>>
    /\ Kind(y) # "images" => Len(new) = 1
    /\ Kind(y) # "append" => Pc(x) = "idle"
    /\ Pc(y) = "encrypt" => Kind(y) = "images"

\* The records that such a thread has to buffer are the new ones.
LEMMA TakesFacts ==
    ASSUME NEW x \in Threads, NEW y \in Threads, NEW new \in Seq(Records), Takes(x, y, new), WellFormed(x)
    PROVE  WellFormed(y) /\ Pending(y) = new /\ Pending(x) = <<>> /\ Pc(x) # "held" /\ Pc(y) # "held"
<1>1. PICK old \in Seq(Records) : old = Recs(x)
  BY ThreadTypes
<1>2. Recs(y) = old \o new /\ Len(Recs(y)) = Len(old) + Len(new) /\ Len(new) > 0 /\ Recs(y) \in Seq(Records)
  BY <1>1, ConcatFacts DEF Takes
<1>3. Kind(y) # "append" => old = <<>> /\ Recs(y) = new
  BY <1>1, <1>2 DEF Takes, WellFormed
<1>4. WellFormed(y)
  BY <1>2, <1>3 DEF Takes, WellFormed
<1>5. Pending(y) = new
  <2>1. CASE Kind(y) = "images"
    BY <1>3, <2>1 DEF Takes, Pending
  <2>2. CASE Kind(y) # "images"
    <3>1. Pending(y) = <<Last(Recs(y))>> /\ Len(new) = 1
      BY <2>2 DEF Takes, Pending
    <3>2. Last(Recs(y)) = new[1]
      BY <1>2, <3>1, ConcatFacts DEF Last
    <3>3. new = <<new[1]>>
      BY <3>1
    <3> QED
      BY <3>1, <3>2, <3>3
  <2> QED
    BY <2>1, <2>2
<1> QED
  BY <1>4, <1>5 DEF Takes, Pending

\* A thread reserves LSNs for new records and has still to buffer them
\* (reserveImages, or an append that finds the segment full).
LEMMA Taken ==
    ASSUME NEW l, NEW g, NEW c, NEW f, NEW ps, NEW p \in Proc, NEW y \in Threads, NEW qs,
           NEW m, NEW d \in Controls, NEW new \in Seq(Records), NEW k \in Nat, NEW n \in Nat,
           Shape(l, g, c, f, ps), SameButNumbers(l, m), Takes(ps[p], y, new), Fresh(new, k, n, NextLSN(l)),
           Kind(y) = "held" => \A q \in Proc : Kind(ps[q]) # "held",
           NextLSN(m) = IF Kind(y) = "append" THEN NextLSN(l) ELSE NextLSN(l) + k,
           qs = [ps EXCEPT ![p] = y]
    PROVE  /\ Shape(m, g, d, f, qs)
           /\ \A gone \in SUBSET Records : Placed(l, g, f, ps, n, gone) => Placed(m, g, f, qs, n + k, gone)
           /\ \A a : /\ Order(l, g, c, f, ps, a) /\ Saves(l, m, c, d)
                     /\ \A q \in Proc : Pending(ps[q]) = <<>>
                     => Order(m, g, d, f, qs, a)
<1>1. /\ Typed(l, g, c, f, ps) /\ Held(l, ps) /\ Ended(l, g, f) /\ Captured(l, f, ps)
      /\ l \in Logs /\ f \in Writes /\ c \in Controls /\ ps \in [Proc -> Threads] /\ WellFormed(ps[p])
      /\ \A s \in DOMAIN g : g[s] \in Segments
  BY DEF Shape, Typed
<1>2. /\ NextLSN(l) \in Nat /\ DurableLSN(l) \in Nat /\ Buf(l) \in Seq(Records) /\ NextLSN(m) \in Nat
      /\ NextLSN(l) <= NextLSN(m)
  BY <1>1, LogTypes, SMTT(30) DEF SameButNumbers
<1>3. WellFormed(y) /\ Pending(y) = new /\ Pending(ps[p]) = <<>> /\ Pc(ps[p]) # "held" /\ Pc(y) # "held"
  BY <1>1, TakesFacts
<1>4. /\ qs \in [Proc -> Threads] /\ qs[p] = y /\ \A q \in Proc : q # p => qs[q] = ps[q]
  BY <1>1
<1>5. /\ Upto(new, n + k) /\ OneEach(new) /\ Increasing(new) /\ Below(new, NextLSN(l) + k)
      /\ k = 1 => At(new, NextLSN(l))
      /\ \A e \in Nat : e < NextLSN(l) => Above(new, e)
      /\ \A s \in Seq(Records) : Upto(s, n) => Upto(s, n + k) /\ Apart(new, s) /\ Apart(s, new)
      /\ \A s \in Seq(Records) : Below(s, NextLSN(l)) => Before(s, new)
      /\ \A r \in Records : Id(r) <= n => Id(r) <= n + k /\ Absent(new, r)
  BY <1>2, FreshFacts
<1>6. Done(m, f) = Done(l, f) /\ Rest(m, f) = Rest(l, f)
  BY DEF SameButNumbers, Done, Rest
<1>7. By(f) # NoProc => By(f) \in Proc /\ By(f) # p /\ qs[By(f)] = ps[By(f)]
  BY <1>1, <1>4, WriteTypes DEF Captured, Takes
<1>8. Shape(m, g, d, f, qs)
  <2>1. Typed(m, g, d, f, qs)
    BY <1>1, <1>3, <1>4 DEF Typed, SameButNumbers
  <2>2. Ended(m, g, f)
    BY <1>1, <1>6 DEF Ended, SameButNumbers
  <2>3. Captured(m, f, qs)
    BY <1>1, <1>7 DEF Captured, SameButNumbers
  <2>4. Held(m, qs)
    BY <1>1, <1>3, <1>4 DEF Held, SameButNumbers
  <2> QED
    BY <2>1, <2>2, <2>3, <2>4 DEF Shape
<1>9. ASSUME NEW gone \in SUBSET Records, Placed(l, g, f, ps, n, gone) PROVE Placed(m, g, f, qs, n + k, gone)
  <2>1. /\ \A s \in DOMAIN g : Recs(g[s]) \in Seq(Records)
        /\ \A q \in Proc : Pending(ps[q]) \in Seq(Records)
    BY <1>1, SegmentTypes, PendingTypes DEF Typed
  <2>2. Numbered(m, g, qs, n + k)
    BY <1>2, <1>3, <1>4, <1>5, <1>9, <2>1 DEF Placed, Numbered, SameButNumbers
  <2>3. Distinct(m, qs)
    BY <1>3, <1>4, <1>5, <1>9, <2>1, SMTT(30) DEF Placed, Distinct, Numbered, SameButNumbers
  <2>4. Waiting(m, g, qs)
    BY <1>2, <1>3, <1>4, <1>5, <1>9, <2>1, SMTT(30) DEF Placed, Waiting, Numbered, SameButNumbers
  <2>5. Unwritten(m, g, f)
    BY <1>6, <1>9 DEF Placed, Unwritten
  <2>6. Gone(m, g, qs, n + k, gone)
    BY <1>3, <1>4, <1>5, <1>9 DEF Placed, Gone, SameButNumbers
  <2>7. Owned(qs, n + k)
    <3>1. PICK x \in Seq(Records) : x = Recs(ps[p])
      BY <1>1, ThreadTypes
    <3>2. \A q \in Proc : Recs(ps[q]) \in Seq(Records) /\ Upto(Recs(ps[q]), n)
      BY <1>1, <1>9, ThreadTypes DEF Placed, Owned
    <3>3. Recs(qs[p]) = x \o new /\ \A q \in Proc : q # p => Recs(qs[q]) = Recs(ps[q])
      BY <1>4, <3>1 DEF Takes
    <3>4. Joins(x \o new, x, new)
      BY Parts
    <3>5. Upto(x \o new, n + k)
      BY <1>5, <3>1, <3>2, <3>4 DEF Joins
    <3>6. ASSUME NEW q \in Proc, q # p PROVE Apart(x \o new, Recs(ps[q])) /\ Apart(Recs(ps[q]), x \o new)
      <4>1. Apart(x, Recs(ps[q])) /\ Apart(Recs(ps[q]), x)
        BY <1>9, <3>1, <3>6 DEF Placed, Owned
      <4>2. Apart(new, Recs(ps[q])) /\ Apart(Recs(ps[q]), new)
        BY <1>5, <3>2
      <4> QED
        BY <3>4, <4>1, <4>2 DEF Joins
    <3>7. \A q \in Proc : Upto(Recs(qs[q]), n + k)
      BY <1>5, <3>2, <3>3, <3>5, Zenon
    <3>8. \A q, w \in Proc : q # w => Apart(Recs(qs[q]), Recs(qs[w]))
      BY <1>9, <3>3, <3>6, Zenon DEF Placed, Owned
    <3> QED
      BY <3>7, <3>8 DEF Owned
  <2> QED
    BY <2>2, <2>3, <2>4, <2>5, <2>6, <2>7 DEF Placed
<1>10. ASSUME NEW a, Order(l, g, c, f, ps, a), Saves(l, m, c, d), \A q \in Proc : Pending(ps[q]) = <<>>
       PROVE  Order(m, g, d, f, qs, a)
  <2>1. /\ Alone(ps) /\ Ascending(l, g, c, f) /\ Marks(l, f) /\ Durable(l, g)
        /\ Sorted(ps) /\ Latest(l, g, ps) /\ Kept(l, g, ps) /\ Vouched(l, g, c, a)
    BY <1>10 DEF Order
  <2>2. Alone(qs)
    BY <1>4, <1>10 DEF Alone
  <2>3. Ascending(m, g, d, f)
    <3>1. /\ NextLSN(c) \in Nat /\ NextLSN(d) \in Nat /\ DurableLSN(c) \in Nat
          /\ \A s \in DOMAIN g : Recs(g[s]) \in Seq(Records) /\ Start(g[s]) \in Nat
      BY <1>1, ControlTypes, SegmentTypes
    <3>2. NextLSN(c) <= NextLSN(d) /\ NextLSN(d) <= NextLSN(m) /\ DurableLSN(d) < NextLSN(d)
      BY <1>2, <1>10, <2>1, <3>1 DEF Ascending, Durable, Saves
    <3>3. \A s \in DOMAIN g : Start(g[s]) <= NextLSN(d) /\ Below(Recs(g[s]), NextLSN(m))
      BY <1>2, <2>1, <3>1, <3>2, Monotone, SMTT(30) DEF Ascending
    <3>4. Below(Buf(l), NextLSN(m))
      BY <1>2, <2>1, Monotone DEF Ascending
    <3> QED
      BY <1>6, <2>1, <3>2, <3>3, <3>4 DEF Ascending, SameButNumbers
  <2>4. Marks(m, f)
    BY <2>1 DEF Marks, SameButNumbers
  <2>5. Durable(m, g)
    BY <1>1, <1>2, <2>1 DEF Durable, SameButNumbers
  <2>6. PICK old \in Seq(Records) : old = Recs(ps[p])
    BY <1>1, ThreadTypes
  <2>7. \A r \in Range(old) : Lsn(r) < NextLSN(l) /\ Found(l, g, r)
    BY <1>10, <2>1, <2>6, NoRecords DEF Kept
  <2>8. Joins(old \o new, old, new)
    BY Parts
  <2>9. Sorted(qs)
    <3>1. Below(old, NextLSN(l))
      BY <2>6, <2>7 DEF Below, Range
    <3>2. Increasing(old \o new)
      BY <1>5, <2>1, <2>6, <2>8, <3>1 DEF Joins, Sorted
    <3> QED
      BY <1>3, <1>4, <1>5, <2>1, <2>6, <3>2, Zenon DEF Sorted, Takes
  <2>10. Latest(m, g, qs)
    <3>1. \A q \in Proc : q # p => Pending(qs[q]) = <<>>
      BY <1>4, <1>10
    <3>2. \A s \in DOMAIN g : Before(Recs(g[s]), new)
      BY <1>1, <1>5, <2>1, SegmentTypes DEF Ascending
    <3>3. Before(Buf(l), new) /\ Above(new, DurableLSN(l))
      BY <1>2, <1>5, <2>1 DEF Ascending, Durable
    <3>4. /\ Kind(y) = "append" => At(new, NextLSN(m))
          /\ Kind(y) # "append" => Below(new, NextLSN(m))
      BY <1>5 DEF Takes, Fresh
    <3> QED
      BY <1>3, <1>4, <3>1, <3>2, <3>3, <3>4, NoRecords DEF Latest, SameButNumbers
  <2>11. Kept(m, g, qs)
    <3>1. \A r \in Records : Found(l, g, r) => Found(m, g, r)
      BY DEF Found, SameButNumbers
    <3>2. ASSUME NEW r \in Records, Lsn(r) < NextLSN(l) PROVE Lsn(r) < NextLSN(m)
      BY <1>2, <3>2, RecordTypes, SMTT(30)
    <3>3. ASSUME NEW q \in Proc, q # p, NEW r \in Range(Recs(qs[q]))
          PROVE  Lsn(r) < NextLSN(m) /\ Found(m, g, r)
      <4>1. r \in Range(Recs(ps[q])) /\ r \in Records
        BY <1>1, <1>4, <3>3, RangeConcat, ThreadTypes
      <4> QED
        BY <1>10, <2>1, <3>1, <3>2, <4>1, NoRecords DEF Kept
    <3>4. ASSUME NEW r \in Range(Recs(y))
          PROVE  r \in Range(new) \/ (Lsn(r) < NextLSN(m) /\ Found(m, g, r))
      <4>1. r \in Range(old) \/ r \in Range(new)
        BY <2>6, <2>8, <3>4 DEF Joins, Takes
      <4>2. Range(old) \subseteq Records
        BY RangeConcat
      <4> QED
        BY <2>7, <3>1, <3>2, <4>1, <4>2
    <3> QED
      BY <1>3, <1>4, <3>3, <3>4 DEF Kept
  <2>12. Vouched(m, g, d, a)
    BY <1>10, <2>1 DEF Vouched, Saves, SameButNumbers
  <2> QED
    BY <2>2, <2>3, <2>4, <2>5, <2>9, <2>10, <2>11, <2>12 DEF Order
<1> QED
  BY <1>8, <1>9, <1>10, Zenon

-----------------------------------------------------------------------------
(* Records reach the buffer *)

\* The records recs of a thread of kind k have been put at the end of the
\* buffer of l.
IsBuffered(l, m, k, recs) ==
    /\ m \in Logs /\ Buf(m) = Buf(l) \o recs /\ BufLast(m) = Lsn(Last(recs))
    /\ NextLSN(m) = IF k = "append" THEN Lsn(Last(recs)) + 1 ELSE NextLSN(l)
    /\ DurableLSN(m) = DurableLSN(l) /\ RedoLSN(m) = RedoLSN(l)
    /\ SegID(m) = SegID(l) /\ SegOff(m) = SegOff(l) /\ Latched(m) = Latched(l)
    /\ IF k = "held" THEN /\ HoldOff(m) = Len(Buf(l)) /\ HoldLen(m) = Len(recs)
                          /\ HoldLSN(m) = Lsn(Last(recs)) /\ HoldPrev(m) = BufLast(l)
       ELSE /\ HoldOff(m) = HoldOff(l) /\ HoldLen(m) = HoldLen(l)
            /\ HoldLSN(m) = HoldLSN(l) /\ HoldPrev(m) = HoldPrev(l)

\* A thread x that had records to buffer has buffered them and is y.
Buffers(x, y) ==
    /\ Pending(x) # <<>> /\ Recs(y) = Recs(x) /\ Kind(y) = Kind(x)
    /\ Pc(y) = IF Kind(x) = "append" THEN "appended" ELSE Kind(x)

\* Such a thread has nothing more to buffer, and holds its record if it is one
\* to be held.
LEMMA BuffersFacts ==
    ASSUME NEW x \in Threads, NEW y \in Threads, Buffers(x, y), WellFormed(x)
    PROVE  /\ WellFormed(y) /\ Pending(y) = <<>> /\ Pc(x) # "held"
           /\ Pc(y) = "held" <=> Kind(x) = "held"
           /\ Kind(x) = "held" => Pending(x) = Recs(x) /\ Len(Recs(x)) = 1
           /\ Kind(x) # "images" => Len(Pending(x)) = 1
<1>1. Pc(x) \in {"encrypt", "rotate"} /\ Recs(x) \in Seq(Records) /\ Kind(x) \in {"append", "images", "held"}
  BY ThreadTypes DEF Buffers, Pending
<1>2. Kind(x) = "held" => Pending(x) = Recs(x) /\ Len(Recs(x)) = 1
  <2> SUFFICES ASSUME Kind(x) = "held" PROVE Pending(x) = Recs(x) /\ Len(Recs(x)) = 1
    OBVIOUS
  <2>1. PICK recs \in Seq(Records) : recs = Recs(x) /\ Len(recs) = 1
    BY <1>1 DEF WellFormed
  <2>2. recs = <<recs[1]>>
    BY <2>1
  <2> QED
    BY <1>1, <2>1, <2>2 DEF Pending, Last
<1>3. Kind(x) # "images" => Len(Pending(x)) = 1
  BY <1>1 DEF Pending
<1> QED
  BY <1>1, <1>2, <1>3 DEF Buffers, WellFormed, Pending

\* The records of a thread reach the end of the buffer (appendLocked,
\* AppendHeldBatch, AppendImages after its encryption).
LEMMA Buffered ==
    ASSUME NEW l, NEW g, NEW c, NEW f, NEW ps, NEW p \in Proc, NEW y \in Threads, NEW qs, NEW m,
           Shape(l, g, c, f, ps), Buffers(ps[p], y), By(f) # p,
           IsBuffered(l, m, Kind(ps[p]), Pending(ps[p])),
           Kind(y) = "held" => HoldLen(l) = 0,
           qs = [ps EXCEPT ![p] = y]
    PROVE  /\ Shape(m, g, c, f, qs)
           /\ \A n, gone : Placed(l, g, f, ps, n, gone) => Placed(m, g, f, qs, n, gone)
           /\ \A a : Order(l, g, c, f, ps, a) => Order(m, g, c, f, qs, a)
<1>1. /\ Typed(l, g, c, f, ps) /\ Held(l, ps) /\ Ended(l, g, f) /\ Captured(l, f, ps)
      /\ l \in Logs /\ m \in Logs /\ f \in Writes /\ c \in Controls /\ ps \in [Proc -> Threads] /\ WellFormed(ps[p])
      /\ \A s \in DOMAIN g : g[s] \in Segments /\ Recs(g[s]) \in Seq(Records)
  BY SegmentTypes DEF Shape, Typed, IsBuffered
<1>2. PICK new \in Seq(Records) : new = Pending(ps[p]) /\ new # <<>>
  BY <1>1, PendingTypes DEF Buffers
<1>3. Buf(l) \in Seq(Records) /\ Buf(m) = Buf(l) \o new /\ Buf(m) \in Seq(Records) /\ Len(Buf(m)) = Len(Buf(l)) + Len(new)
  BY <1>1, <1>2, LogTypes, ConcatFacts, ZenonT(40) DEF IsBuffered
<1>4. Joins(Buf(m), Buf(l), new)
  BY <1>3, Parts
<1>5. /\ WellFormed(y) /\ Pending(y) = <<>> /\ Pc(ps[p]) # "held"
      /\ Pc(y) = "held" <=> Kind(ps[p]) = "held"
      /\ Kind(ps[p]) = "held" => new = Recs(ps[p]) /\ Len(new) = 1
      /\ Kind(ps[p]) # "images" => Len(new) = 1
  BY <1>1, <1>2, BuffersFacts
<1>6. /\ qs \in [Proc -> Threads] /\ qs[p] = y /\ \A q \in Proc : q # p => qs[q] = ps[q]
  BY <1>1
<1>7. /\ \A i \in 1..Len(Buf(l)) : Buf(m)[i] = Buf(l)[i]
      /\ Len(new) = 1 => Buf(m)[Len(Buf(l)) + 1] = new[1]
      /\ Last(Buf(m)) = Last(new)
  BY <1>2, <1>3, ConcatFacts DEF Last
<1>8. /\ Copied(f) \in Nat /\ Copied(f) <= Len(Buf(l)) /\ Rest(l, f) \in Seq(Records)
      /\ Done(m, f) = Done(l, f) /\ Rest(m, f) = Rest(l, f) \o new
  <2>1. Copied(f) \in Nat /\ Copied(f) <= Len(Buf(l)) /\ Rest(l, f) \in Seq(Records)
    BY <1>1, WriteFacts
  <2>2. PICK k \in Nat, b \in Seq(Records) : k = Copied(f) /\ b = Buf(l) /\ k <= Len(b)
    BY <1>3, <2>1
  <2>3. /\ SubSeq(b \o new, 1, k) = SubSeq(b, 1, k)
        /\ SubSeq(b \o new, k + 1, Len(b \o new)) = SubSeq(b, k + 1, Len(b)) \o new
    BY <2>2, ConcatSubSeq, ZenonT(40)
  <2>4. Done(m, f) = Done(l, f) /\ Rest(m, f) = Rest(l, f) \o new
    BY <1>3, <2>2, <2>3, Zenon DEF Done, Rest
  <2> QED
    BY <2>1, <2>4
<1>9. Joins(Rest(m, f), Rest(l, f), new)
  BY <1>8, Parts
<1>10. Shape(m, g, c, f, qs)
  <2>1. Typed(m, g, c, f, qs)
    BY <1>1, <1>5, <1>6 DEF Typed, IsBuffered
  <2>2. Ended(m, g, f)
    BY <1>1, <1>8, Zenon DEF Ended, IsBuffered
  <2>3. Captured(m, f, qs)
    <3>1. By(f) # NoProc => By(f) \in Proc /\ qs[By(f)] = ps[By(f)]
      BY <1>1, <1>6, WriteTypes
    <3>2. Count(f) \in Nat /\ HoldLen(l) \in Nat /\ HoldOff(l) \in Nat
      BY <1>1, LogTypes, WriteTypes
    <3>3. Count(f) <= Len(Buf(l)) => Count(f) <= Len(Buf(m))
      BY <1>3, <3>2
    <3> QED
      BY <1>1, <3>1, <3>2, <3>3, Zenon DEF Captured, IsBuffered
  <2>4. Held(m, qs)
    <3>1. CASE Kind(ps[p]) = "held"
      <4>1. \A q \in Proc : q # p => Pc(qs[q]) # "held" /\ Kind(qs[q]) # "held"
        BY <1>1, <1>6, <3>1 DEF Held, Typed, WellFormed
      <4>2. HoldLen(m) = 1 /\ HoldOff(m) = Len(Buf(l)) /\ Recs(y) = <<new[1]>> /\ Pc(y) = "held"
        BY <1>2, <1>5, <3>1 DEF IsBuffered, Buffers
      <4>3. Buf(m)[HoldOff(m) + 1] = new[1] /\ HoldOff(m) < Len(Buf(m))
        BY <1>3, <1>5, <1>7, <3>1, <4>2
      <4> QED
        BY <1>6, <4>1, <4>2, <4>3 DEF Held
    <3>2. CASE Kind(ps[p]) # "held"
      <4>1. HoldLen(m) = HoldLen(l) /\ HoldOff(m) = HoldOff(l) /\ HoldLen(l) \in Nat /\ HoldOff(l) \in Nat
        BY <1>1, <3>2, LogTypes, Zenon DEF IsBuffered
      <4>2. HoldLen(l) # 0 => HoldOff(l) < Len(Buf(m)) /\ Buf(m)[HoldOff(l) + 1] = Buf(l)[HoldOff(l) + 1]
        BY <1>1, <1>3, <1>7, <4>1 DEF Held
      <4>3. \A q \in Proc : (Pc(qs[q]) = "held" \/ Pc(ps[q]) = "held") => qs[q] = ps[q]
        BY <1>5, <1>6, <3>2
      <4>4. \A q \in Proc : Kind(qs[q]) = Kind(ps[q])
        BY <1>6 DEF Buffers
      <4> QED
        BY <1>1, <4>1, <4>2, <4>3, <4>4 DEF Held
    <3> QED
      BY <3>1, <3>2
  <2> QED
    BY <2>1, <2>2, <2>3, <2>4 DEF Shape
<1>11. ASSUME NEW n, NEW gone, Placed(l, g, f, ps, n, gone) PROVE Placed(m, g, f, qs, n, gone)
  <2>1. \A q \in Proc : qs[q] = ps[q] \/ Pending(qs[q]) = <<>>
    BY <1>5, <1>6, SMTT(30)
  <2>2. Numbered(m, g, qs, n)
    BY <1>2, <1>4, <1>11, <2>1, NoRecords DEF Joins, Placed, Numbered
  <2>3. Distinct(m, qs)
    <3>1. OneEach(Buf(m))
      BY <1>2, <1>4, <1>11, ApartSymmetric DEF Joins, Placed, Distinct, Waiting
    <3> QED
      BY <1>11, <2>1, <3>1, NoRecords DEF Placed, Distinct
  <2>4. Waiting(m, g, qs)
    <3>1. ASSUME NEW q \in Proc, q # p PROVE Apart(Pending(ps[q]), Buf(m))
      BY <1>2, <1>4, <1>11, <3>1 DEF Joins, Placed, Distinct, Waiting
    <3> QED
      BY <1>5, <1>6, <1>11, <3>1, NoRecords, ZenonT(40) DEF Placed, Waiting
  <2>5. Unwritten(m, g, f)
    BY <1>2, <1>9, <1>11, SMTT(30) DEF Joins, Placed, Unwritten, Waiting
  <2>6. Gone(m, g, qs, n, gone)
    BY <1>2, <1>4, <1>11, <2>1, NoRecords DEF Joins, Placed, Gone
  <2>7. Owned(qs, n)
    <3>1. \A q \in Proc : Recs(qs[q]) = Recs(ps[q])
      BY <1>6 DEF Buffers
    <3> QED
      BY <1>11, <3>1 DEF Placed, Owned
  <2> QED
    BY <2>2, <2>3, <2>4, <2>5, <2>6, <2>7 DEF Placed
<1>12. ASSUME NEW a, Order(l, g, c, f, ps, a) PROVE Order(m, g, c, f, qs, a)
  <2>1. /\ Alone(ps) /\ Ascending(l, g, c, f) /\ Marks(l, f) /\ Durable(l, g)
        /\ Sorted(ps) /\ Latest(l, g, ps) /\ Kept(l, g, ps) /\ Vouched(l, g, c, a)
    BY <1>12 DEF Order
  <2>2. \A q \in Proc : Pending(qs[q]) = <<>> /\ (q # p => Pending(ps[q]) = <<>>)
    BY <1>2, <1>5, <1>6, <2>1 DEF Alone
  <2>3. /\ NextLSN(l) \in Nat /\ NextLSN(m) \in Nat /\ NextLSN(c) \in Nat /\ DurableLSN(l) \in Nat
        /\ Last(new) \in Records /\ Lsn(Last(new)) \in Nat
    <3>1. Last(new) \in Records
      BY <1>2 DEF Last
    <3> QED
      BY <1>1, <3>1, LogTypes, ControlTypes, RecordTypes
  <2>4. NextLSN(l) <= NextLSN(m) /\ Below(new, NextLSN(m))
    <3>1. CASE Kind(ps[p]) = "append"
      <4>1. At(new, NextLSN(l)) /\ Len(new) = 1 /\ Last(new) = new[1]
        BY <1>2, <1>5, <2>1, <3>1 DEF Latest, Last
      <4>2. NextLSN(m) = NextLSN(l) + 1
        BY <1>2, <3>1, <4>1 DEF At, IsBuffered
      <4> QED
        BY <2>3, <4>1, <4>2 DEF At, Below
    <3>2. CASE Kind(ps[p]) # "append"
      BY <1>2, <2>1, <2>3, <3>2 DEF Latest, IsBuffered
    <3> QED
      BY <3>1, <3>2
  <2>5. Before(Buf(l), new) /\ Above(new, DurableLSN(l)) /\ Increasing(new) /\ \A s \in DOMAIN g : Before(Recs(g[s]), new)
    BY <1>2, <2>1 DEF Latest, Sorted
  <2>6. Alone(qs)
    BY <2>2, SMTT(30) DEF Alone
  <2>7. Ascending(m, g, c, f)
    <3>1. Increasing(Buf(m)) /\ Below(Buf(m), NextLSN(m))
      BY <1>3, <1>4, <2>1, <2>3, <2>4, <2>5, Monotone, SMTT(30) DEF Joins, Ascending
    <3>2. \A s \in DOMAIN g : Below(Recs(g[s]), NextLSN(m)) /\ Before(Recs(g[s]), Rest(m, f))
      BY <1>1, <1>9, <2>1, <2>3, <2>4, <2>5, Monotone, Zenon DEF Joins, Ascending
    <3> QED
      BY <2>1, <2>3, <2>4, <3>1, <3>2, SMTT(30) DEF Ascending
  <2>8. Marks(m, f)
    <3>1. BufLast(m) = Lsn(Last(Buf(m)))
      BY <1>2, <1>7, SMTT(30) DEF IsBuffered
    <3>2. By(f) # NoProc => LastLSN(f) = Lsn(Buf(m)[Count(f)])
      BY <1>1, <1>3, <1>7, <2>1, WriteTypes DEF Marks, Captured
    <3>3. HoldLen(m) # 0 => /\ HoldLSN(m) = Lsn(Buf(m)[HoldOff(m) + 1])
                            /\ HoldOff(m) > 0 => HoldPrev(m) = Lsn(Buf(m)[HoldOff(m)])
      <4>1. CASE Kind(ps[p]) = "held"
        <5>1. HoldLSN(m) = Lsn(Last(new)) /\ Last(new) = new[1] /\ HoldOff(m) = Len(Buf(l)) /\ HoldPrev(m) = BufLast(l) /\ Len(new) = 1
          BY <1>2, <1>5, <4>1 DEF IsBuffered, Last
        <5>2. Len(Buf(l)) > 0 => BufLast(l) = Lsn(Buf(l)[Len(Buf(l))])
          BY <1>3, <2>1 DEF Marks, Last
        <5> QED
          BY <1>3, <1>7, <5>1, <5>2
      <4>2. CASE Kind(ps[p]) # "held"
        <5>1. PICK o \in Nat : o = HoldOff(l)
          BY <1>1, LogTypes
        <5>2. HoldOff(m) = o /\ HoldLen(m) = HoldLen(l) /\ HoldLSN(m) = HoldLSN(l) /\ HoldPrev(m) = HoldPrev(l)
          BY <4>2, <5>1 DEF IsBuffered
        <5>3. HoldLen(l) # 0 => /\ o < Len(Buf(l)) /\ HoldLSN(l) = Lsn(Buf(l)[o + 1])
                                /\ o > 0 => HoldPrev(l) = Lsn(Buf(l)[o])
          BY <1>1, <2>1, <5>1 DEF Marks, Held
        <5>4. o < Len(Buf(l)) => Buf(m)[o + 1] = Buf(l)[o + 1] /\ (o > 0 => Buf(m)[o] = Buf(l)[o])
          BY <1>3, <1>7, SMTT(30)
        <5> QED
          BY <5>2, <5>3, <5>4
      <4> QED
        BY <4>1, <4>2
    <3> QED
      BY <3>1, <3>2, <3>3 DEF Marks
  <2>9. Durable(m, g)
    BY <1>4, <2>1, <2>3, <2>4, <2>5 DEF Joins, Durable, IsBuffered
  <2>10. Sorted(qs)
    BY <1>6, <2>1, <2>2, NoRecords DEF Sorted, Buffers
  <2>11. Latest(m, g, qs)
    BY <2>2, NoRecords DEF Latest
  <2>12. Kept(m, g, qs)
    <3>1. Range(Buf(m)) = Range(Buf(l)) \cup Range(new) /\ Range(new) \subseteq Records
      BY <1>4, RangeConcat DEF Joins
    <3>2. \A r \in Records : Found(l, g, r) => Found(m, g, r)
      BY <3>1 DEF Found, IsBuffered
    <3>3. \A r \in Range(new) : Lsn(r) < NextLSN(m) /\ Found(m, g, r)
      <4>1. \A r \in Range(new) : Lsn(r) < NextLSN(m)
        BY <2>4 DEF Below, Range
      <4> QED
        BY <3>1, <4>1 DEF Found
    <3>4. ASSUME NEW q \in Proc, NEW r \in Range(Recs(qs[q])) PROVE Lsn(r) < NextLSN(m) /\ Found(m, g, r)
      <4>1. r \in Range(Recs(ps[q])) /\ r \in Records
        BY <1>1, <1>6, <3>4, RangeConcat, ThreadTypes DEF Buffers
      <4>2. r \in Range(new) \/ (Lsn(r) < NextLSN(l) /\ Found(l, g, r))
        BY <1>2, <2>1, <2>2, <4>1, NoRecords DEF Kept
      <4> QED
        BY <2>3, <2>4, <3>2, <3>3, <4>1, <4>2, RecordTypes
    <3> QED
      BY <3>4 DEF Kept
  <2>13. Vouched(m, g, c, a)
    BY <2>1 DEF Vouched, IsBuffered
  <2> QED
    BY <2>6, <2>7, <2>8, <2>9, <2>10, <2>11, <2>12, <2>13 DEF Order
<1> QED
  BY <1>10, <1>11, <1>12, Zenon

-----------------------------------------------------------------------------
(* The held record is released *)

\* The hold is gone; buf and bufLast are what becomes of the buffer.
IsReleased(l, m, buf, bufLast) ==
    /\ m \in Logs /\ NextLSN(m) = NextLSN(l) /\ DurableLSN(m) = DurableLSN(l) /\ RedoLSN(m) = RedoLSN(l)
    /\ Buf(m) = buf /\ BufLast(m) = bufLast /\ SegID(m) = SegID(l) /\ SegOff(m) = SegOff(l)
    /\ HoldOff(m) = 0 /\ HoldLen(m) = 0 /\ Latched(m) = Latched(l)

\* ReleaseHold(true): the record stays in the buffer and its thread flushes it.
LEMMA Released ==
    ASSUME NEW l, NEW g, NEW c, NEW f, NEW ps, NEW p \in Proc, NEW y \in Threads, NEW qs, NEW m,
           Shape(l, g, c, f, ps), Pc(ps[p]) = "held", IsReleased(l, m, Buf(l), BufLast(l)),
           Pc(y) = "flush", Kind(y) = Kind(ps[p]), Recs(y) = Recs(ps[p]),
           qs = [ps EXCEPT ![p] = y]
    PROVE  /\ Shape(m, g, c, f, qs)
           /\ \A n, gone : Placed(l, g, f, ps, n, gone) => Placed(m, g, f, qs, n, gone)
           /\ \A a : Order(l, g, c, f, ps, a) => Order(m, g, c, f, qs, a)
<1>1. /\ Typed(l, g, c, f, ps) /\ Held(l, ps) /\ Ended(l, g, f) /\ Captured(l, f, ps)
      /\ ps \in [Proc -> Threads] /\ WellFormed(ps[p])
  BY DEF Shape, Typed
<1>2. qs \in [Proc -> Threads] /\ qs[p] = y /\ \A q \in Proc : q # p => qs[q] = ps[q]
  BY <1>1
<1>3. Pending(y) = <<>> /\ Pending(ps[p]) = <<>> /\ WellFormed(y)
  BY <1>1 DEF Pending, WellFormed
<1>4. \A q \in Proc : Pending(qs[q]) = Pending(ps[q]) /\ Recs(qs[q]) = Recs(ps[q]) /\ Kind(qs[q]) = Kind(ps[q])
  BY <1>2, <1>3
<1>5. Done(m, f) = Done(l, f) /\ Rest(m, f) = Rest(l, f)
  BY DEF Done, Rest, IsReleased
<1>6. \A q \in Proc : Pc(qs[q]) # "held"
  BY <1>1, <1>2, Zenon DEF Held, Typed, WellFormed
<1>7. Shape(m, g, c, f, qs)
  <2>1. Typed(m, g, c, f, qs)
    BY <1>1, <1>2, <1>3 DEF Typed, IsReleased
  <2>2. Ended(m, g, f)
    BY <1>1, <1>5 DEF Ended, IsReleased
  <2>3. Captured(m, f, qs)
    BY <1>1, <1>2 DEF Captured, IsReleased
  <2>4. Held(m, qs)
    BY <1>1, <1>4, <1>6, SMTT(30) DEF Held, IsReleased
  <2> QED
    BY <2>1, <2>2, <2>3, <2>4 DEF Shape
<1>8. ASSUME NEW n, NEW gone, Placed(l, g, f, ps, n, gone) PROVE Placed(m, g, f, qs, n, gone)
  BY <1>4, <1>5, <1>8 DEF Placed, Numbered, Distinct, Waiting, Unwritten, Gone, Owned, IsReleased
<1>9. ASSUME NEW a, Order(l, g, c, f, ps, a) PROVE Order(m, g, c, f, qs, a)
  <2>1. /\ Alone(ps) /\ Ascending(l, g, c, f) /\ Marks(l, f) /\ Durable(l, g)
        /\ Sorted(ps) /\ Latest(l, g, ps) /\ Kept(l, g, ps) /\ Vouched(l, g, c, a)
    BY <1>9 DEF Order
  <2>2. Alone(qs) /\ Sorted(qs)
    BY <1>4, <2>1, Zenon DEF Alone, Sorted
  <2>3. Ascending(m, g, c, f) /\ Marks(m, f) /\ Durable(m, g)
    BY <1>5, <2>1, Zenon DEF Ascending, Marks, Durable, IsReleased
  <2>4. Latest(m, g, qs) /\ Kept(m, g, qs) /\ Vouched(m, g, c, a)
    BY <1>4, <2>1, Zenon DEF Latest, Kept, Found, Vouched, IsReleased
  <2> QED
    BY <2>2, <2>3, <2>4 DEF Order
<1> QED
  BY <1>7, <1>8, <1>9, Zenon

\* The held record has been cut out of the buffer.
IsCut(l, m) ==
    IsReleased(l, m, SubSeq(Buf(l), 1, HoldOff(l)) \o SubSeq(Buf(l), HoldOff(l) + HoldLen(l) + 1, Len(Buf(l))),
               IF BufLast(l) = HoldLSN(l) THEN HoldPrev(l) ELSE BufLast(l))

\* ReleaseHold(false): the record is cut out of the buffer and discarded.
LEMMA Cut ==
    ASSUME NEW l, NEW g, NEW c, NEW f, NEW ps, NEW p \in Proc, NEW qs, NEW m, NEW n \in Nat, NEW gone,
           Shape(l, g, c, f, ps), Placed(l, g, f, ps, n, gone), Pc(ps[p]) = "held",
           IsCut(l, m), qs = [ps EXCEPT ![p] = Idle]
    PROVE  /\ Shape(m, g, c, f, qs)
           /\ Placed(m, g, f, qs, n, gone \cup Range(Recs(ps[p])))
           /\ \A a : Order(l, g, c, f, ps, a) => Order(m, g, c, f, qs, a)
<1>1. /\ Typed(l, g, c, f, ps) /\ Held(l, ps) /\ Ended(l, g, f) /\ Captured(l, f, ps)
      /\ l \in Logs /\ m \in Logs /\ f \in Writes /\ ps \in [Proc -> Threads] /\ WellFormed(ps[p])
      /\ \A s \in DOMAIN g : g[s] \in Segments /\ Recs(g[s]) \in Seq(Records)
  BY SegmentTypes, SMTT(30) DEF Shape, Typed, IsCut, IsReleased
<1>2. PICK buf \in Seq(Records), o \in Nat, k \in Nat : buf = Buf(l) /\ o = HoldOff(l) /\ k = Copied(f)
  BY <1>1, LogTypes, WriteFacts, Zenon
<1>3. HoldLen(l) = 1 /\ Recs(ps[p]) = <<buf[o + 1]>> /\ o < Len(buf)
  BY <1>1, <1>2 DEF Held
<1>4. k <= o /\ (By(f) # NoProc => 0 < Count(f) /\ Count(f) <= o /\ ~Latched(l))
  BY <1>1, <1>2, <1>3, WriteTypes DEF Captured, Copied
<1>5. PICK r \in Records : r = buf[o + 1]
  BY <1>3
<1>6. PICK u \in Seq(Records), v \in Seq(Records) :
        /\ u = SubSeq(buf, 1, o) /\ v = SubSeq(buf, o + 2, Len(buf)) /\ Len(u) = o /\ Len(v) = Len(buf) - o - 1
        /\ <<r>> \o v \in Seq(Records) /\ buf = u \o (<<r>> \o v)
        /\ \A i \in 1..o : u[i] = buf[i]
        /\ v # <<>> => v[Len(v)] = buf[Len(buf)]
  BY <1>3, <1>5, Around, ZenonT(40)
<1>7. /\ Len(u) = o /\ Len(v) = Len(buf) - o - 1 /\ \A i \in 1..o : u[i] = buf[i]
      /\ v # <<>> => v[Len(v)] = buf[Len(buf)]
  BY <1>6, Zenon
<1>8. PICK t \in Seq(Records) : t = <<r>> \o v /\ buf = u \o t
  BY <1>6, Zenon
<1>9. Buf(m) = u \o v
  <2>1. HoldOff(l) + HoldLen(l) + 1 = o + 2
    BY <1>2, <1>3
  <2> QED
    BY <1>2, <1>6, <2>1, Zenon DEF IsCut, IsReleased
<1>10. PICK new \in Seq(Records), w \in Seq(Records) : new = u \o v /\ w = SubSeq(u, k + 1, Len(u))
  <2>1. u \o v \in Seq(Records)
    BY ConcatFacts
  <2>2. SubSeq(u, k + 1, Len(u)) \in Seq(Records)
    BY <1>4, <1>7, SuffixFacts
  <2> QED
    BY <2>1, <2>2, Zenon
<1>11. Rest(l, f) = w \o t /\ Rest(m, f) = w \o v /\ Done(m, f) = Done(l, f)
  <2>1. k <= Len(u)
    BY <1>4, <1>7
  <2>2. SubSeq(u \o t, k + 1, Len(u \o t)) = w \o t /\ SubSeq(u \o t, 1, k) = SubSeq(u, 1, k)
    BY <1>10, <2>1, ConcatSubSeq, ZenonT(40)
  <2>3. SubSeq(u \o v, k + 1, Len(u \o v)) = w \o v /\ SubSeq(u \o v, 1, k) = SubSeq(u, 1, k)
    BY <1>10, <2>1, ConcatSubSeq, ZenonT(40)
  <2> QED
    BY <1>2, <1>8, <1>9, <2>2, <2>3, Zenon DEF Rest, Done
<1>12. PICK rest \in Seq(Records), left \in Seq(Records) : rest = w \o t /\ left = w \o v
  BY ConcatFacts, Zenon
<1>13. /\ Joins(buf, u, t) /\ Joins(t, <<r>>, v) /\ Joins(new, u, v) /\ Joins(rest, w, t) /\ Joins(left, w, v)
  BY <1>8, <1>10, <1>12, OneRecord, Parts, Zenon
<1>14. /\ Buf(l) = buf /\ Buf(m) = new /\ Rest(l, f) = rest /\ Rest(m, f) = left /\ Recs(ps[p]) = <<r>>
  BY <1>2, <1>3, <1>5, <1>9, <1>10, <1>11, <1>12, Zenon
<1>15. Len(new) = o + Len(v) /\ \A i \in 1..o : new[i] = buf[i]
  <2>1. Len(new) = Len(u) + Len(v) /\ \A i \in 1..Len(u) : new[i] = u[i]
    BY <1>10, ConcatFacts
  <2> QED
    BY <1>7, <2>1, Zenon
<1>16. /\ qs \in [Proc -> Threads] /\ qs[p] = Idle /\ \A q \in Proc : q # p => qs[q] = ps[q]
       /\ Recs(Idle) = <<>> /\ Pending(Idle) = <<>> /\ WellFormed(Idle) /\ Kind(Idle) = "append" /\ Pc(Idle) = "idle"
  BY <1>1, IdleFacts
<1>17. \A q \in Proc : \/ Recs(qs[q]) = <<>> /\ Pending(qs[q]) = <<>> /\ Kind(qs[q]) = "append"
                       \/ q # p /\ qs[q] = ps[q]
  BY <1>16
<1>18. \A q \in Proc : Pc(qs[q]) # "held"
  BY <1>1, <1>16, ZenonT(40) DEF Held, Typed, WellFormed
<1>19. Shape(m, g, c, f, qs)
  <2>1. Typed(m, g, c, f, qs)
    BY <1>1, <1>16, Zenon DEF Typed, IsCut, IsReleased
  <2>2. Ended(m, g, f)
    BY <1>1, <1>11, Zenon DEF Ended, IsCut, IsReleased
  <2>3. Captured(m, f, qs)
    <3>1. By(f) # NoProc => Count(f) <= Len(new)
      <4>1. Count(f) \in Nat
        BY <1>1, WriteTypes, Zenon
      <4>2. Len(v) \in Nat
        OBVIOUS
      <4>3. Len(new) = o + Len(v)
        BY <1>15, ZenonT(40)
      <4> QED
        BY <1>4, <4>1, <4>2, <4>3
    <3>2. By(f) # NoProc => By(f) \in Proc /\ By(f) # p
      BY <1>1, WriteTypes, SMTT(30) DEF Captured
    <3> QED
      BY <1>1, <1>14, <1>16, <3>1, <3>2, Zenon DEF Captured, IsCut, IsReleased
  <2>4. Held(m, qs)
    BY <1>1, <1>17, <1>18, ZenonT(40) DEF Held, IsCut, IsReleased
  <2> QED
    BY <2>1, <2>2, <2>3, <2>4 DEF Shape
<1>20. Placed(m, g, f, qs, n, gone \cup {r})
  <2>1. /\ Numbered(l, g, ps, n) /\ Distinct(l, ps) /\ Waiting(l, g, ps) /\ Unwritten(l, g, f)
        /\ Gone(l, g, ps, n, gone) /\ Owned(ps, n)
    BY DEF Placed
  <2>2. Upto(new, n) /\ OneEach(new) /\ Id(r) <= n /\ Absent(new, r)
    BY <1>13, <1>14, <2>1, OneRecord, Zenon DEF Joins, Numbered, Distinct
  <2>3. \A s : Apart(s, buf) => Apart(s, new) /\ Absent(s, r)
    BY <1>13, OneRecord, Zenon DEF Joins
  <2>4. \A s \in DOMAIN g : Apart(left, Recs(g[s])) /\ Absent(Recs(g[s]), r)
    BY <1>13, <1>14, <2>1, OneRecord, Zenon DEF Joins, Unwritten
  <2>5. \A q : Absent(buf, q) => Absent(new, q)
    BY <1>13, Zenon DEF Joins
  <2>6. Numbered(m, g, qs, n)
    BY <1>14, <1>17, <2>1, <2>2, NoRecords, Zenon DEF Numbered
  <2>7. Distinct(m, qs)
    BY <1>14, <1>17, <2>1, <2>2, NoRecords, Zenon DEF Distinct
  <2>8. Waiting(m, g, qs)
    BY <1>14, <1>17, <2>1, <2>3, NoRecords, Zenon DEF Waiting
  <2>9. Unwritten(m, g, f)
    BY <1>14, <2>4 DEF Unwritten
  <2>10. Gone(m, g, qs, n, gone \cup {r})
    <3> SUFFICES ASSUME NEW q \in gone \cup {r}
                 PROVE  /\ Id(q) <= n /\ Absent(new, q)
                        /\ \A s \in DOMAIN g : Absent(Recs(g[s]), q)
                        /\ \A x \in Proc : Absent(Pending(qs[x]), q)
      BY <1>14, Zenon DEF Gone
    <3>1. CASE q = r
      BY <1>14, <1>17, <2>1, <2>2, <2>3, <2>4, <3>1, NoRecords, Zenon DEF Waiting
    <3>2. CASE q \in gone
      BY <1>14, <1>17, <2>1, <2>5, <3>2, NoRecords, Zenon DEF Gone
    <3> QED
      BY <3>1, <3>2
  <2>11. Owned(qs, n)
    BY <1>17, <2>1, NoRecords, Zenon DEF Owned
  <2> QED
    BY <2>6, <2>7, <2>8, <2>9, <2>10, <2>11 DEF Placed
<1>21. ASSUME NEW a, Order(l, g, c, f, ps, a) PROVE Order(m, g, c, f, qs, a)
  <2>1. /\ Alone(ps) /\ Ascending(l, g, c, f) /\ Marks(l, f) /\ Durable(l, g)
        /\ Sorted(ps) /\ Latest(l, g, ps) /\ Kept(l, g, ps) /\ Vouched(l, g, c, a)
    BY <1>21 DEF Order
  <2>2. Alone(qs) /\ Sorted(qs)
    BY <1>17, <2>1, NoRecords, Zenon DEF Alone, Sorted
  <2>3. Ascending(m, g, c, f)
    BY <1>13, <1>14, <2>1, Zenon DEF Joins, Ascending, IsCut, IsReleased
  <2>4. Marks(m, f)
    <3>1. ASSUME v # <<>>
          PROVE  new # <<>> /\ Last(new) = Last(buf) /\ Lsn(r) < Lsn(Last(buf))
      <4>1. Len(v) \in 1..Len(v) /\ v[Len(v)] = buf[Len(buf)]
        BY <1>7, <3>1, SMTT(30)
      <4>2. new[o + Len(v)] = v[Len(v)]
        <5>1. new[Len(u) + Len(v)] = v[Len(v)]
          BY <1>10, <4>1, ConcatFacts
        <5> QED
          BY <1>7, <5>1
      <4>3. Above(v, Lsn(r))
        BY <1>13, <1>14, <2>1, OneRecord, Zenon DEF Joins, Ascending
      <4> QED
        <5>1. Lsn(r) < Lsn(v[Len(v)])
          BY <4>1, <4>3, Zenon DEF Above
        <5>2. Len(new) = o + Len(v) /\ Len(v) > 0
          BY <1>15, <4>1
        <5> QED
          BY <4>1, <4>2, <5>1, <5>2 DEF Last
    <3>2. ASSUME v = <<>>, new # <<>>
          PROVE  /\ Last(buf) = r /\ 0 < o /\ Last(new) = buf[o] /\ buf # <<>>
      <4>1. Len(v) = 0
        BY <3>2
      <4>2. Len(buf) = o + 1 /\ Len(new) = o
        <5>1. Len(new) = o + Len(v) /\ Len(v) = Len(buf) - o - 1
          BY <1>7, <1>15, Zenon
        <5>2. \A i, j \in Nat : j = o + 0 /\ 0 = i - o - 1 => i = o + 1 /\ j = o
          OBVIOUS
        <5>3. Len(buf) \in Nat /\ Len(new) \in Nat
          OBVIOUS
        <5> QED
          BY <4>1, <5>1, <5>2, <5>3, Zenon
      <4>3. 0 < o
        BY <3>2, <4>2, SMTT(30)
      <4> QED
        <5>1. new[o] = buf[o]
          BY <1>15, <4>3, SMTT(30)
        <5>2. Last(buf) = r /\ Last(new) = buf[o]
          BY <1>5, <4>2, <5>1, Zenon DEF Last
        <5>3. buf # <<>>
          BY <4>2
        <5> QED
          BY <4>3, <5>2, <5>3
    <3>3. new # <<>> => BufLast(m) = Lsn(Last(new))
      <4>1. /\ buf # <<>> => BufLast(l) = Lsn(Last(buf))
            /\ HoldLSN(l) = Lsn(r) /\ (o > 0 => HoldPrev(l) = Lsn(buf[o]))
            /\ BufLast(m) = IF BufLast(l) = HoldLSN(l) THEN HoldPrev(l) ELSE BufLast(l)
        BY <1>2, <1>3, <1>5, <2>1 DEF Marks, IsCut, IsReleased
      <4>2. buf # <<>> /\ Lsn(r) \in Nat
        BY <1>3, RecordTypes
      <4>3. CASE v # <<>>
        BY <3>1, <4>1, <4>2, <4>3
      <4>4. CASE v = <<>> /\ new # <<>>
        BY <3>2, <4>1, <4>2, <4>4, SMTT(30)
      <4> QED
        BY <4>3, <4>4
    <3>4. By(f) # NoProc => LastLSN(f) = Lsn(new[Count(f)])
      BY <1>1, <1>4, <1>14, <1>15, <2>1, WriteTypes, SMTT(30) DEF Marks
    <3> QED
      BY <1>14, <3>3, <3>4, Zenon DEF Marks, IsCut, IsReleased
  <2>5. Durable(m, g)
    BY <1>13, <1>14, <2>1, Zenon DEF Joins, Durable, IsCut, IsReleased
  <2>6. Latest(m, g, qs)
    <3>1. \A s : Before(buf, s) => Before(new, s)
      BY <1>13, Zenon DEF Joins
    <3> QED
      BY <1>14, <1>17, <2>1, <3>1, NoRecords, Zenon DEF Latest, IsCut, IsReleased
  <2>7. Kept(m, g, qs)
    <3> SUFFICES ASSUME NEW q \in Proc, NEW x \in Range(Recs(qs[q]))
                 PROVE  x \in Range(Pending(qs[q])) \/ (Lsn(x) < NextLSN(m) /\ Found(m, g, x))
      BY Zenon DEF Kept
    <3>1. q # p /\ qs[q] = ps[q]
      BY <1>17, NoRecords
    <3>2. x # r
      <4>1. Recs(ps[q]) \in Seq(Records) /\ x \in Records
        BY <1>1, <3>1, ThreadTypes, RangeConcat, RangeOf
      <4>2. Apart(Recs(ps[q]), <<r>>)
        BY <1>14, <3>1, Zenon DEF Placed, Owned
      <4>3. Absent(Recs(ps[q]), r)
        BY <4>2, OneRecord, Zenon
      <4>4. PICK i \in 1..Len(Recs(ps[q])) : x = Recs(ps[q])[i]
        BY <3>1, <4>1, RangeOf
      <4> QED
        BY <4>3, <4>4, Zenon DEF Absent
    <3>3. x \in Range(buf) => x \in Range(new)
      <4>1. Range(buf) = Range(u) \cup Range(t) /\ Range(t) = Range(<<r>>) \cup Range(v) /\ Range(new) = Range(u) \cup Range(v)
        BY <1>13, Zenon DEF Joins
      <4>2. Range(<<r>>) = {r}
        BY OneRecord, Zenon
      <4> QED
        BY <3>2, <4>1, <4>2, Zenon
    <3> QED
      BY <1>14, <2>1, <3>1, <3>3, Zenon DEF Kept, Found, IsCut, IsReleased
  <2>8. Vouched(m, g, c, a)
    BY <2>1, Zenon DEF Vouched, IsCut, IsReleased
  <2> QED
    BY <2>2, <2>3, <2>4, <2>5, <2>6, <2>7, <2>8 DEF Order
<1>22. Range(Recs(ps[p])) = {r}
  BY <1>14, OneRecord, Zenon
<1> QED
  BY <1>19, <1>20, <1>21, <1>22, ZenonT(40)

=============================================================================
