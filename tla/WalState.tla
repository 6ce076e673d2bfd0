------------------------------ MODULE WalState ------------------------------
(***************************************************************************)
(* The state of the write-ahead log as the proofs see it: the types of its *)
(* parts, and the inductive invariant as predicates on values of those     *)
(* parts rather than on the variables. WalSteps.tla and WalDisk.tla show   *)
(* what the steps of Wal.tla do to these predicates.                       *)
(***************************************************************************)
EXTENDS WalTypes

-----------------------------------------------------------------------------
(* The fields of the records, as operators: the provers reason about an      *)
(* operator whose definition they do not see better than about a field.      *)

Id(r) == r.id
Lsn(r) == r.lsn
NextLSN(x) == x.nextLSN
DurableLSN(x) == x.durableLSN
RedoLSN(x) == x.redoLSN
Buf(l) == l.buf
BufLast(l) == l.bufLast
SegID(l) == l.segID
SegOff(l) == l.segOff
HoldOff(l) == l.hold.off
HoldLen(l) == l.hold.len
HoldLSN(l) == l.hold.lsn
HoldPrev(l) == l.hold.prevLast
Latched(l) == l.durabilityErr
Start(x) == x.start
Recs(x) == x.recs
Synced(x) == x.synced
By(f) == f.by
Count(f) == f.n
LastLSN(f) == f.last
Written(f) == f.written
Pc(x) == x.pc
Kind(x) == x.kind

Holds == [off : Nat, len : Nat, lsn : Nat, prevLast : Nat]
Logs == [nextLSN : Nat \ {0}, durableLSN : Nat, redoLSN : Nat \ {0},
         nonceCur : Nat, nonceLim : Nat, nonceHigh : Nat, buf : Seq(Records), bufLast : Nat,
         segID : Nat, segOff : Nat, hold : Holds, durabilityErr : BOOLEAN, flushErr : BOOLEAN]
Segments == [start : Nat \ {0}, recs : Seq(Records), synced : Nat]
Controls == [nextLSN : Nat \ {0}, durableLSN : Nat, redoLSN : Nat \ {0}, nonceHigh : Nat]
Writes == [by : Proc \cup {NoProc}, n : Nat, last : Nat, written : BOOLEAN]
Threads == [pc : {"idle", "appended", "images", "encrypt", "rotate", "held", "flush", "wait", "woken"},
            kind : {"append", "images", "held"}, recs : Seq(Records)]

-----------------------------------------------------------------------------
(* Sequences of records *)

\* Ids: at most n, different from those of t, all different, not that of r.
Upto(s, n) == \A i \in 1..Len(s) : Id(s[i]) <= n
Apart(s, t) == \A i \in 1..Len(s), j \in 1..Len(t) : Id(s[i]) # Id(t[j])
OneEach(s) == \A i, j \in 1..Len(s) : Id(s[i]) = Id(s[j]) => i = j
Absent(s, r) == \A i \in 1..Len(s) : Id(s[i]) # Id(r)

\* LSNs: equal to x, below x, above x, below those of t, growing.
At(s, x) == \A i \in 1..Len(s) : Lsn(s[i]) = x
Below(s, x) == \A i \in 1..Len(s) : Lsn(s[i]) < x
Above(s, x) == \A i \in 1..Len(s) : x < Lsn(s[i])
Before(s, t) == \A i \in 1..Len(s), j \in 1..Len(t) : Lsn(s[i]) < Lsn(t[j])
Increasing(s) == \A i, j \in 1..Len(s) : i < j => Lsn(s[i]) < Lsn(s[j])

-----------------------------------------------------------------------------
(* The inductive invariant. Its parts are predicates on values of the log l, *)
(* the segments g, the control file c, the write in progress f and the       *)
(* threads ps, so that a step made of several (a flush that rotates the      *)
(* segment and buffers the records behind it) is proved one by one.          *)

\* How much of the buffer the write in progress has put into the segment, that
\* part of the buffer, and the other.
Copied(f) == IF Written(f) THEN Count(f) ELSE 0
Done(l, f) == SubSeq(Buf(l), 1, Copied(f))
Rest(l, f) == SubSeq(Buf(l), Copied(f) + 1, Len(Buf(l)))

\* The part of a segment that a power loss leaves, and the part it may take.
Safe(x) == SubSeq(Recs(x), 1, Synced(x))
Loose(x) == SubSeq(Recs(x), Synced(x) + 1, Len(Recs(x)))

\* The records a thread has not buffered yet.
Pending(x) == IF Pc(x) \notin {"encrypt", "rotate"} THEN <<>>
              ELSE IF Kind(x) = "images" THEN Recs(x) ELSE <<Last(Recs(x))>>

WellFormed(x) ==
    /\ Pc(x) = "idle" => Recs(x) = <<>> /\ Kind(x) = "append"
    /\ Pc(x) # "idle" => Recs(x) # <<>>
    /\ Pc(x) \in {"images", "encrypt"} => Kind(x) = "images"
    /\ Kind(x) = "held" => Len(Recs(x)) = 1
    /\ Pc(x) = "held" => Kind(x) = "held"

\* Types; the log writes to the last segment.
Typed(l, g, c, f, ps) ==
    /\ l \in Logs /\ c \in Controls /\ f \in Writes /\ ps \in [Proc -> Threads]
    /\ g \in [DOMAIN g -> Segments] /\ DOMAIN g \subseteq Nat /\ SegID(l) \in DOMAIN g
    /\ \A s \in DOMAIN g : s <= SegID(l)
    /\ \A s \in DOMAIN g : Synced(g[s]) <= Len(Recs(g[s]))
    /\ \A p \in Proc : WellFormed(ps[p])

\* The nonces used are below nonceCur, in order, and the control file has
\* reserved everything up to nonceHigh.
Nonces(l, c, used) ==
    /\ l.nonceCur <= l.nonceLim /\ l.nonceLim = l.nonceHigh /\ c.nonceHigh = l.nonceHigh
    /\ \A i \in 1..Len(used) : used[i] < l.nonceCur
    /\ \A i, j \in 1..Len(used) : i < j => used[i] < used[j]

\* Closed segments are synced. Until an error, what follows the synced part of
\* the last one is what the write in progress has put there.
Ended(l, g, f) ==
    /\ \A s \in DOMAIN g : s # SegID(l) => Synced(g[s]) = Len(Recs(g[s]))
    /\ ~Latched(l) => /\ SegOff(l) = Synced(g[SegID(l)])
                      /\ Len(Recs(g[SegID(l)])) = SegOff(l) + Copied(f)
    /\ Range(Done(l, f)) \subseteq Range(Recs(g[SegID(l)]))

\* A write in progress has captured some of the buffer, nothing that is held.
Captured(l, f, ps) ==
    /\ By(f) = NoProc => ~Written(f) /\ Count(f) = 0
    /\ By(f) # NoProc =>
         /\ 0 < Count(f) /\ Count(f) <= Len(Buf(l)) /\ ~Latched(l)
         /\ Pc(ps[By(f)]) \in {"flush", "rotate"}
         /\ Pc(ps[By(f)]) = "flush" => DurableLSN(l) < Lsn(Last(Recs(ps[By(f)])))
         /\ HoldLen(l) # 0 => Count(f) <= HoldOff(l)

\* What is held back, and by whom.
Held(l, ps) ==
    /\ HoldLen(l) = 0 => HoldOff(l) = 0
    /\ HoldLen(l) # 0 => /\ HoldLen(l) = 1 /\ HoldOff(l) < Len(Buf(l))
                         /\ \E p \in Proc : Pc(ps[p]) = "held"
    /\ \A p \in Proc : Pc(ps[p]) = "held" =>
         HoldLen(l) = 1 /\ Recs(ps[p]) = <<Buf(l)[HoldOff(l) + 1]>>
    /\ \A p, q \in Proc : Kind(ps[p]) = "held" /\ Kind(ps[q]) = "held" => p = q

\* Ids are places in the sequence of the nonces used, n in all.
Numbered(l, g, ps, n) ==
    /\ Upto(Buf(l), n)
    /\ \A s \in DOMAIN g : Upto(Recs(g[s]), n)
    /\ \A p \in Proc : Upto(Pending(ps[p]), n)

\* No two records of the buffer have the same id, nor two that wait for it.
Distinct(l, ps) ==
    /\ OneEach(Buf(l))
    /\ \A p \in Proc : OneEach(Pending(ps[p]))
    /\ \A p, q \in Proc : p # q => Apart(Pending(ps[p]), Pending(ps[q]))

\* No record belongs to two threads.
Owned(ps, n) ==
    /\ \A p \in Proc : Upto(Recs(ps[p]), n)
    /\ \A p, q \in Proc : p # q => Apart(Recs(ps[p]), Recs(ps[q]))

\* What a thread has still to buffer is in no other place.
Waiting(l, g, ps) ==
    \A p \in Proc : /\ Apart(Pending(ps[p]), Buf(l))
                    /\ \A s \in DOMAIN g : Apart(Pending(ps[p]), Recs(g[s]))

\* What the buffer has still to write is in no segment.
Unwritten(l, g, f) == \A s \in DOMAIN g : Apart(Rest(l, f), Recs(g[s]))

\* A discarded record is in none of these places.
Gone(l, g, ps, n, gone) ==
    \A r \in gone :
      /\ Id(r) <= n /\ Absent(Buf(l), r)
      /\ \A s \in DOMAIN g : Absent(Recs(g[s]), r)
      /\ \A p \in Proc : Absent(Pending(ps[p]), r)

\* Without the two races one thread at a time has records to buffer.
Alone(ps) == \A p, q \in Proc : Pending(ps[p]) # <<>> /\ Pending(ps[q]) # <<>> => p = q

\* LSNs grow along a segment, from a segment to the next and to the part of
\* the buffer not yet written. A segment's first LSN is above what is in the
\* segments before it and not above what the control file would go on from.
Ascending(l, g, c, f) ==
    /\ \A s \in DOMAIN g : /\ Increasing(Recs(g[s])) /\ Start(g[s]) <= NextLSN(c)
                           /\ Below(Recs(g[s]), NextLSN(l)) /\ Before(Recs(g[s]), Rest(l, f))
    /\ \A s, q \in DOMAIN g : s < q => /\ Start(g[s]) <= Start(g[q])
                                       /\ Below(Recs(g[s]), Start(g[q]))
                                       /\ Before(Recs(g[s]), Recs(g[q]))
    /\ Increasing(Buf(l)) /\ Below(Buf(l), NextLSN(l))
    /\ NextLSN(c) <= NextLSN(l) /\ DurableLSN(c) < NextLSN(c)

\* The LSNs that stand for places in the buffer: of its end, of the held record
\* and the one before it, and of the last record of the write in progress.
Marks(l, f) ==
    /\ Buf(l) # <<>> => BufLast(l) = Lsn(Last(Buf(l)))
    /\ HoldLen(l) # 0 => /\ HoldLSN(l) = Lsn(Buf(l)[HoldOff(l) + 1])
                         /\ HoldOff(l) > 0 => HoldPrev(l) = Lsn(Buf(l)[HoldOff(l)])
    /\ By(f) # NoProc => LastLSN(f) = Lsn(Buf(l)[Count(f)])

\* DurableLSN is below everything that is not synced.
Durable(l, g) ==
    DurableLSN(l) < NextLSN(l) /\ Above(Buf(l), DurableLSN(l)) /\ Above(Loose(g[SegID(l)]), DurableLSN(l))

\* The records of a thread have ascending LSNs.
Sorted(ps) == \A p \in Proc : Increasing(Recs(ps[p])) /\ Increasing(Pending(ps[p]))

\* Those it has not buffered come after everything else.
Latest(l, g, ps) ==
    \A p \in Proc :
      /\ Kind(ps[p]) = "append" => At(Pending(ps[p]), NextLSN(l))
      /\ Kind(ps[p]) # "append" => Below(Pending(ps[p]), NextLSN(l))
      /\ Above(Pending(ps[p]), DurableLSN(l))
      /\ Before(Buf(l), Pending(ps[p]))
      /\ \A s \in DOMAIN g : Before(Recs(g[s]), Pending(ps[p]))

\* The record r can still be found, or a checkpoint has passed it.
Found(l, g, r) ==
    \/ Lsn(r) < RedoLSN(l)
    \/ r \in Range(Buf(l))
    \/ \E s \in DOMAIN g : r \in Range(Recs(g[s]))

\* So can those it has buffered.
Kept(l, g, ps) ==
    \A p \in Proc : \A r \in Range(Recs(ps[p])) :
      r \in Range(Pending(ps[p])) \/ (Lsn(r) < NextLSN(l) /\ Found(l, g, r))

\* The synced part of the segments holds what was acknowledged, from the redo
\* boundary on, and reaches back to that boundary.
Vouched(l, g, c, a) ==
    /\ RedoLSN(c) = RedoLSN(l)
    /\ \E s \in DOMAIN g : Start(g[s]) <= RedoLSN(l)
    /\ \A r \in a : Lsn(r) >= RedoLSN(l) => \E s \in DOMAIN g : r \in Range(Safe(g[s]))

\* What holds of the structure in any workload, and of the LSNs in one without
\* the two races.
Shape(l, g, c, f, ps) ==
    Typed(l, g, c, f, ps) /\ Ended(l, g, f) /\ Captured(l, f, ps) /\ Held(l, ps)
Placed(l, g, f, ps, n, gone) ==
    /\ Numbered(l, g, ps, n) /\ Distinct(l, ps) /\ Waiting(l, g, ps) /\ Unwritten(l, g, f)
    /\ Gone(l, g, ps, n, gone) /\ Owned(ps, n)
Order(l, g, c, f, ps, a) ==
    /\ Alone(ps) /\ Ascending(l, g, c, f) /\ Marks(l, f) /\ Durable(l, g)
    /\ Sorted(ps) /\ Latest(l, g, ps) /\ Kept(l, g, ps) /\ Vouched(l, g, c, a)
Sound(l, g, c, f, ps, n, gone, a, calm) ==
    Shape(l, g, c, f, ps) /\ Placed(l, g, f, ps, n, gone) /\ (calm => Order(l, g, c, f, ps, a))

=============================================================================
