------------------------------ MODULE WalAppend -----------------------------
(***************************************************************************)
(* The actions of Wal.tla that append and wait keep the invariant: Append, *)
(* AppendHeldBatch, AppendImages, ReleaseHold, and Flush up to the write.  *)
(***************************************************************************)
EXTENDS WalInv, WalSteps

-----------------------------------------------------------------------------
(* Threads *)

\* A step uses up the workload and does not change whether it has the races.
LEMMA Spending ==
    ASSUME budget \in Workload, NEW what \in {"append", "images", "hold", "checkpoint", "fault", "crash"}, Spend(what)
    PROVE  budget' \in Workload /\ NoRace' = NoRace
BY DEF Spend, Workload, NoRace

\* The nonces used stay fresh when the log keeps its counters.
LEMMA NoncesKept ==
    ASSUME NEW l, NEW m, NEW c, NEW d, NEW used, Nonces(l, c, used),
           m.nonceCur = l.nonceCur, m.nonceLim = l.nonceLim, m.nonceHigh = l.nonceHigh, d.nonceHigh = c.nonceHigh
    PROVE  Nonces(m, d, used)
BY DEF Nonces

\* What ThreadsFollow says of a whole state.
LEMMA SoundFollows ==
    ASSUME NEW l, NEW g, NEW c, NEW f, NEW ps, NEW qs \in [Proc -> Threads], NEW n, NEW gone, NEW a, NEW calm,
           Sound(l, g, c, f, ps, n, gone, a, calm),
           \A p \in Proc : Follows(ps[p], qs[p]),
           By(f) # NoProc => qs[By(f)] = ps[By(f)]
    PROVE  Sound(l, g, c, f, qs, n, gone, a, calm)
BY ThreadsFollow, Zenon DEF Sound

\* The broadcast of flushLocked keeps the invariant.
LEMMA Woken ==
    ASSUME NEW l, NEW g, NEW c, NEW f, NEW ps, NEW n, NEW gone, NEW a, NEW calm,
           Sound(l, g, c, f, ps, n, gone, a, calm)
    PROVE  Sound(l, g, c, f, broadcast(ps), n, gone, a, calm)
<1>1. ps \in [Proc -> Threads] /\ f \in Writes /\ Captured(l, f, ps)
  BY DEF Sound, Shape, Typed
<1>2. /\ broadcast(ps) \in [Proc -> Threads]
      /\ \A p \in Proc : \/ broadcast(ps)[p] = ps[p]
                         \/ /\ Pc(ps[p]) = "wait" /\ Pc(broadcast(ps)[p]) = "woken"
                            /\ Kind(broadcast(ps)[p]) = Kind(ps[p]) /\ Recs(broadcast(ps)[p]) = Recs(ps[p])
  BY <1>1 DEF broadcast, Threads, Pc, Kind, Recs
<1>3. \A p \in Proc : Follows(ps[p], broadcast(ps)[p])
  BY <1>2 DEF Follows, After
<1>4. By(f) # NoProc => broadcast(ps)[By(f)] = ps[By(f)]
  BY <1>1, <1>2, WriteTypes DEF Captured
<1> QED
  BY <1>2, <1>3, <1>4, SoundFollows, Zenon

\* A step of one thread that touches nothing else.
LEMMA ThreadMoves ==
    ASSUME Inv, NEW p \in Proc, NEW y \in Threads, Follows(proc[p], y), By(io) # p,
           proc' = [proc EXCEPT ![p] = y], UNCHANGED <<log, segs, control, io, spent, acked, discarded, budget>>
    PROVE  Inv'
<1>1. proc \in [Proc -> Threads]
  BY DEF Inv, Sound, Shape, Typed
<1>2. proc' \in [Proc -> Threads] /\ \A q \in Proc : Follows(proc[q], proc'[q])
  BY <1>1 DEF Follows
<1>3. By(io) # NoProc => proc'[By(io)] = proc[By(io)]
  BY <1>1 DEF Inv, Sound, Shape, Typed, Writes, By
<1>4. Sound(log, segs, control, io, proc', Len(spent), discarded, acked, NoRace)
  BY <1>2, <1>3, SoundFollows, Zenon DEF Inv
<1> QED
  BY <1>4 DEF Inv, NoRace

\* A thread that moves to pc keeps its kind and its records.
LEMMA Moved ==
    ASSUME NEW x \in Threads,
           NEW pc \in {"idle", "appended", "images", "encrypt", "rotate", "held", "flush", "wait", "woken"}
    PROVE  /\ [x EXCEPT !.pc = pc] \in Threads /\ Pc([x EXCEPT !.pc = pc]) = pc
           /\ Kind([x EXCEPT !.pc = pc]) = Kind(x) /\ Recs([x EXCEPT !.pc = pc]) = Recs(x)
BY DEF Threads, Pc, Kind, Recs

\* The thread whose write is in progress.
LEMMA Writer ==
    ASSUME Inv, NEW p \in Proc, By(io) = p
    PROVE  /\ Pc(proc[p]) \in {"flush", "rotate"} /\ ~Latched(log) /\ 0 < Count(io) /\ Count(io) <= Len(Buf(log))
           /\ Pc(proc[p]) = "flush" => DurableLSN(log) < Lsn(Last(Recs(proc[p])))
BY NoProcAssumption DEF Inv, Sound, Shape, Captured

-----------------------------------------------------------------------------
(* flushLocked *)

\* flushErr says nothing of the records or of the nonces.
LEMMA ErrorNoted ==
    ASSUME NEW l \in Logs, NEW b \in BOOLEAN
    PROVE  /\ SameLog(l, [l EXCEPT !.flushErr = b])
           /\ [l EXCEPT !.flushErr = b].nonceCur = l.nonceCur /\ [l EXCEPT !.flushErr = b].nonceLim = l.nonceLim
           /\ [l EXCEPT !.flushErr = b].nonceHigh = l.nonceHigh
BY Zenon DEF Logs, SameLog, NextLSN, DurableLSN, RedoLSN, Buf, BufLast, SegID, SegOff, HoldOff, HoldLen, HoldLSN, HoldPrev, Latched

\* What LogReplaced says of a whole state.
LEMMA SoundReplaced ==
    ASSUME NEW l, NEW g, NEW c, NEW f, NEW ps, NEW m, NEW n, NEW gone, NEW a, NEW calm,
           SameLog(l, m), Sound(l, g, c, f, ps, n, gone, a, calm)
    PROVE  Sound(m, g, c, f, ps, n, gone, a, calm)
BY LogReplaced, Zenon DEF Sound

\* Flush starts, with the last LSN of the caller as its target.
LEMMA StartFlushInv == ASSUME Inv, NEW p \in Proc, StartFlush(p) PROVE Inv'
<1>1. proc \in [Proc -> Threads] /\ Pc(proc[p]) = "appended"
  BY DEF Inv, Sound, Shape, Typed, StartFlush, Pc
<1> DEFINE y == [proc[p] EXCEPT !.pc = "flush"]
<1>2. y \in Threads /\ Pc(y) = "flush" /\ Kind(y) = Kind(proc[p]) /\ Recs(y) = Recs(proc[p])
  BY <1>1, Moved, Zenon
<1>3. proc' = [proc EXCEPT ![p] = y]
  BY DEF StartFlush
<1> HIDE DEF y
<1>4. Follows(proc[p], y) /\ By(io) # p
  BY <1>1, <1>2, Writer DEF Follows, After
<1> QED
  BY <1>2, <1>3, <1>4, ThreadMoves, Zenon DEF StartFlush, disk, ghosts

\* A call returns without a flush.
LEMMA ReturnInv == ASSUME Inv, NEW p \in Proc, Return(p) PROVE Inv'
<1>1. Pc(proc[p]) \in {"appended", "images"}
  BY DEF Return, Pc
<1>2. Follows(proc[p], Idle) /\ By(io) # p
  BY <1>1, Writer DEF Follows
<1> QED
  BY <1>2, IdleFacts, ThreadMoves, Zenon DEF Return, disk, ghosts

\* Flush waits while another thread writes.
LEMMA FlushWaitInv == ASSUME Inv, NEW p \in Proc, FlushWait(p) PROVE Inv'
<1>1. proc \in [Proc -> Threads] /\ Pc(proc[p]) = "flush" /\ By(io) # p
  BY DEF Inv, Sound, Shape, Typed, FlushWait, Flushing, Pc, By
<1> DEFINE y == [proc[p] EXCEPT !.pc = "wait"]
<1>2. y \in Threads /\ Pc(y) = "wait" /\ Kind(y) = Kind(proc[p]) /\ Recs(y) = Recs(proc[p])
  BY <1>1, Moved, Zenon
<1>3. proc' = [proc EXCEPT ![p] = y]
  BY DEF FlushWait
<1> HIDE DEF y
<1>4. Follows(proc[p], y)
  BY <1>1, <1>2 DEF Follows, After
<1> QED
  BY <1>1, <1>2, <1>3, <1>4, ThreadMoves, Zenon DEF FlushWait, disk, ghosts

\* A woken Flush looks again.
LEMMA FlushWakeInv == ASSUME Inv, NEW p \in Proc, FlushWake(p) PROVE Inv'
<1>1. proc \in [Proc -> Threads] /\ Pc(proc[p]) = "woken"
  BY DEF Inv, Sound, Shape, Typed, FlushWake, Pc
<1> DEFINE y == [proc[p] EXCEPT !.pc = "flush"]
<1>2. y \in Threads /\ Pc(y) = "flush" /\ Kind(y) = Kind(proc[p]) /\ Recs(y) = Recs(proc[p])
  BY <1>1, Moved, Zenon
<1>3. PICK z \in {y, Idle} : proc' = [proc EXCEPT ![p] = z]
  BY Zenon DEF FlushWake
<1> HIDE DEF y
<1>4. z \in Threads /\ Follows(proc[p], z) /\ By(io) # p
  BY <1>1, <1>2, IdleFacts, Writer DEF Follows, After
<1> QED
  BY <1>3, <1>4, ThreadMoves, Zenon DEF FlushWake, disk, ghosts

\* Flush returns the latched or the noted error.
LEMMA FlushRefusedInv == ASSUME Inv, NEW p \in Proc, FlushRefused(p) PROVE Inv'
<1>1. /\ log \in Logs /\ proc \in [Proc -> Threads] /\ Pc(proc[p]) # "held" /\ By(io) = NoProc
      /\ Sound(log, segs, control, io, proc, Len(spent), discarded, acked, NoRace)
  BY DEF Inv, Sound, Shape, Typed, FlushRefused, Flushing, flushing, Pc, By
<1>2. SameLog(log, log') /\ Nonces(log', control, spent)
  <2>1. log' = [log EXCEPT !.flushErr = TRUE] \/ log' = log
    BY DEF FlushRefused
  <2>2. CASE log' = log
    BY <1>1, <2>2 DEF SameLog, Inv
  <2>3. CASE log' = [log EXCEPT !.flushErr = TRUE]
    BY <1>1, <2>3, ErrorNoted, NoncesKept, Zenon DEF Inv
  <2> QED
    BY <2>1, <2>2, <2>3
<1>3. Sound(log', segs, control, io, proc, Len(spent), discarded, acked, NoRace)
  BY <1>1, <1>2, SoundReplaced, Zenon
<1>4. proc' \in [Proc -> Threads] /\ \A q \in Proc : Follows(proc[q], proc'[q])
  BY <1>1, IdleFacts DEF FlushRefused, Follows
<1>5. Sound(log', segs, control, io, proc', Len(spent), discarded, acked, NoRace)
  BY <1>1, <1>3, <1>4, SoundFollows, Zenon
<1> QED
  BY <1>2, <1>5 DEF Inv, NoRace, FlushRefused, disk, ghosts

-----------------------------------------------------------------------------
(* Taking nonces and LSNs *)

\* The two logs have the same fields but for the next LSN and the nonces.
SameFields(l, m) ==
    /\ m.durableLSN = l.durableLSN /\ m.redoLSN = l.redoLSN /\ m.buf = l.buf /\ m.bufLast = l.bufLast
    /\ m.segID = l.segID /\ m.segOff = l.segOff /\ m.hold = l.hold /\ m.durabilityErr = l.durabilityErr

\* SameFields, in the words of the steps.
LEMMA NumbersChanged ==
    ASSUME NEW l \in Logs, NEW m \in Logs, SameFields(l, m) PROVE SameButNumbers(l, m)
BY DEF SameFields, SameButNumbers, DurableLSN, RedoLSN, Buf, BufLast, SegID, SegOff, HoldOff, HoldLen, HoldLSN, HoldPrev, Latched

\* Integer division.
LEMMA DivBounds ==
    ASSUME NEW a \in Nat, NEW d \in Nat \ {0}
    PROVE  a \div d \in Nat /\ d * (a \div d) <= a /\ a < d * (a \div d) + d
BY SMT

\* The last of the batches that a records need begins before the last of them.
LEMMA BatchesCover ==
    ASSUME NEW a \in Nat \ {0}, NEW d \in Nat \ {0}, NEW b, b = (a + d - 1) \div d
    PROVE  b \in Nat \ {0} /\ (b - 1) * d \in Nat /\ (b - 1) * d < a /\ a <= (b - 1) * d + d
<1>1. b \in Nat /\ d * b <= a + d - 1 /\ a + d - 1 < d * b + d
  BY DivBounds
<1>2. b # 0
  BY <1>1
<1>3. (b - 1) * d = d * b - d /\ (b - 1) * d >= 0
  BY <1>1, <1>2
<1> QED
  BY <1>1, <1>2, <1>3

\* The batches that n more records reserve, when the nonces from cur to below
\* lim are left.
Batches(n, cur, lim, b) ==
    b = IF n <= lim - cur THEN 0 ELSE (n - (lim - cur) + NonceBatch - 1) \div NonceBatch

\* The nonces that n more records use, from cur on, where those below lim are
\* reserved: w are reserved by all but the last of b further batches.
LEMMA NoncesAfter ==
    ASSUME NEW n \in Nat \ {0}, NEW cur \in Nat, NEW lim \in Nat, cur <= lim, NEW b, Batches(n, cur, lim, b)
    PROVE  /\ b = 0 => cur + n <= lim
           /\ b # 0 => \E w \in Nat :
                         /\ w = (b - 1) * NonceBatch /\ (lim - cur) + w \in Nat
                         /\ (lim - cur) + w < n /\ cur + n <= lim + w + NonceBatch
<1>1. CASE n <= lim - cur
  BY <1>1 DEF Batches
<1>2. CASE n > lim - cur
  <2> DEFINE d == n - (lim - cur)
  <2>1. d \in Nat \ {0} /\ NonceBatch \in Nat \ {0} /\ b = (d + NonceBatch - 1) \div NonceBatch
    BY <1>2, WalAssumption DEF Batches
  <2> HIDE DEF d
  <2>2. b \in Nat \ {0} /\ (b - 1) * NonceBatch \in Nat /\ (b - 1) * NonceBatch < d /\ d <= (b - 1) * NonceBatch + NonceBatch
    BY <2>1, BatchesCover, Zenon
  <2>3. PICK w \in Nat : w = (b - 1) * NonceBatch
    BY <2>2
  <2>4. w < d /\ d <= w + NonceBatch
    BY <2>2, <2>3
  <2>5. (lim - cur) + w \in Nat /\ (lim - cur) + w < n /\ cur + n <= lim + w + NonceBatch
    BY <1>2, <2>1, <2>4 DEF d
  <2> QED
    BY <2>2, <2>3, <2>5
<1> QED
  BY <1>1, <1>2

\* More nonces, in order after those used.
LEMMA MoreNonces ==
    ASSUME NEW used \in Seq(Nat), NEW more \in Seq(Nat), NEW cur \in Nat,
           \A i \in 1..Len(more) : more[i] = cur + i - 1,
           \A i \in 1..Len(used) : used[i] < cur,
           \A i, j \in 1..Len(used) : i < j => used[i] < used[j]
    PROVE  /\ used \o more \in Seq(Nat) /\ Len(used \o more) = Len(used) + Len(more)
           /\ \A i \in 1..Len(used \o more) : (used \o more)[i] < cur + Len(more)
           /\ \A i, j \in 1..Len(used \o more) : i < j => (used \o more)[i] < (used \o more)[j]
<1>1. used \o more \in Seq(Nat) /\ Len(used \o more) = Len(used) + Len(more)
  OBVIOUS
<1>2. \A i \in 1..Len(used) : (used \o more)[i] = used[i]
  OBVIOUS
<1>3. \A i \in 1..Len(used) + Len(more) : i > Len(used) => (used \o more)[i] = more[i - Len(used)]
  OBVIOUS
<1>4. PICK all \in Seq(Nat) : all = used \o more
  BY <1>1, Zenon
<1>5. \A i \in 1..Len(all) : all[i] \in Nat /\ all[i] < cur + Len(more) /\ (i > Len(used) => all[i] = cur + (i - Len(used)) - 1)
  <2> SUFFICES ASSUME NEW i \in 1..Len(all) PROVE all[i] \in Nat /\ all[i] < cur + Len(more) /\ (i > Len(used) => all[i] = cur + (i - Len(used)) - 1)
    OBVIOUS
  <2>1. CASE i <= Len(used)
    BY <1>1, <1>2, <1>4, <2>1
  <2>2. CASE i > Len(used)
    BY <1>1, <1>3, <1>4, <2>2, SMTT(30)
  <2> QED
    BY <2>1, <2>2
<1>6. \A i, j \in 1..Len(all) : i < j => all[i] < all[j]
  <2> SUFFICES ASSUME NEW i \in 1..Len(all), NEW j \in 1..Len(all), i < j PROVE all[i] < all[j]
    OBVIOUS
  <2>1. CASE j <= Len(used)
    BY <1>1, <1>2, <1>4, <2>1
  <2>2. CASE i > Len(used)
    <3>1. j > Len(used)
      BY <2>2
    <3>2. all[i] = cur + (i - Len(used)) - 1 /\ all[j] = cur + (j - Len(used)) - 1
      BY <1>5, <2>2, <3>1
    <3> QED
      BY <3>2
  <2>3. CASE i <= Len(used) /\ j > Len(used)
    <3>1. all[i] = used[i] /\ used[i] < cur
      BY <1>2, <1>4, <2>3
    <3>2. all[j] >= cur
      BY <1>5, <2>3
    <3>3. all[i] \in Nat /\ all[j] \in Nat
      OBVIOUS
    <3> QED
      BY <3>1, <3>2, <3>3
  <2> QED
    BY <2>1, <2>2, <2>3
<1> QED
  BY <1>1, <1>4, <1>5, <1>6, SMTT(30)

\* encode: the nonces are new, and the control file has reserved them.
LEMMA EncodeFacts ==
    ASSUME NEW n \in Nat \ {0}, NEW advance,
           log \in Logs, control \in Controls, spent \in Seq(Nat), Nonces(log, control, spent)
    PROVE  \E el \in Logs, ec \in Controls, en \in Seq(Nat) :
             /\ encode(log, n, advance) = [log |-> el, control |-> ec, nonces |-> en]
             /\ SameButNumbers(log, el) /\ Saves(log, el, control, ec)
             /\ NextLSN(el) = IF advance THEN NextLSN(log) + n ELSE NextLSN(log)
             /\ spent \o en \in Seq(Nat) /\ Len(spent \o en) = Len(spent) + n
             /\ Nonces(el, ec, spent \o en)
<1>1. PICK cur \in Nat, lim \in Nat, next \in Nat \ {0} :
        cur = log.nonceCur /\ lim = log.nonceLim /\ next = log.nextLSN
  BY DEF Logs
<1>2. log.nonceHigh = lim /\ control.nonceHigh = lim /\ cur <= lim /\ NonceBatch \in Nat \ {0}
  BY <1>1, WalAssumption DEF Nonces
<1> DEFINE batches == IF n <= lim - cur THEN 0 ELSE (n - (lim - cur) + NonceBatch - 1) \div NonceBatch
           before == lim - cur + (batches - 1) * NonceBatch
           nextLSN(i) == IF advance THEN next + i ELSE next
           saved == reserveNonce([log EXCEPT !.nextLSN = nextLSN(before),
                                             !.nonceHigh = lim + (batches - 1) * NonceBatch])
           nonce(i) == IF i <= lim - cur THEN cur + i - 1 ELSE lim + i - (lim - cur) - 1
           en == [i \in 1..n |-> nonce(i)]
           el == IF batches = 0 THEN [log EXCEPT !.nonceCur = cur + n, !.nextLSN = nextLSN(n)]
                 ELSE [saved EXCEPT !.nonceCur = lim + n - (lim - cur), !.nextLSN = nextLSN(n)]
           ec == IF batches = 0 THEN control ELSE controlOf(saved)
<1>3. encode(log, n, advance) = [log |-> el, control |-> ec, nonces |-> en]
  BY <1>1, <1>2, Zenon DEF encode
<1>4. \A i \in 1..n : nonce(i) = cur + i - 1
  OBVIOUS
<1>5. en \in Seq(Nat) /\ Len(en) = n /\ \A i \in 1..Len(en) : en[i] = cur + i - 1
  <2> HIDE DEF nonce
  <2>1. en = [i \in 1..n |-> cur + i - 1]
    BY <1>4
  <2> HIDE DEF en
  <2> QED
    BY <2>1
<1>6. /\ batches = 0 => cur + n <= lim
      /\ batches # 0 => \E w \in Nat :
                          /\ w = (batches - 1) * NonceBatch /\ lim - cur + w \in Nat
                          /\ lim - cur + w < n /\ cur + n <= lim + w + NonceBatch
  <2>1. Batches(n, cur, lim, batches)
    BY DEF Batches
  <2> HIDE DEF batches
  <2> QED
    BY <1>2, <2>1, NoncesAfter, ZenonT(40)
<1>7. /\ spent \o en \in Seq(Nat) /\ Len(spent \o en) = Len(spent) + n
      /\ \A i \in 1..Len(spent \o en) : (spent \o en)[i] < cur + n
      /\ \A i, j \in 1..Len(spent \o en) : i < j => (spent \o en)[i] < (spent \o en)[j]
  <2> HIDE DEF en
  <2>1. /\ \A i \in 1..Len(spent) : spent[i] < cur
        /\ \A i, j \in 1..Len(spent) : i < j => spent[i] < spent[j]
    BY <1>1 DEF Nonces
  <2>2. /\ spent \o en \in Seq(Nat) /\ Len(spent \o en) = Len(spent) + Len(en)
        /\ \A i \in 1..Len(spent \o en) : (spent \o en)[i] < cur + Len(en)
        /\ \A i, j \in 1..Len(spent \o en) : i < j => (spent \o en)[i] < (spent \o en)[j]
    BY <1>5, <2>1, MoreNonces, Zenon
  <2>3. Len(en) = n
    BY <1>5
  <2> QED
    BY <2>2, <2>3, Zenon
<1> HIDE DEF nonce, en
<1>8. nextLSN(n) \in Nat \ {0} /\ cur + n \in Nat /\ lim + n - (lim - cur) = cur + n
  OBVIOUS
<1>9. /\ el \in Logs /\ ec \in Controls /\ SameFields(log, el) /\ Saves(log, el, control, ec)
      /\ el.nextLSN = nextLSN(n) /\ el.nonceCur = cur + n
      /\ el.nonceCur <= el.nonceLim /\ el.nonceLim = el.nonceHigh /\ ec.nonceHigh = el.nonceHigh
  <2>1. CASE batches = 0
    <3>1. el = [log EXCEPT !.nonceCur = cur + n, !.nextLSN = nextLSN(n)] /\ ec = control
      BY <2>1
    <3>2. cur + n <= lim
      BY <1>6, <2>1
    <3> HIDE DEF batches, nextLSN, el, ec
    <3>3. /\ el \in Logs /\ SameFields(log, el) /\ el.nextLSN = nextLSN(n) /\ el.nonceCur = cur + n
          /\ el.nonceLim = lim /\ el.nonceHigh = lim
      BY <1>1, <1>2, <1>8, <3>1, Zenon DEF Logs, SameFields
    <3>4. Saves(log, el, control, ec)
      BY <3>1, Zenon DEF Saves
    <3> QED
      BY <1>2, <3>1, <3>2, <3>3, <3>4
  <2>2. CASE batches # 0
    <3>1. PICK w \in Nat : /\ w = (batches - 1) * NonceBatch /\ lim - cur + w \in Nat
                           /\ lim - cur + w < n /\ cur + n <= lim + w + NonceBatch
      BY <1>6, <2>2
    <3>2. el = [saved EXCEPT !.nonceCur = cur + n, !.nextLSN = nextLSN(n)] /\ ec = controlOf(saved)
      BY <1>8, <2>2, Zenon
    <3> HIDE DEF el, ec, batches
    <3> DEFINE at == nextLSN(lim - cur + w)
               k == [log EXCEPT !.nextLSN = at, !.nonceHigh = lim + w]
    <3>3. saved = reserveNonce(k)
      BY <3>1, Zenon
    <3>4. at \in Nat \ {0} /\ next <= at /\ at <= nextLSN(n) /\ lim + w \in Nat /\ lim + w + NonceBatch \in Nat
      <4>1. PICK v \in Nat : v = lim - cur + w /\ v < n
        BY <3>1, Zenon
      <4>2. at = nextLSN(v) /\ v < n
        BY <4>1
      <4>3. nextLSN(v) \in Nat \ {0} /\ next <= nextLSN(v) /\ nextLSN(v) <= nextLSN(n)
        BY <4>2
      <4>4. lim + w \in Nat /\ lim + w + NonceBatch \in Nat
        BY <1>2
      <4> QED
        BY <4>2, <4>3, <4>4
    <3> HIDE DEF nextLSN, saved, at
    <3>5. k \in Logs /\ SameFields(log, k) /\ k.nonceHigh = lim + w /\ k.nextLSN = at
      BY <3>4, Zenon DEF Logs, SameFields
    <3> HIDE DEF k
    <3>6. saved = [k EXCEPT !.nonceCur = lim + w, !.nonceHigh = lim + w + NonceBatch, !.nonceLim = lim + w + NonceBatch]
      BY <3>3, <3>5, Zenon DEF reserveNonce
    <3>7. /\ saved \in Logs /\ SameFields(log, saved) /\ saved.nonceHigh = lim + w + NonceBatch
          /\ saved.nonceLim = lim + w + NonceBatch /\ saved.nextLSN = at
      BY <3>4, <3>5, <3>6, Zenon DEF Logs, SameFields
    <3>8. /\ el \in Logs /\ SameFields(log, el) /\ el.nextLSN = nextLSN(n) /\ el.nonceCur = cur + n
          /\ el.nonceLim = lim + w + NonceBatch /\ el.nonceHigh = lim + w + NonceBatch
      BY <1>8, <3>2, <3>7, Zenon DEF Logs, SameFields
    <3>9. /\ ec \in Controls /\ ec.nonceHigh = lim + w + NonceBatch /\ ec.nextLSN = at
          /\ ec.durableLSN = log.durableLSN /\ ec.redoLSN = log.redoLSN
      BY <3>2, <3>7 DEF controlOf, Controls, Logs, SameFields
    <3>10. Saves(log, el, control, ec)
      BY <1>1, <3>4, <3>8, <3>9 DEF Saves, SameFields, NextLSN, DurableLSN, RedoLSN
    <3> QED
      BY <3>1, <3>8, <3>9, <3>10
  <2> QED
    BY <2>1, <2>2, Zenon
<1>10. el.nextLSN = IF advance THEN log.nextLSN + n ELSE log.nextLSN
  BY <1>1, <1>9
<1> HIDE DEF el, ec, nextLSN
<1>11. Nonces(el, ec, spent \o en)
  BY <1>7, <1>9, SMTT(30) DEF Nonces
<1>12. SameButNumbers(log, el)
  BY <1>9, NumbersChanged
<1>13. NextLSN(el) = IF advance THEN NextLSN(log) + n ELSE NextLSN(log)
  BY <1>10 DEF NextLSN
<1> QED
  BY <1>3, <1>5, <1>7, <1>9, <1>11, <1>12, <1>13, Zenon

\* The buffer after records of kind k have been put at its end.
LEMMA BufferedFacts ==
    ASSUME NEW l \in Logs, NEW k \in {"append", "images", "held"}, NEW recs \in Seq(Records), recs # <<>>
    PROVE  IsBuffered(l, buffered(l, k, recs), k, recs)
<1>1. PICK lsn \in Nat \ {0} : lsn = Last(recs).lsn
  <2>1. Last(recs) \in Records
    BY DEF Last
  <2> QED
    BY <2>1 DEF Records
<1>2. PICK b \in Seq(Records) : b = l.buf \o recs
  <2>1. l.buf \in Seq(Records)
    BY DEF Logs
  <2> QED
    BY <2>1, ConcatFacts, Zenon
<1>3. Len(l.buf) \in Nat /\ Len(recs) \in Nat
  BY SMTT(30) DEF Logs
<1> DEFINE all == [l EXCEPT !.buf = b, !.bufLast = lsn]
           hold == [off |-> Len(l.buf), len |-> Len(recs), lsn |-> lsn, prevLast |-> l.bufLast]
<1>4. buffered(l, k, recs) = CASE k = "append" -> [all EXCEPT !.nextLSN = lsn + 1]
                               [] k = "held" -> [all EXCEPT !.hold = hold]
                               [] OTHER -> all
  BY <1>1, <1>2, Zenon DEF buffered
<1>5. CASE k = "append"
  <2>1. PICK next \in Nat \ {0} : next = lsn + 1
    OBVIOUS
  <2>2. PICK m : m = [all EXCEPT !.nextLSN = next]
    OBVIOUS
  <2>3. buffered(l, k, recs) = m
    BY <1>4, <1>5, <2>1, <2>2
  <2>4. IsBuffered(l, m, k, recs)
    BY <1>1, <1>2, <1>5, <2>1, <2>2, ZenonT(40)
       DEF Logs, IsBuffered, NextLSN, DurableLSN, RedoLSN, Buf, BufLast, SegID, SegOff, HoldOff, HoldLen, HoldLSN, HoldPrev, Latched, Lsn
  <2> QED
    BY <2>3, <2>4
<1>6. CASE k = "held"
  <2>1. PICK m : m = [all EXCEPT !.hold = hold]
    OBVIOUS
  <2>2. buffered(l, k, recs) = m
    BY <1>4, <1>6, <2>1
  <2>3. hold \in Holds
    BY <1>3 DEF Holds, Logs
  <2>4. IsBuffered(l, m, k, recs)
    BY <1>1, <1>2, <1>6, <2>1, <2>3, ZenonT(40)
       DEF Logs, IsBuffered, NextLSN, DurableLSN, RedoLSN, Buf, BufLast, SegID, SegOff, HoldOff, HoldLen, HoldLSN, HoldPrev, Latched, Lsn
  <2> QED
    BY <2>2, <2>4
<1>7. CASE k = "images"
  <2>1. PICK m : m = all
    OBVIOUS
  <2>2. buffered(l, k, recs) = m
    BY <1>4, <1>7, <2>1
  <2>3. IsBuffered(l, m, k, recs)
    BY <1>1, <1>2, <1>7, <2>1, Zenon
       DEF Logs, IsBuffered, NextLSN, DurableLSN, RedoLSN, Buf, BufLast, SegID, SegOff, HoldOff, HoldLen, HoldLSN, HoldPrev, Latched, Lsn
  <2> QED
    BY <2>2, <2>3
<1> QED
  BY <1>5, <1>6, <1>7

\* Buffering uses no nonce.
LEMMA BufferedNonces ==
    ASSUME NEW l \in Logs, NEW k \in {"append", "images", "held"}, NEW recs
    PROVE  /\ buffered(l, k, recs).nonceCur = l.nonceCur /\ buffered(l, k, recs).nonceLim = l.nonceLim
           /\ buffered(l, k, recs).nonceHigh = l.nonceHigh
<1> DEFINE lsn == Last(recs).lsn
           all == [l EXCEPT !.buf = l.buf \o recs, !.bufLast = lsn]
           hold == [off |-> Len(l.buf), len |-> Len(recs), lsn |-> lsn, prevLast |-> l.bufLast]
<1>1. buffered(l, k, recs) = CASE k = "append" -> [all EXCEPT !.nextLSN = lsn + 1]
                               [] k = "held" -> [all EXCEPT !.hold = hold]
                               [] OTHER -> all
  BY Zenon DEF buffered
<1> HIDE DEF lsn, hold
<1>2. buffered(l, k, recs) \in {[all EXCEPT !.nextLSN = lsn + 1], [all EXCEPT !.hold = hold], all}
  BY <1>1
<1> QED
  BY <1>2, Zenon DEF Logs

-----------------------------------------------------------------------------
(* Appending *)

\* Records with new ids and the next LSNs.
LEMMA NewRecordsFacts ==
    ASSUME NEW n \in Nat \ {0}, log \in Logs, spent \in Seq(Nat)
    PROVE  newRecords(log.nextLSN, n) \in Seq(Records) /\ Fresh(newRecords(log.nextLSN, n), n, Len(spent), NextLSN(log))
<1>1. PICK used \in Nat, next \in Nat \ {0} : used = Len(spent) /\ next = log.nextLSN
  BY DEF Logs
<1> DEFINE rec(i) == [id |-> used + i, lsn |-> next + i - 1]
<1>2. \A i \in 1..n : rec(i) \in Records /\ Id(rec(i)) = used + i /\ Lsn(rec(i)) = next + i - 1
  BY DEF Records, Id, Lsn
<1>3. PICK new : new = [i \in 1..n |-> rec(i)]
  BY Zenon
<1>4. newRecords(log.nextLSN, n) = new
  BY <1>1, <1>3, Zenon DEF newRecords
<1> HIDE DEF rec
<1>5. new \in Seq(Records) /\ Len(new) = n /\ \A i \in 1..n : new[i] = rec(i)
  BY <1>2, <1>3
<1>6. \A i \in 1..n : Id(new[i]) = used + i /\ Lsn(new[i]) = next + i - 1
  BY <1>2, <1>5, Zenon
<1> QED
  BY <1>1, <1>4, <1>5, <1>6, Zenon DEF Fresh, NextLSN

\* The races left out, no other thread has records to buffer.
LEMMA NobodyElse ==
    ASSUME NEW p \in Proc, MayAppend(p), NoRace, proc \in [Proc -> Threads]
    PROVE  \A q \in Proc \ {p} : Pending(proc[q]) = <<>>
BY DEF MayAppend, NoRace, Pending, Pc

\* The thread p takes new records, which it has still to buffer.
LEMMA SoundTaken ==
    ASSUME Inv, NEW p \in Proc, NEW y \in Threads, NEW el, NEW ec \in Controls, NEW new \in Seq(Records), NEW k \in Nat,
           SameButNumbers(log, el), Saves(log, el, control, ec), Takes(proc[p], y, new),
           Fresh(new, k, Len(spent), NextLSN(log)),
           Kind(y) = "held" => \A q \in Proc : Kind(proc[q]) # "held",
           NextLSN(el) = IF Kind(y) = "append" THEN NextLSN(log) ELSE NextLSN(log) + k,
           NoRace => \A q \in Proc \ {p} : Pending(proc[q]) = <<>>
    PROVE  Sound(el, segs, ec, io, [proc EXCEPT ![p] = y], Len(spent) + k, discarded, acked, NoRace)
<1>1. PICK n \in Nat : n = Len(spent)
  BY DEF Inv
<1> PICK qs : qs = [proc EXCEPT ![p] = y]
  BY Zenon
<1>2. /\ Shape(log, segs, control, io, proc) /\ Placed(log, segs, io, proc, n, discarded)
      /\ NoRace => Order(log, segs, control, io, proc, acked)
      /\ discarded \in SUBSET Records /\ Fresh(new, k, n, NextLSN(log)) /\ qs = [proc EXCEPT ![p] = y]
  BY <1>1 DEF Inv, Sound
<1>3. /\ Shape(el, segs, ec, io, qs)
      /\ Placed(log, segs, io, proc, n, discarded) => Placed(el, segs, io, qs, n + k, discarded)
      /\ \A a : Order(log, segs, control, io, proc, a) /\ Saves(log, el, control, ec)
                /\ (\A q \in Proc : Pending(proc[q]) = <<>>) => Order(el, segs, ec, io, qs, a)
  BY <1>2, Taken, ZenonT(30)
<1>4. NoRace => \A q \in Proc : Pending(proc[q]) = <<>>
  <2>1. Pending(proc[p]) = <<>>
    <3>1. WellFormed(proc[p]) /\ proc[p] \in Threads
      BY <1>2 DEF Shape, Typed
    <3> QED
      BY <3>1, TakesFacts, Zenon
  <2> QED
    BY <2>1
<1>5. Sound(el, segs, ec, io, qs, n + k, discarded, acked, NoRace)
  BY <1>2, <1>3, <1>4, Zenon DEF Sound
<1> QED
  BY <1>1, <1>5

\* It buffers them at once.
LEMMA SoundBuffered ==
    ASSUME NEW l \in Logs, NEW g, NEW c, NEW f, NEW ps \in [Proc -> Threads], NEW n, NEW gone, NEW a, NEW calm,
           NEW p \in Proc, NEW x \in Threads, NEW y \in Threads,
           Sound(l, g, c, f, [ps EXCEPT ![p] = x], n, gone, a, calm), Buffers(x, y), By(f) # p,
           Kind(x) \in {"append", "images", "held"}, Pending(x) \in Seq(Records), Kind(x) = "held" => HoldLen(l) = 0
    PROVE  Sound(buffered(l, Kind(x), Pending(x)), g, c, f, [ps EXCEPT ![p] = y], n, gone, a, calm)
<1>1. PICK qs, rs, m : qs = [ps EXCEPT ![p] = x] /\ rs = [ps EXCEPT ![p] = y] /\ m = buffered(l, Kind(x), Pending(x))
  BY Zenon
<1>2. qs[p] = x /\ rs = [qs EXCEPT ![p] = y]
  BY <1>1, Zenon
<1>3. IsBuffered(l, m, Kind(qs[p]), Pending(qs[p])) /\ Buffers(qs[p], y)
  BY <1>1, <1>2, BufferedFacts DEF Buffers
<1>4. (Kind(y) = "held" => HoldLen(l) = 0) /\ Sound(l, g, c, f, qs, n, gone, a, calm)
  BY <1>1 DEF Buffers
<1>5. Shape(l, g, c, f, qs) /\ rs = [qs EXCEPT ![p] = y]
  BY <1>2, <1>4 DEF Sound
<1>6. /\ Shape(m, g, c, f, rs)
      /\ \A k, b : Placed(l, g, f, qs, k, b) => Placed(m, g, f, rs, k, b)
      /\ \A b : Order(l, g, c, f, qs, b) => Order(m, g, c, f, rs, b)
  BY <1>3, <1>4, <1>5, Buffered, ZenonT(30)
<1>7. Sound(m, g, c, f, rs, n, gone, a, calm)
  BY <1>4, <1>6, Zenon DEF Sound
<1> QED
  BY <1>1, <1>7, Zenon

\* A record that a thread appends: it is buffered, waits for a rotation, or is
\* refused because another is held.
LEMMA Places ==
    ASSUME Inv, NEW p \in Proc, NEW kind \in {"append", "held"}, NEW advance \in BOOLEAN, advance <=> kind = "held",
           Pc(proc[p]) \in {"idle", "images"}, MayAppend(p),
           kind = "held" => Pc(proc[p]) = "idle" /\ HoldLen(log) = 0 /\ \A q \in Proc : Kind(proc[q]) # "held",
           NEW pc, pc = (IF kind = "append" THEN "appended" ELSE "held"),
           place(p, encode(log, 1, advance), kind, newRecords(log.nextLSN, 1), pc),
           budget' \in Workload, NoRace' = NoRace
    PROVE  Inv'
<1>1. /\ log \in Logs /\ control \in Controls /\ spent \in Seq(Nat) /\ Nonces(log, control, spent)
      /\ proc \in [Proc -> Threads] /\ proc[p] \in Threads /\ WellFormed(proc[p]) /\ Len(spent) \in Nat
      /\ NextLSN(log) \in Nat
  BY LogTypes, SMTT(30) DEF Inv, Sound, Shape, Typed
<1>2. PICK el \in Logs, ec \in Controls, en \in Seq(Nat) :
             /\ encode(log, 1, advance) = [log |-> el, control |-> ec, nonces |-> en]
             /\ SameButNumbers(log, el) /\ Saves(log, el, control, ec)
             /\ NextLSN(el) = IF advance THEN NextLSN(log) + 1 ELSE NextLSN(log)
             /\ spent \o en \in Seq(Nat) /\ Len(spent \o en) = Len(spent) + 1
             /\ Nonces(el, ec, spent \o en)
  <2>1. 1 \in Nat \ {0}
    OBVIOUS
  <2> QED
    BY <1>1, <2>1, EncodeFacts, Zenon
<1>3. PICK new \in Seq(Records) : new = newRecords(log.nextLSN, 1) /\ Fresh(new, 1, Len(spent), NextLSN(log))
  BY <1>1, NewRecordsFacts
<1>4. Len(new) = 1 /\ new # <<>> /\ Recs(proc[p]) \in Seq(Records) /\ Recs(proc[p]) \o new \in Seq(Records)
  <2>1. Len(new) = 1 /\ Recs(proc[p]) \in Seq(Records)
    BY <1>1, <1>3, ThreadTypes DEF Fresh
  <2>2. new # <<>>
    BY <2>1, SMTT(30)
  <2>3. Recs(proc[p]) \o new \in Seq(Records)
    BY <2>1, ConcatFacts, Zenon
  <2> QED
    BY <2>1, <2>2, <2>3
<1>5. PICK x, y : /\ x = [pc |-> "rotate", kind |-> kind, recs |-> Recs(proc[p]) \o new]
                  /\ y = [pc |-> pc, kind |-> kind, recs |-> Recs(proc[p]) \o new]
  BY Zenon
<1>6. /\ x \in Threads /\ Pc(x) = "rotate" /\ Kind(x) = kind /\ Recs(x) = Recs(proc[p]) \o new
      /\ y \in Threads /\ Pc(y) = pc /\ Kind(y) = kind /\ Recs(y) = Recs(proc[p]) \o new
  BY <1>4, <1>5 DEF Threads, Pc, Kind, Recs
<1>7. Takes(proc[p], x, new)
  BY <1>4, <1>6 DEF Takes
<1>8. Pending(x) = new /\ Pending(x) \in Seq(Records) /\ Buffers(x, y)
  <2>1. Pending(x) = new
    BY <1>1, <1>6, <1>7, TakesFacts, SMTT(30)
  <2> QED
    BY <1>4, <1>6, <2>1 DEF Buffers
<1>9. Sound(el, segs, ec, io, [proc EXCEPT ![p] = x], Len(spent) + 1, discarded, acked, NoRace)
  <2>1. NoRace => \A q \in Proc \ {p} : Pending(proc[q]) = <<>>
    BY <1>1, NobodyElse, Zenon
  <2>2. NextLSN(el) = IF Kind(x) = "append" THEN NextLSN(log) ELSE NextLSN(log) + 1
    BY <1>2, <1>6
  <2>3. Kind(x) = "held" => \A q \in Proc : Kind(proc[q]) # "held"
    BY <1>6
  <2> QED
    BY <1>2, <1>3, <1>6, <1>7, <2>1, <2>2, <2>3, SoundTaken, ZenonT(40)
<1>10. /\ control' = ec /\ spent' = spent \o en /\ UNCHANGED <<segs, io, acked, discarded>>
       /\ \/ log' = buffered(el, kind, new) /\ proc' = [proc EXCEPT ![p] = y]
          \/ log' = el /\ proc' = [proc EXCEPT ![p] = x]
          \/ log' = el /\ proc' = [proc EXCEPT ![p] = Idle]
  <2>1. control' = encode(log, 1, advance).control /\ spent' = spent \o encode(log, 1, advance).nonces /\ UNCHANGED <<segs, io, acked, discarded>>
    BY DEF place
  <2>2. \/ log' = buffered(encode(log, 1, advance).log, kind, new) /\ proc' = [proc EXCEPT ![p] = y]
        \/ log' = encode(log, 1, advance).log /\ proc' = [proc EXCEPT ![p] = x]
        \/ log' = encode(log, 1, advance).log /\ proc' = [proc EXCEPT ![p] = Idle]
    BY <1>3, <1>5, Zenon DEF place, Recs
  <2>3. encode(log, 1, advance).control = ec /\ encode(log, 1, advance).nonces = en /\ encode(log, 1, advance).log = el
    BY <1>2
  <2> QED
    BY <2>1, <2>2, <2>3, ZenonT(40)
<1>11. By(io) # p
  BY Writer
<1>12. /\ Sound(log', segs, ec, io, proc', Len(spent) + 1, discarded, acked, NoRace)
       /\ Nonces(log', ec, spent \o en)
  <2>1. CASE log' = buffered(el, kind, new) /\ proc' = [proc EXCEPT ![p] = y]
    <3>1. Kind(x) = "held" => HoldLen(el) = 0
      BY <1>2, <1>6 DEF SameButNumbers
    <3>2. Kind(x) \in {"append", "images", "held"}
      BY <1>6
    <3>3. Sound(buffered(el, Kind(x), Pending(x)), segs, ec, io, [proc EXCEPT ![p] = y], Len(spent) + 1, discarded, acked, NoRace)
      BY <1>1, <1>6, <1>8, <1>9, <1>11, <3>1, <3>2, SoundBuffered, ZenonT(40)
    <3>4. Nonces(log', ec, spent \o en)
      BY <1>2, <2>1, BufferedNonces, NoncesKept, SMTT(30)
    <3> QED
      BY <1>6, <1>8, <2>1, <3>3, <3>4, ZenonT(40)
  <2>2. CASE log' = el /\ proc' = [proc EXCEPT ![p] = x]
    BY <1>2, <1>9, <2>2, Zenon
  <2>3. CASE log' = el /\ proc' = [proc EXCEPT ![p] = Idle]
    <3>1. PICK ps : ps = [proc EXCEPT ![p] = x]
      BY Zenon
    <3>2. ps \in [Proc -> Threads] /\ proc' \in [Proc -> Threads] /\ \A q \in Proc : Follows(ps[q], proc'[q])
      BY <1>1, <1>6, <2>3, <3>1, IdleFacts DEF Follows
    <3>3. By(io) # NoProc => proc'[By(io)] = ps[By(io)]
      BY <1>1, <1>11, <2>3, <3>1, WriteTypes DEF Inv, Sound, Shape, Typed
    <3>4. Sound(el, segs, ec, io, ps, Len(spent) + 1, discarded, acked, NoRace)
      BY <1>9, <3>1
    <3>5. Sound(el, segs, ec, io, proc', Len(spent) + 1, discarded, acked, NoRace)
      BY <3>2, <3>3, <3>4, SoundFollows, ZenonT(40)
    <3> QED
      BY <1>2, <2>3, <3>5, Zenon
  <2> QED
    BY <1>10, <2>1, <2>2, <2>3
<1>13. Len(spent') = Len(spent) + 1 /\ spent' \in Seq(Nat)
  BY <1>2, <1>10
<1>14. /\ Sound(log', segs', control', io', proc', Len(spent'), discarded', acked', NoRace')
       /\ Nonces(log', control', spent')
  BY <1>10, <1>12, <1>13, Zenon
<1> QED
  BY <1>10, <1>13, <1>14 DEF Inv

\* Append: one record, which gets the next LSN and a nonce.
LEMMA AppendRecordInv == ASSUME Inv, NEW p \in Proc, AppendRecord(p) PROVE Inv'
<1>1. /\ Pc(proc[p]) \in {"idle", "images"} /\ MayAppend(p)
      /\ place(p, encode(log, 1, FALSE), "append", newRecords(log.nextLSN, 1), "appended")
  BY ZenonT(40) DEF AppendRecord, Pc
<1>2. budget' \in Workload /\ NoRace' = NoRace
  BY Spending DEF Inv, AppendRecord, NoRace
<1> QED
  BY <1>1, <1>2, Places, Zenon

\* AppendHeldBatch: one record, which no flush may write until it is released.
LEMMA AppendHeldBatchInv == ASSUME Inv, NEW p \in Proc, AppendHeldBatch(p) PROVE Inv'
<1>1. /\ Pc(proc[p]) = "idle" /\ MayAppend(p) /\ \A q \in Proc : Kind(proc[q]) # "held"
      /\ place(p, encode(log, 1, TRUE), "held", newRecords(log.nextLSN, 1), "held")
  BY Zenon DEF AppendHeldBatch, Pc, Kind
<1>2. HoldLen(log) = 0
  <2>1. HoldLen(log) \in Nat /\ ~(HoldLen(log) > 0)
    BY LogTypes, SMTT(30) DEF Inv, Sound, Shape, Typed, AppendHeldBatch, held, HoldLen
  <2> QED
    BY <2>1
<1>3. budget' \in Workload /\ NoRace' = NoRace
  BY Spending DEF Inv, AppendHeldBatch
<1> QED
  BY <1>1, <1>2, <1>3, Places, Zenon

\* AppendImages reserves the LSNs and the nonces of a batch of page images.
LEMMA ReserveImagesInv == ASSUME Inv, NEW p \in Proc, ReserveImages(p) PROVE Inv'
<1>1. /\ log \in Logs /\ control \in Controls /\ spent \in Seq(Nat) /\ Nonces(log, control, spent)
      /\ proc \in [Proc -> Threads] /\ proc[p] \in Threads /\ WellFormed(proc[p]) /\ Len(spent) \in Nat
      /\ NextLSN(log) \in Nat /\ Pc(proc[p]) = "idle" /\ MayAppend(p)
  BY LogTypes, SMTT(30) DEF Inv, Sound, Shape, Typed, ReserveImages, Pc
<1>2. PICK k \in Nat \ {0} : k = ImageBatch
  BY WalAssumption
<1>3. PICK el \in Logs, ec \in Controls, en \in Seq(Nat) :
             /\ encode(log, k, TRUE) = [log |-> el, control |-> ec, nonces |-> en]
             /\ SameButNumbers(log, el) /\ Saves(log, el, control, ec)
             /\ NextLSN(el) = IF TRUE THEN NextLSN(log) + k ELSE NextLSN(log)
             /\ spent \o en \in Seq(Nat) /\ Len(spent \o en) = Len(spent) + k
             /\ Nonces(el, ec, spent \o en)
  BY <1>1, EncodeFacts, Zenon
<1>4. PICK new \in Seq(Records) : new = newRecords(log.nextLSN, k) /\ Fresh(new, k, Len(spent), NextLSN(log))
  BY <1>1, NewRecordsFacts
<1>5. new # <<>> /\ Recs(proc[p]) = <<>> /\ <<>> \o new = new
  BY <1>1, <1>4, Whole DEF Fresh, WellFormed
<1>6. PICK x : x = [pc |-> "encrypt", kind |-> "images", recs |-> new]
  BY Zenon
<1>7. x \in Threads /\ Pc(x) = "encrypt" /\ Kind(x) = "images" /\ Recs(x) = new
  BY <1>6 DEF Threads, Pc, Kind, Recs
<1>8. Takes(proc[p], x, new)
  BY <1>1, <1>5, <1>7 DEF Takes
<1>9. Sound(el, segs, ec, io, [proc EXCEPT ![p] = x], Len(spent) + k, discarded, acked, NoRace)
  <2>1. NoRace => \A q \in Proc \ {p} : Pending(proc[q]) = <<>>
    BY <1>1, NobodyElse
  <2>2. NextLSN(el) = IF Kind(x) = "append" THEN NextLSN(log) ELSE NextLSN(log) + k
    BY <1>3, <1>7
  <2>3. Kind(x) = "held" => \A q \in Proc : Kind(proc[q]) # "held"
    BY <1>7
  <2> QED
    BY <1>3, <1>4, <1>7, <1>8, <2>1, <2>2, <2>3, SoundTaken
<1>10. /\ control' = ec /\ spent' = spent \o en /\ log' = el /\ proc' = [proc EXCEPT ![p] = x]
       /\ UNCHANGED <<segs, io, acked, discarded>>
  <2>1. encode(log, k, TRUE).control = ec /\ encode(log, k, TRUE).nonces = en /\ encode(log, k, TRUE).log = el
    <3>1. \A e : e = [log |-> el, control |-> ec, nonces |-> en] => e.control = ec /\ e.nonces = en /\ e.log = el
      OBVIOUS
    <3> QED
      BY <1>3, <3>1, Zenon
  <2>2. /\ log' = encode(log, k, TRUE).log /\ control' = encode(log, k, TRUE).control
        /\ spent' = spent \o encode(log, k, TRUE).nonces /\ proc' = [proc EXCEPT ![p] = x]
        /\ UNCHANGED <<segs, io, acked, discarded>>
    BY <1>2, <1>4, <1>6, ZenonT(40) DEF ReserveImages
  <2> QED
    BY <2>1, <2>2, Zenon
<1>11. budget' \in Workload /\ NoRace' = NoRace
  BY Spending DEF Inv, ReserveImages
<1>12. Len(spent') = Len(spent) + k /\ spent' \in Seq(Nat)
  BY <1>3, <1>10
<1>13. /\ Sound(log', segs', control', io', proc', Len(spent'), discarded', acked', NoRace')
       /\ Nonces(log', control', spent')
  BY <1>3, <1>9, <1>10, <1>11, <1>12, Zenon
<1> QED
  BY <1>10, <1>11, <1>12, <1>13, SMTT(30) DEF Inv

\* AppendImages has encrypted the batch and buffers it.
LEMMA AppendImagesInv == ASSUME Inv, NEW p \in Proc, AppendImages(p) PROVE Inv'
<1>1. /\ log \in Logs /\ proc \in [Proc -> Threads] /\ proc[p] \in Threads /\ WellFormed(proc[p]) /\ Pc(proc[p]) = "encrypt"
      /\ Nonces(log, control, spent) /\ Sound(log, segs, control, io, proc, Len(spent), discarded, acked, NoRace)
  BY DEF Inv, Sound, Shape, Typed, AppendImages, Pc
<1>2. Kind(proc[p]) = "images" /\ Recs(proc[p]) # <<>> /\ Recs(proc[p]) \in Seq(Records)
  BY <1>1, ThreadTypes DEF WellFormed
<1>3. Pending(proc[p]) = Recs(proc[p]) /\ By(io) # p
  BY <1>1, <1>2, Writer DEF Pending
<1>4. CASE log' = buffered(log, "images", proc[p].recs) /\ proc' = [proc EXCEPT ![p].pc = "images"]
  <2>1. PICK y : y = [proc[p] EXCEPT !.pc = "images"]
    BY Zenon
  <2>2. y \in Threads /\ Pc(y) = "images" /\ Kind(y) = Kind(proc[p]) /\ Recs(y) = Recs(proc[p])
    BY <1>1, <2>1, Moved, Zenon
  <2>3. Buffers(proc[p], y)
    BY <1>2, <1>3, <2>2 DEF Buffers
  <2>4. [proc EXCEPT ![p] = proc[p]] = proc
    BY <1>1
  <2>5. log' = buffered(log, Kind(proc[p]), Pending(proc[p])) /\ proc' = [proc EXCEPT ![p] = y]
    BY <1>2, <1>3, <1>4, <2>1 DEF Recs
  <2>6. Sound(log', segs, control, io, proc', Len(spent), discarded, acked, NoRace)
    <3>1. Sound(log, segs, control, io, [proc EXCEPT ![p] = proc[p]], Len(spent), discarded, acked, NoRace)
      BY <1>1, <2>4, Zenon
    <3>2. /\ Kind(proc[p]) \in {"append", "images", "held"} /\ Pending(proc[p]) \in Seq(Records)
          /\ Kind(proc[p]) = "held" => HoldLen(log) = 0
      BY <1>2, <1>3
    <3>3. Sound(buffered(log, Kind(proc[p]), Pending(proc[p])), segs, control, io, [proc EXCEPT ![p] = y],
                Len(spent), discarded, acked, NoRace)
      BY <1>1, <1>3, <2>2, <2>3, <3>1, <3>2, SoundBuffered, ZenonT(40)
    <3> QED
      BY <2>5, <3>3, Zenon
  <2>7. Nonces(log', control, spent)
    BY <1>1, <1>4, BufferedNonces, NoncesKept
  <2> QED
    BY <2>6, <2>7 DEF Inv, NoRace, AppendImages, disk, ghosts
<1>5. CASE log' = log /\ proc' = [proc EXCEPT ![p].pc = "rotate"]
  <2>1. PICK y : y = [proc[p] EXCEPT !.pc = "rotate"]
    BY Zenon
  <2>2. y \in Threads /\ Pc(y) = "rotate" /\ Kind(y) = Kind(proc[p]) /\ Recs(y) = Recs(proc[p])
    BY <1>1, <2>1, Moved, Zenon
  <2>3. Follows(proc[p], y)
    BY <1>1, <2>2 DEF Follows
  <2>4. proc' = [proc EXCEPT ![p] = y]
    BY <1>5, <2>1
  <2> QED
    BY <1>3, <1>5, <2>2, <2>3, <2>4, ThreadMoves, Zenon DEF AppendImages, disk, ghosts
<1>6. CASE log' = log /\ proc' = [proc EXCEPT ![p] = Idle]
  <2>1. Follows(proc[p], Idle)
    BY <1>1 DEF Follows
  <2> QED
    BY <1>3, <1>6, <2>1, IdleFacts, ThreadMoves, ZenonT(40) DEF AppendImages, disk, ghosts
<1> QED
  BY <1>4, <1>5, <1>6 DEF AppendImages

\* The log after ReleaseHold.
LEMMA ReleasedFacts ==
    ASSUME NEW l \in Logs, NEW m, m = [l EXCEPT !.hold = NoHold]
    PROVE  /\ IsReleased(l, m, Buf(l), BufLast(l))
           /\ m.nonceCur = l.nonceCur /\ m.nonceLim = l.nonceLim /\ m.nonceHigh = l.nonceHigh
<1>1. NoHold \in Holds /\ NoHold.off = 0 /\ NoHold.len = 0
  BY DEF NoHold, Holds
<1>2. /\ m \in Logs /\ m.segOff = l.segOff /\ m.buf = l.buf /\ m.hold = NoHold /\ m.durabilityErr = l.durabilityErr
      /\ m.durableLSN = l.durableLSN
      /\ m.nextLSN = l.nextLSN /\ m.redoLSN = l.redoLSN /\ m.bufLast = l.bufLast /\ m.segID = l.segID
      /\ m.nonceCur = l.nonceCur /\ m.nonceLim = l.nonceLim /\ m.nonceHigh = l.nonceHigh
  BY <1>1, Zenon DEF Logs
<1> QED
  BY <1>1, <1>2, Zenon
     DEF IsReleased, NextLSN, DurableLSN, RedoLSN, Buf, BufLast, SegID, SegOff, HoldOff, HoldLen, Latched

\* The cut buffer is one of records.
LEMMA CutTypes ==
    ASSUME NEW s \in Seq(Records), NEW o \in Nat, NEW n \in Nat, o + n <= Len(s)
    PROVE  SubSeq(s, 1, o) \o SubSeq(s, o + n + 1, Len(s)) \in Seq(Records)
<1>1. SubSeq(s, 1, o) \in Seq(Records)
  BY Split
<1>2. SubSeq(s, o + n + 1, Len(s)) \in Seq(Records)
  <2>1. PICK k \in Nat : k = o + n /\ k <= Len(s)
    OBVIOUS
  <2>2. SubSeq(s, k + 1, Len(s)) \in Seq(Records)
    BY <2>1, Split
  <2> QED
    BY <2>1, <2>2
<1> QED
  BY <1>1, <1>2, ConcatFacts, Zenon

\* The log after ReleaseHold(false) has cut the held record out.
LEMMA CutFacts ==
    ASSUME NEW l \in Logs, HoldOff(l) + HoldLen(l) <= Len(Buf(l)), NEW m, m = [cutHeld(l) EXCEPT !.hold = NoHold]
    PROVE  /\ IsCut(l, m) /\ m.nonceCur = l.nonceCur /\ m.nonceLim = l.nonceLim /\ m.nonceHigh = l.nonceHigh
<1>1. PICK b \in Seq(Records) : b = SubSeq(Buf(l), 1, HoldOff(l)) \o SubSeq(Buf(l), HoldOff(l) + HoldLen(l) + 1, Len(Buf(l)))
  BY LogTypes, CutTypes, Zenon
<1>2. PICK last \in Nat : last = IF BufLast(l) = HoldLSN(l) THEN HoldPrev(l) ELSE BufLast(l)
  BY LogTypes, SMTT(30)
<1>3. PICK x : x = [l EXCEPT !.buf = b, !.bufLast = last]
  OBVIOUS
<1>4. cutHeld(l) = x
  BY <1>1, <1>2, <1>3, Zenon DEF cutHeld, Buf, HoldOff, HoldLen, HoldLSN, HoldPrev, BufLast
<1>5. /\ x \in Logs /\ x.segOff = l.segOff /\ x.buf = b /\ x.hold = l.hold /\ x.durabilityErr = l.durabilityErr
      /\ x.durableLSN = l.durableLSN
      /\ x.nextLSN = l.nextLSN /\ x.redoLSN = l.redoLSN /\ x.bufLast = last /\ x.segID = l.segID
      /\ x.nonceCur = l.nonceCur /\ x.nonceLim = l.nonceLim /\ x.nonceHigh = l.nonceHigh
  BY <1>3, Zenon DEF Logs
<1>6. m = [x EXCEPT !.hold = NoHold]
  BY <1>4
<1>7. /\ IsReleased(x, m, Buf(x), BufLast(x))
      /\ m.nonceCur = x.nonceCur /\ m.nonceLim = x.nonceLim /\ m.nonceHigh = x.nonceHigh
  BY <1>5, <1>6, ReleasedFacts, Zenon
<1>8. IsReleased(l, m, b, last)
  BY <1>5, <1>7, Zenon
     DEF IsReleased, NextLSN, DurableLSN, RedoLSN, Buf, BufLast, SegID, SegOff, Latched
<1> QED
  BY <1>1, <1>2, <1>5, <1>7, <1>8, ZenonT(40) DEF IsCut

\* ReleaseHold: the held record is released to the next flush, or discarded.
LEMMA ReleaseHoldInv == ASSUME Inv, NEW p \in Proc, NEW commit \in BOOLEAN, ReleaseHold(p, commit) PROVE Inv'
<1>1. /\ log \in Logs /\ proc \in [Proc -> Threads] /\ proc[p] \in Threads /\ Pc(proc[p]) = "held"
      /\ Shape(log, segs, control, io, proc) /\ Nonces(log, control, spent) /\ Len(spent) \in Nat
      /\ Sound(log, segs, control, io, proc, Len(spent), discarded, acked, NoRace)
  BY DEF Inv, Sound, Shape, Typed, ReleaseHold, Pc
<1>2. CASE commit
  <2>1. log' = [log EXCEPT !.hold = NoHold]
    BY <1>2 DEF ReleaseHold
  <2>2. PICK y : y = [proc[p] EXCEPT !.pc = "flush"]
    BY Zenon
  <2>3. y \in Threads /\ Pc(y) = "flush" /\ Kind(y) = Kind(proc[p]) /\ Recs(y) = Recs(proc[p])
    BY <1>1, <2>2, Moved, Zenon
  <2>4. PICK qs : qs = [proc EXCEPT ![p] = y]
    BY Zenon
  <2>5. proc' = broadcast(qs) /\ discarded' = discarded
    BY <1>2, <2>2, <2>4 DEF ReleaseHold
  <2>6. IsReleased(log, log', Buf(log), BufLast(log)) /\ Nonces(log', control, spent)
    BY <1>1, <2>1, ReleasedFacts, NoncesKept
  <2>7. Sound(log', segs, control, io, qs, Len(spent), discarded, acked, NoRace)
    BY <1>1, <2>3, <2>4, <2>6, Released, ZenonT(40) DEF Sound
  <2>8. Sound(log', segs, control, io, proc', Len(spent), discarded', acked, NoRace)
    BY <2>5, <2>7, Woken, Zenon
  <2> QED
    BY <2>5, <2>6, <2>8 DEF Inv, NoRace, ReleaseHold, disk
<1>3. CASE ~commit
  <2>1. log' = [cutHeld(log) EXCEPT !.hold = NoHold]
    BY <1>3 DEF ReleaseHold
  <2>2. PICK qs : qs = [proc EXCEPT ![p] = Idle]
    BY Zenon
  <2>3. proc' = broadcast(qs) /\ discarded' = discarded \cup Range(Recs(proc[p]))
    BY <1>3, <2>2 DEF ReleaseHold, Recs
  <2>4. HoldOff(log) + HoldLen(log) <= Len(Buf(log))
    <3>1. HoldLen(log) = 1 /\ HoldOff(log) < Len(Buf(log)) /\ HoldOff(log) \in Nat /\ Len(Buf(log)) \in Nat
      BY <1>1, LogTypes, SMTT(30) DEF Shape, Held
    <3> QED
      BY <3>1
  <2>5. IsCut(log, log') /\ Nonces(log', control, spent)
    BY <1>1, <2>1, <2>4, CutFacts, NoncesKept
  <2>6. Sound(log', segs, control, io, qs, Len(spent), discarded', acked, NoRace)
    <3>1. Placed(log, segs, io, proc, Len(spent), discarded)
      BY <1>1 DEF Sound
    <3>2. /\ Shape(log', segs, control, io, qs)
          /\ Placed(log', segs, io, qs, Len(spent), discarded \cup Range(Recs(proc[p])))
          /\ \A a : Order(log, segs, control, io, proc, a) => Order(log', segs, control, io, qs, a)
      BY <1>1, <2>2, <2>5, <3>1, Cut, Zenon
    <3> QED
      BY <1>1, <2>3, <3>2, Zenon DEF Sound
  <2>7. Sound(log', segs, control, io, proc', Len(spent), discarded', acked, NoRace)
    BY <2>3, <2>6, Woken, Zenon
  <2>8. discarded' \subseteq Records
    <3>1. Recs(proc[p]) \in Seq(Records)
      BY <1>1, ThreadTypes
    <3>2. Range(Recs(proc[p])) \subseteq Records
      BY <3>1, RangeOf
    <3> QED
      BY <2>3, <3>2 DEF Inv
  <2> QED
    BY <2>5, <2>7, <2>8 DEF Inv, NoRace, ReleaseHold, disk
<1> QED
  BY <1>2, <1>3

=============================================================================
