--------------------------- MODULE SessionProofs ---------------------------
(* The admission of statements, for any number of sessions, any capacity of    *)
(* the gates, any queue bound and any number of ALTER RESOURCE GROUPs: slots   *)
(* are neither lost nor invented, every slot has a user, and no session waits  *)
(* for admission with a row lock in hand. And, for any queries and any cache,  *)
(* what a SELECT answers: every commit acknowledged before it was issued.      *)
EXTENDS Session, FiniteSetTheorems, TLAPS

GateRec == [cap : Nat, free : Nat, waiters : SUBSET Sessions, holders : SUBSET Sessions]

(* The types the argument needs: the gates, the group, where the sessions are  *)
(* and who owns a row.                                                         *)
Typed ==
    /\ gate \in [Gates -> GateRec]
    /\ group \in [bound : Nat, gate : Gates, built : Gates]
    /\ group.gate <= group.built
    /\ se \in [Sessions -> [pc : PCs, at : Gates, txn : BOOLEAN]]
    /\ owner \in [Keys -> Sessions \cup {None}]

TxnPCs == {"idle", "run", "wait", "flush", "complete"}
CommitPCs == {"append", "flush", "complete"}

(* What a session holds in each place of ExecContext: the strengthening that   *)
(* makes the safety properties inductive.                                      *)
Discipline(s) ==
    /\ se[s].txn => se[s].pc \in TxnPCs
    /\ \A k \in Keys : owner[k] = s => se[s].txn \/ se[s].pc \in CommitPCs
    /\ se[s].txn \/ se[s].pc \notin {"idle", "queued"} => s \in gate[Process].holders
    /\ se[s].pc = "idle" /\ ~se[s].txn => \A g \in Gates : s \notin gate[g].holders
    /\ se[s].pc = "queued" =>
          /\ \A g \in GroupGates \ {se[s].at} : s \notin gate[g].holders
          /\ se[s].at # Process => s \in gate[Process].holders
    /\ se[s].pc \in {"lookup", "ask"} => \A g \in GroupGates : s \notin gate[g].holders
    /\ se[s].pc = "ask" => se[s].at # Process
    /\ se[s].at <= group.built
    /\ \A g \in Gates : s \in gate[g].waiters =>
          se[s].pc = "queued" /\ se[s].at = g /\ s \notin gate[g].holders

(* A gate that has not been built is empty. *)
Unbuilt ==
    \A g \in GroupGates : g > group.built => gate[g].waiters = {} /\ gate[g].holders = {}

IInv == Typed /\ (\A s \in Sessions : Discipline(s)) /\ Unbuilt /\ SlotsConserved

(* A new holder counts one more. *)
LEMMA HolderAdded ==
    ASSUME NEW H \in SUBSET Sessions, NEW s \in Sessions, s \notin H
    PROVE  Cardinality(H \cup {s}) = Cardinality(H) + 1 /\ Cardinality(H) \in Nat
<1>1. IsFiniteSet(H)
  BY SessionsAssumption, FS_Subset
<1>2. Cardinality(H) \in Nat
  BY <1>1, FS_CardinalityType
<1>3. Cardinality(H \cup {s}) = Cardinality(H) + 1
  BY <1>1, FS_AddElement
<1> QED BY <1>2, <1>3

(* A holder that leaves counts one less. *)
LEMMA HolderRemoved ==
    ASSUME NEW H \in SUBSET Sessions, NEW s \in H
    PROVE  Cardinality(H \ {s}) = Cardinality(H) - 1 /\ Cardinality(H) \in Nat
<1>1. IsFiniteSet(H)
  BY SessionsAssumption, FS_Subset
<1>2. Cardinality(H) \in Nat
  BY <1>1, FS_CardinalityType
<1>3. Cardinality(H \ {s}) = Cardinality(H) - 1
  BY <1>1, FS_RemoveElement
<1> QED BY <1>2, <1>3

(* A slot that is handed over leaves the count as it is. *)
LEMMA HolderReplaced ==
    ASSUME NEW H \in SUBSET Sessions, NEW s \in H, NEW w \in Sessions, w \notin H
    PROVE  Cardinality((H \ {s}) \cup {w}) = Cardinality(H)
<1>1. Cardinality(H \ {s}) = Cardinality(H) - 1 /\ Cardinality(H) \in Nat
  BY HolderRemoved
<1>2. Cardinality((H \ {s}) \cup {w}) = Cardinality(H \ {s}) + 1
  BY HolderAdded
<1> QED BY <1>1, <1>2

(* The initial states satisfy the invariant: no session has begun anything. *)
LEMMA InitIInv == Init => IInv
<1> SUFFICES ASSUME Init PROVE IInv
  OBVIOUS
<1>1. budget.slots \in Nat /\ budget.bound \in Nat
  BY WorkloadsAssumption, BoundsAssumption, Zenon DEF Init
<1>2. Gates \subseteq Nat /\ 0 \in Gates /\ GroupGates \subseteq Gates /\ 0 \notin GroupGates
  BY BoundsAssumption DEF Gates, GroupGates
<1>7. \A g \in Gates :
        /\ gate[g].free = gate[g].cap /\ gate[g].cap \in Nat
        /\ gate[g].waiters = {} /\ gate[g].holders = {}
  BY <1>1 DEF Init, NewGate
<1>3. Typed
  BY <1>1, <1>2 DEF Init, Typed, GateRec, NewGate, Idle, PCs, Process
<1>4. \A s \in Sessions : Discipline(s)
  BY <1>1, <1>2, SessionsAssumption
  DEF Init, Discipline, NewGate, Idle, Process, TxnPCs, CommitPCs
<1>5. Unbuilt
  BY <1>1, <1>2 DEF Init, Unbuilt, NewGate
<1>6. SlotsConserved
  <2>1. Cardinality({}) = 0
    BY FS_EmptySet
  <2>2. \A g \in Gates : Cardinality(gate[g].holders) = 0
    BY <1>7, <2>1, Zenon
  <2>3. \A n \in Nat : n + 0 = n
    OBVIOUS
  <2> QED BY <1>7, <2>2, <2>3, Zenon DEF SlotsConserved
<1> QED BY <1>3, <1>4, <1>5, <1>6 DEF IInv


SessionRec == [pc : PCs, at : Gates, txn : BOOLEAN]

(* A step of one session that leaves the gates and the group alone preserves the *)
(* invariant when the session itself keeps to the discipline.                    *)
LEMMA LocalMove ==
    ASSUME IInv, NEW s \in Sessions, gate' = gate, group' = group,
           se' \in [Sessions -> SessionRec],
           \A t \in Sessions \ {s} : se'[t] = se[t],
           owner' \in [Keys -> Sessions \cup {None}],
           \A k \in Keys : owner'[k] \in {owner[k], None, s},
           Discipline(s)'
    PROVE  IInv'
<1>1. Typed'
  BY DEF IInv, Typed, SessionRec
<1>2. ASSUME NEW t \in Sessions, t # s PROVE Discipline(t)'
  <2>1. Discipline(t) /\ se'[t] = se[t]
    BY <1>2 DEF IInv
  <2>2. \A k \in Keys : owner'[k] = t => owner[k] = t
    BY <1>2, SessionsAssumption
  <2> QED BY <2>1, <2>2 DEF Discipline
<1>3. Unbuilt' /\ SlotsConserved'
  BY DEF IInv, Unbuilt, SlotsConserved
<1> QED BY <1>1, <1>2, <1>3 DEF IInv

(* What a step that only moves a session to another place leads to. *)
LEMMA PcMove ==
    ASSUME IInv, NEW s \in Sessions, NEW p \in PCs, NEW x \in BOOLEAN,
           se' = [se EXCEPT ![s].txn = x, ![s].pc = p]
    PROVE  /\ se' \in [Sessions -> SessionRec]
           /\ \A t \in Sessions \ {s} : se'[t] = se[t]
           /\ se'[s].pc = p /\ se'[s].txn = x /\ se'[s].at = se[s].at
  BY Zenon DEF IInv, Typed, SessionRec

(* A session that runs a statement goes on to another place of it. *)
LEMMA StatementMove ==
    ASSUME IInv, NEW s \in Sessions, NEW p \in PCs, NEW x \in BOOLEAN,
           gate' = gate, group' = group, owner' \in [Keys -> Sessions \cup {None}],
           \A k \in Keys : owner'[k] \in {owner[k], None, s},
           se' = [se EXCEPT ![s].txn = x, ![s].pc = p],
           s \in gate[Process].holders,
           se[s].pc # "queued", p \notin {"queued", "lookup", "ask"},
           x => p \in TxnPCs, p = "idle" => x,
           \A k \in Keys : owner'[k] = s => x \/ p \in CommitPCs
    PROVE  IInv'
<1>1. /\ se' \in [Sessions -> SessionRec]
      /\ \A t \in Sessions \ {s} : se'[t] = se[t]
      /\ se'[s].pc = p /\ se'[s].txn = x /\ se'[s].at = se[s].at
  BY PcMove, Zenon
<1>2. Discipline(s)'
  <2>1. Discipline(s)
    BY DEF IInv
  <2>2. \A g \in Gates : s \notin gate[g].waiters
    BY <2>1 DEF Discipline
  <2> QED BY <1>1, <2>1, <2>2 DEF Discipline
<1> QED BY <1>1, <1>2, LocalMove

(* Binding, reading, storing and the steps of a commit. *)
LEMMA StatementSteps ==
    ASSUME IInv, NEW s \in Sessions,
           \/ begin(s) \/ Lock(s) \/ WaitForLock(s) \/ CancelLock(s)
           \/ Rollback(s) \/ TxnTimeout(s) \/ Teardown(s)
           \/ prepareDeferredCommit(s) \/ Flush(s) \/ completeCommit(s) \/ Publish(s)
           \/ Bind(s) \/ get(s) \/ startRead(s) \/ put(s)
    PROVE  IInv'
<1> DEFINE Goes(p, x) == se' = [se EXCEPT ![s].txn = x, ![s].pc = p]
<1>0. /\ Discipline(s) /\ se \in [Sessions -> SessionRec] /\ owner \in [Keys -> Sessions \cup {None}]
      /\ None \notin Sessions
  BY SessionsAssumption DEF IInv, Typed, SessionRec
<1>1. CASE begin(s)
  <2>1. Goes("idle", TRUE) /\ gate' = gate /\ group' = group /\ owner' = owner /\ se[s].pc = "run"
    BY <1>1 DEF begin, AfterStatement
  <2> QED BY <1>0, <2>1, StatementMove, Zenon DEF Discipline, TxnPCs, CommitPCs, PCs
<1>2. CASE Lock(s)
  <2>1. /\ gate' = gate /\ group' = group /\ se[s].pc \in {"run", "wait"}
        /\ owner' \in [Keys -> Sessions \cup {None}] /\ \A k \in Keys : owner'[k] \in {owner[k], None, s}
    BY <1>0, <1>2, Zenon DEF Lock, Locking
  <2>2. CASE se[s].txn
    <3>1. Goes("idle", TRUE)
      BY <1>0, <1>2, <2>2, ZenonT(40) DEF Lock, Finished, AfterStatement, SessionRec
    <3> QED BY <1>0, <2>1, <2>2, <3>1, StatementMove, Zenon DEF Discipline, TxnPCs, CommitPCs, PCs
  <2>3. CASE ~se[s].txn
    <3>1. Goes("append", FALSE)
      BY <1>0, <1>2, <2>3, Zenon DEF Lock, SessionRec
    <3> QED BY <1>0, <2>1, <2>3, <3>1, StatementMove, Zenon DEF Discipline, TxnPCs, CommitPCs, PCs
  <2> QED BY <2>2, <2>3
<1>3. CASE WaitForLock(s) \/ CancelLock(s)
  <2>1. gate' = gate /\ group' = group /\ owner' = owner /\ se[s].pc \in {"run", "wait"}
    BY <1>3 DEF WaitForLock, CancelLock
  <2>2. CASE Goes("wait", se[s].txn)
    <3>1. CASE se[s].txn
      <4>1. Goes("wait", TRUE)
        BY <1>0, <2>2, <3>1 DEF SessionRec
      <4> QED BY <1>0, <2>1, <3>1, <4>1, StatementMove, Zenon DEF Discipline, TxnPCs, CommitPCs, PCs
    <3>2. CASE ~se[s].txn
      <4>1. Goes("wait", FALSE)
        BY <1>0, <2>2, <3>2, Zenon DEF SessionRec
      <4>2. s \in gate[Process].holders /\ \A k \in Keys : owner'[k] # s
        BY <1>0, <2>1, <3>2 DEF Discipline, CommitPCs
      <4>3. /\ "wait" \in PCs /\ "wait" \notin {"queued", "lookup", "ask", "idle"}
            /\ se[s].pc # "queued" /\ \A k \in Keys : owner'[k] = owner[k]
        BY <2>1 DEF PCs
      <4> QED BY <1>0, <2>1, <4>1, <4>2, <4>3, StatementMove, ZenonT(60)
    <3> QED BY <3>1, <3>2
  <2>3. CASE Goes(Finished(s), se[s].txn)
    <3>1. CASE se[s].txn
      <4>1. Goes("idle", TRUE)
        BY <1>0, <2>3, <3>1 DEF SessionRec, Finished, AfterStatement
      <4> QED BY <1>0, <2>1, <3>1, <4>1, StatementMove, Zenon DEF Discipline, TxnPCs, CommitPCs, PCs
    <3>2. CASE ~se[s].txn
      <4>1. Goes("release", FALSE)
        BY <1>0, <2>3, <3>2, Zenon DEF SessionRec, Finished, AfterStatement
      <4> QED BY <1>0, <2>1, <3>2, <4>1, StatementMove, ZenonT(40) DEF Discipline, TxnPCs, CommitPCs, PCs
    <3> QED BY <3>1, <3>2
  <2> QED BY <1>0, <1>3, <2>2, <2>3, ZenonT(40) DEF WaitForLock, CancelLock, SessionRec
<1>4. CASE Rollback(s) \/ TxnTimeout(s) \/ Teardown(s)
  <2>1. /\ Goes("release", FALSE) /\ gate' = gate /\ group' = group
        /\ owner' = Unlocked(s) /\ se[s].pc \in {"run", "idle"} /\ (se[s].pc = "idle" => se[s].txn)
    BY <1>4, Zenon DEF Rollback, TxnTimeout, Teardown, abort
  <2>2. /\ owner' \in [Keys -> Sessions \cup {None}]
        /\ \A k \in Keys : owner'[k] \in {owner[k], None} /\ owner'[k] # s
    BY <1>0, <2>1 DEF Unlocked
  <2> QED BY <1>0, <2>1, <2>2, StatementMove, ZenonT(40) DEF Discipline, TxnPCs, CommitPCs, PCs
<1>5. CASE completeCommit(s)
  <2>1. gate' = gate /\ group' = group /\ owner' = Unlocked(s) /\ se[s].pc = "complete"
    BY <1>5 DEF completeCommit
  <2>2. PICK p \in {"publish", "release"} : Goes(p, FALSE)
    BY <1>5, Zenon DEF completeCommit
  <2>3. /\ owner' \in [Keys -> Sessions \cup {None}]
        /\ \A k \in Keys : owner'[k] \in {owner[k], None, s} /\ owner'[k] # s
    BY <1>0, <2>1 DEF Unlocked
  <2>4. /\ p \in PCs /\ p \notin {"queued", "lookup", "ask", "idle"}
        /\ s \in gate[Process].holders
    BY <1>0, <2>1 DEF Discipline, PCs
  <2> QED BY <2>1, <2>2, <2>3, <2>4, StatementMove, Zenon
<1>6. CASE prepareDeferredCommit(s) \/ Flush(s)
  <2>1. gate' = gate /\ group' = group /\ owner' = owner /\ se[s].pc \in {"run", "append", "flush"}
    BY <1>6 DEF prepareDeferredCommit, Flush
  <2>2. PICK p \in {"flush", "complete"} : se' = [se EXCEPT ![s].pc = p]
    BY <1>6 DEF prepareDeferredCommit, Flush
  <2>3. /\ p \in PCs /\ p \in TxnPCs /\ p \in CommitPCs /\ p \notin {"queued", "lookup", "ask", "idle"}
        /\ s \in gate[Process].holders
    BY <1>0, <2>1, <2>2 DEF Discipline, TxnPCs, CommitPCs, PCs
  <2>4. CASE se[s].txn
    <3>1. Goes(p, TRUE)
      BY <1>0, <2>2, <2>4, Zenon DEF SessionRec
    <3> QED BY <1>0, <2>1, <2>3, <3>1, StatementMove, Zenon
  <2>5. CASE ~se[s].txn
    <3>1. Goes(p, FALSE)
      BY <1>0, <2>2, <2>5, ZenonT(40) DEF SessionRec
    <3> QED BY <1>0, <2>1, <2>3, <3>1, StatementMove, Zenon
  <2> QED BY <2>4, <2>5
<1>7. CASE Publish(s) \/ Bind(s) \/ get(s) \/ startRead(s) \/ put(s)
  <2>1. /\ gate' = gate /\ group' = group /\ owner' = owner /\ se[s].txn = FALSE
        /\ se[s].pc \in {"run", "publish", "bound", "read", "store"}
    BY <1>0, <1>7, ZenonT(40) DEF Publish, Bind, get, startRead, put, Discipline, TxnPCs, SessionRec
  <2>2. PICK p \in {"bound", "read", "store", "release"} : se' = [se EXCEPT ![s].pc = p]
    BY <1>7, Zenon DEF Publish, Bind, get, startRead, put
  <2>3. Goes(p, FALSE)
    BY <1>0, <2>1, <2>2, Zenon DEF SessionRec
  <2>4. /\ p \in PCs /\ p \notin {"queued", "lookup", "ask", "idle"}
        /\ s \in gate[Process].holders /\ \A k \in Keys : owner'[k] # s
    BY <1>0, <2>1 DEF Discipline, CommitPCs, PCs
  <2> QED BY <1>0, <2>1, <2>3, <2>4, StatementMove, Zenon
<1> QED BY <1>1, <1>2, <1>3, <1>4, <1>5, <1>6, <1>7

(* The gates are numbered from the process gate up, and the counter is a number. *)
LEMMA GateNumbers ==
    ASSUME IInv
    PROVE  /\ Gates \subseteq Nat /\ 0 \in Gates /\ GroupGates = Gates \ {0}
           /\ group.built \in Nat /\ 0 <= group.built
<1>1. Gates \subseteq Nat /\ 0 \in Gates /\ GroupGates = Gates \ {0}
  BY BoundsAssumption DEF Gates, GroupGates
<1>2. group.built \in Gates
  BY DEF IInv, Typed
<1>3. group.built \in Nat
  BY <1>1, <1>2, ZenonT(40)
<1>4. 0 <= group.built
  BY <1>3
<1> QED BY <1>1, <1>3, <1>4

(* A step of one session at one gate preserves the invariant when the gate's   *)
(* slots are conserved, the other sessions keep theirs or are served from the   *)
(* queue, and the session itself keeps to the discipline.                       *)
LEMMA GateMove ==
    ASSUME IInv, NEW s \in Sessions, NEW g \in Gates,
           gate' \in [Gates -> GateRec], \A h \in Gates \ {g} : gate'[h] = gate[h],
           group' = group, owner' = owner, g <= group.built,
           se' \in [Sessions -> SessionRec], \A t \in Sessions \ {s} : se'[t] = se[t],
           gate'[g].free + Cardinality(gate'[g].holders) = gate'[g].cap,
           gate'[g].free > 0 => gate'[g].waiters = {},
           \A t \in Sessions \ {s} :
              /\ t \in gate'[g].waiters => t \in gate[g].waiters /\ t \notin gate'[g].holders
              /\ t \in gate[g].holders => t \in gate'[g].holders
              /\ t \in gate'[g].holders => t \in gate[g].holders \/ t \in gate[g].waiters,
           Discipline(s)'
    PROVE  IInv'
<1>0. Gates \subseteq Nat /\ 0 \in Gates /\ GroupGates \subseteq Gates
  BY BoundsAssumption DEF Gates, GroupGates
<1>1. Typed'
  BY DEF IInv, Typed, SessionRec
<1>2. ASSUME NEW t \in Sessions, t # s PROVE Discipline(t)'
  <2>1. Discipline(t) /\ se'[t] = se[t]
    BY <1>2 DEF IInv
  <2>2. ASSUME NEW h \in Gates
        PROVE  /\ t \in gate'[h].waiters => t \in gate[h].waiters /\ t \notin gate'[h].holders
               /\ t \in gate[h].holders => t \in gate'[h].holders
               /\ t \in gate'[h].holders =>
                     t \in gate[h].holders \/ (se[t].pc = "queued" /\ se[t].at = h)
    <3>1. CASE h = g
      BY <1>2, <2>1, <3>1 DEF Discipline
    <3>2. CASE h # g
      BY <1>2, <2>1, <3>2 DEF Discipline
    <3> QED BY <3>1, <3>2
  <2> QED BY <1>0, <2>1, <2>2 DEF Discipline, Process
<1>3. Unbuilt'
  <2>1. group.built \in Nat
    BY <1>0, Zenon DEF IInv, Typed
  <2> SUFFICES ASSUME NEW h \in GroupGates, h > group.built
               PROVE  gate'[h].waiters = {} /\ gate'[h].holders = {}
    BY DEF Unbuilt
  <2>2. h # g /\ h \in Gates
    BY <1>0, <2>1
  <2> QED BY <2>2 DEF IInv, Unbuilt
<1>4. SlotsConserved'
  <2> SUFFICES ASSUME NEW h \in Gates
               PROVE  /\ gate'[h].free + Cardinality(gate'[h].holders) = gate'[h].cap
                      /\ gate'[h].free > 0 => gate'[h].waiters = {}
    BY DEF SlotsConserved
  <2>1. CASE h = g
    BY <2>1
  <2>2. CASE h # g
    BY <2>2 DEF IInv, SlotsConserved
  <2> QED BY <2>1, <2>2
<1> QED BY <1>1, <1>2, <1>3, <1>4 DEF IInv

(* acquire, from the process gate or, with a process slot in hand, from the gate *)
(* of the group.                                                                 *)
LEMMA AcquireStep ==
    ASSUME IInv, NEW s \in Sessions, NEW g \in Gates, NEW jb, acquire(s, g, jb),
           group' = group, owner' = owner, g <= group.built, ~se[s].txn,
           \A k \in Keys : owner[k] # s, se[s].pc # "queued",
           \A h \in GroupGates \cup {g} : s \notin gate[h].holders,
           g # Process => s \in gate[Process].holders
    PROVE  IInv'
<1>0. /\ Gates \subseteq Nat /\ 0 \in Gates /\ GroupGates = Gates \ {0}
      /\ Discipline(s) /\ gate \in [Gates -> GateRec] /\ se \in [Sessions -> SessionRec]
      /\ \A h \in Gates : s \notin gate[h].waiters
  BY BoundsAssumption DEF Gates, GroupGates, IInv, Typed, SessionRec, Discipline
<1>1. CASE EnterGate(s, g, jb)
  <2>1. /\ gate' \in [Gates -> GateRec] /\ \A h \in Gates \ {g} : gate'[h] = gate[h]
        /\ gate'[g].free = gate[g].free - 1 /\ gate'[g].cap = gate[g].cap
        /\ gate'[g].waiters = {} /\ gate'[g].holders = gate[g].holders \cup {s}
    BY <1>0, <1>1 DEF EnterGate, CanEnter, GateRec
  <2>2. /\ se' \in [Sessions -> SessionRec] /\ \A t \in Sessions \ {s} : se'[t] = se[t]
        /\ se'[s].pc = Through(s, g) /\ se'[s].at = g /\ ~se'[s].txn
    BY <1>0, <1>1, ZenonT(40) DEF EnterGate, Through, SessionRec, PCs
  <2>3. gate'[g].free + Cardinality(gate'[g].holders) = gate'[g].cap
    <3>1. gate[g].holders \in SUBSET Sessions /\ gate[g].free \in Nat /\ gate[g].cap \in Nat
      BY <1>0 DEF GateRec
    <3>2. Cardinality(gate'[g].holders) = Cardinality(gate[g].holders) + 1 /\ Cardinality(gate[g].holders) \in Nat
      BY <2>1, <3>1, HolderAdded, ZenonT(40)
    <3> QED BY <2>1, <3>1, <3>2 DEF IInv, SlotsConserved
  <2>4. Discipline(s)'
    BY <1>0, <2>1, <2>2 DEF Discipline, Through, Process, TxnPCs
  <2> QED BY <2>1, <2>2, <2>3, <2>4, GateMove, Zenon
<1>2. CASE JoinQueue(s, g, jb)
  <2>1. /\ gate' \in [Gates -> GateRec] /\ \A h \in Gates \ {g} : gate'[h] = gate[h]
        /\ gate'[g].free = gate[g].free /\ gate'[g].cap = gate[g].cap
        /\ gate'[g].waiters = gate[g].waiters \cup {s} /\ gate'[g].holders = gate[g].holders
    BY <1>0, <1>2 DEF JoinQueue, GateRec
  <2>2. /\ se' \in [Sessions -> SessionRec] /\ \A t \in Sessions \ {s} : se'[t] = se[t]
        /\ se'[s].pc = "queued" /\ se'[s].at = g /\ ~se'[s].txn
    BY <1>0, <1>2, ZenonT(40) DEF JoinQueue, SessionRec, PCs
  <2>3. ~(gate'[g].free > 0)
    BY <1>0, <1>2, <2>1 DEF JoinQueue, CanEnter, IInv, SlotsConserved
  <2>4. Discipline(s)'
    BY <1>0, <2>1, <2>2, ZenonT(40) DEF Discipline, Process, TxnPCs
  <2>5. gate'[g].free + Cardinality(gate'[g].holders) = gate'[g].cap
    BY <2>1 DEF IInv, SlotsConserved
  <2>6. \A t \in gate[g].waiters : t \notin gate[g].holders
    BY <1>0 DEF IInv, Discipline, GateRec
  <2> QED BY <2>1, <2>2, <2>3, <2>4, <2>5, <2>6, GateMove
<1>3. CASE Refuse(s, g)
  <2>1. gate' = gate /\ \A t \in Sessions \ {s} : se'[t] = se[t]
    BY <1>0, <1>3 DEF Refuse
  <2>2. /\ se' \in [Sessions -> SessionRec] /\ se'[s].at = Process /\ ~se'[s].txn
        /\ se'[s].pc = IF g = Process THEN "idle" ELSE "release"
    BY <1>0, <1>3, ZenonT(40) DEF Refuse, TurnedAway, Idle, SessionRec, PCs, Process
  <2>3. Discipline(s)'
    <3>1. 0 <= group.built
      BY GateNumbers
    <3>2. CASE g = Process
      BY <1>0, <2>1, <2>2, <3>1, <3>2 DEF Discipline, Process
    <3>3. CASE g # Process
      BY <1>0, <2>1, <2>2, <3>1, <3>3 DEF Discipline, Process
    <3> QED BY <3>2, <3>3
  <2> QED BY <2>1, <2>2, <2>3, LocalMove DEF IInv, Typed
<1> QED BY <1>1, <1>2, <1>3 DEF acquire

(* release: the slot is handed to a waiter or goes back to the gate.  The session *)
(* keeps its place, or becomes idle when it gives its last slot back.             *)
LEMMA ReleaseStep ==
    ASSUME IInv, NEW s \in Sessions, NEW g \in Gates, release(s, g), s \in gate[g].holders,
           group' = group, owner' = owner, g <= group.built,
           se' \in [Sessions -> SessionRec], \A t \in Sessions \ {s} : se'[t] = se[t],
           se[s].pc = "release", se'[s].at <= group.built, ~se'[s].txn,
           \/ g # Process /\ se'[s].pc = "release"
           \/ /\ g = Process /\ se'[s].pc = "idle"
              /\ \A h \in GroupGates : s \notin gate[h].holders
    PROVE  IInv'
<1>0. /\ Gates \subseteq Nat /\ 0 \in Gates /\ GroupGates = Gates \ {0}
      /\ Discipline(s) /\ gate \in [Gates -> GateRec]
      /\ \A h \in Gates : s \notin gate[h].waiters
      /\ \A t \in gate[g].waiters : t \in Sessions /\ t \notin gate[g].holders
  <2>1. Gates \subseteq Nat /\ 0 \in Gates /\ GroupGates = Gates \ {0}
    BY GateNumbers
  <2>2. gate \in [Gates -> GateRec] /\ \A t \in Sessions : Discipline(t)
    BY DEF IInv, Typed
  <2>3. \A h \in Gates : s \notin gate[h].waiters
    BY <2>2 DEF Discipline
  <2>4. gate[g].waiters \subseteq Sessions
    BY <2>2 DEF GateRec
  <2>5. \A t \in gate[g].waiters : t \notin gate[g].holders
    BY <2>2, <2>4 DEF Discipline
  <2> QED BY <2>1, <2>2, <2>3, <2>4, <2>5
<1>1. /\ gate[g].holders \in SUBSET Sessions /\ gate[g].free \in Nat /\ gate[g].cap \in Nat
      /\ gate[g].free + Cardinality(gate[g].holders) = gate[g].cap
      /\ gate[g].free > 0 => gate[g].waiters = {}
  BY <1>0 DEF GateRec, IInv, SlotsConserved
<1>2. /\ Cardinality(gate[g].holders \ {s}) = Cardinality(gate[g].holders) - 1
      /\ Cardinality(gate[g].holders) \in Nat
  BY <1>1, HolderRemoved
<1>3. ASSUME s \notin gate'[g].holders, \A h \in Gates \ {g} : gate'[h] = gate[h],
             s \notin gate'[g].waiters
      PROVE  Discipline(s)'
  <2>1. \A k \in Keys : owner'[k] # s
    BY <1>0 DEF Discipline, CommitPCs, TxnPCs
  <2>2. CASE g # Process /\ se'[s].pc = "release"
    BY <1>0, <1>3, <2>1, <2>2 DEF Discipline, Process
  <2>3. CASE /\ g = Process /\ se'[s].pc = "idle"
             /\ \A h \in GroupGates : s \notin gate[h].holders
    BY <1>0, <1>3, <2>1, <2>3 DEF Discipline, Process
  <2> QED BY <2>2, <2>3
<1>4. CASE gate[g].waiters = {} /\ gate' = [gate EXCEPT ![g].free = @ + 1, ![g].holders = @ \ {s}]
  <2>1. /\ gate' \in [Gates -> GateRec] /\ \A h \in Gates \ {g} : gate'[h] = gate[h]
        /\ gate'[g].free = gate[g].free + 1 /\ gate'[g].cap = gate[g].cap
        /\ gate'[g].waiters = {} /\ gate'[g].holders = gate[g].holders \ {s}
    BY <1>0, <1>4 DEF GateRec
  <2>2. gate'[g].free + Cardinality(gate'[g].holders) = gate'[g].cap
    BY <1>1, <1>2, <2>1
  <2> QED BY <1>3, <2>1, <2>2, GateMove, Zenon
<1>5. ASSUME NEW w \in gate[g].waiters,
             gate' = [gate EXCEPT ![g].waiters = @ \ {w}, ![g].holders = (@ \ {s}) \cup {w}]
      PROVE  IInv'
  <2>0. w \in Sessions /\ w # s /\ w \notin gate[g].holders
    BY <1>0, <1>5
  <2>1. /\ gate' \in [Gates -> GateRec] /\ \A h \in Gates \ {g} : gate'[h] = gate[h]
        /\ gate'[g].free = gate[g].free /\ gate'[g].cap = gate[g].cap
        /\ gate'[g].waiters = gate[g].waiters \ {w}
        /\ gate'[g].holders = (gate[g].holders \ {s}) \cup {w}
    BY <1>0, <1>5, <2>0 DEF GateRec
  <2>2. Cardinality(gate'[g].holders) = Cardinality(gate[g].holders)
    BY <1>1, <2>0, <2>1, HolderReplaced
  <2>3. gate'[g].free + Cardinality(gate'[g].holders) = gate'[g].cap
    BY <1>1, <2>1, <2>2
  <2>4. gate'[g].free > 0 => gate'[g].waiters = {}
    BY <1>1, <2>1
  <2>5. Discipline(s)'
    BY <1>0, <1>3, <2>0, <2>1
  <2>6. \A t \in Sessions \ {s} :
          /\ t \in gate'[g].waiters => t \in gate[g].waiters /\ t \notin gate'[g].holders
          /\ t \in gate[g].holders => t \in gate'[g].holders
          /\ t \in gate'[g].holders => t \in gate[g].holders \/ t \in gate[g].waiters
    BY <1>0, <2>1
  <2> QED BY <2>1, <2>3, <2>4, <2>5, <2>6, GateMove, Zenon
<1> QED BY <1>4, <1>5, Zenon DEF release

(* The steps at a gate: asking, being granted, giving up, giving back. *)
LEMMA GateSteps ==
    ASSUME IInv, NEW s \in Sessions,
           \/ ExecContext(s) \/ AskGroup(s) \/ TakeGrant(s) \/ cancelWaiter(s)
           \/ ReleaseGroup(s) \/ ReleaseProcess(s)
    PROVE  IInv'
<1>0. /\ Gates \subseteq Nat /\ 0 \in Gates /\ GroupGates = Gates \ {0}
      /\ group.built \in Nat /\ 0 <= group.built
  BY GateNumbers
<1>a. /\ Discipline(s) /\ gate \in [Gates -> GateRec] /\ se \in [Sessions -> SessionRec]
      /\ owner \in [Keys -> Sessions \cup {None}]
  BY DEF IInv, Typed, SessionRec
<1>1. CASE ExecContext(s)
  <2>1. PICK jb : Admit(s, jb) /\ se[s].pc = "idle" /\ group' = group /\ owner' = owner
    BY <1>1 DEF ExecContext
  <2>2. CASE s \in gate[Process].holders
    <3>1. se[s].txn
      BY <1>0, <1>a, <2>1, <2>2 DEF Discipline, Process
    <3>2. gate' = gate /\ se' = [se EXCEPT ![s].pc = "run"]
      BY <2>1, <2>2 DEF Admit
    <3>3. se' = [se EXCEPT ![s].txn = TRUE, ![s].pc = "run"]
      BY <1>a, <3>1, <3>2, ZenonT(40) DEF SessionRec
    <3>4. "run" \in PCs /\ "run" \in TxnPCs /\ "run" \notin {"queued", "lookup", "ask", "idle"}
      BY DEF PCs, TxnPCs
    <3> QED BY <1>a, <2>1, <2>2, <3>2, <3>3, <3>4, StatementMove, ZenonT(40)
  <2>3. CASE s \notin gate[Process].holders
    <3>1. acquire(s, Process, jb)
      BY <2>1, <2>3 DEF Admit
    <3>2. ~se[s].txn /\ \A k \in Keys : owner[k] # s
      BY <1>a, <2>1, <2>3 DEF Discipline, CommitPCs
    <3>3. \A h \in GroupGates \cup {Process} : s \notin gate[h].holders
      BY <1>0, <1>a, <2>1, <3>2 DEF Discipline, Process
    <3> QED BY <1>0, <2>1, <3>1, <3>2, <3>3, AcquireStep DEF Process
  <2> QED BY <2>2, <2>3
<1>2. CASE AskGroup(s)
  <2>1. acquire(s, se[s].at, job[s]) /\ se[s].pc = "ask" /\ group' = group /\ owner' = owner
    BY <1>2 DEF AskGroup
  <2>2. /\ se[s].at \in Gates /\ se[s].at # Process /\ se[s].at <= group.built
        /\ s \in gate[Process].holders /\ \A h \in GroupGates : s \notin gate[h].holders
    BY <1>a, <2>1, ZenonT(40) DEF Discipline, SessionRec
  <2>3. ~se[s].txn /\ \A k \in Keys : owner[k] # s
    BY <1>a, <2>1 DEF Discipline, CommitPCs, TxnPCs
  <2>4. se[s].at \in GroupGates
    BY <1>0, <2>2 DEF Process
  <2> QED BY <2>1, <2>2, <2>3, <2>4, AcquireStep
<1>3. CASE TakeGrant(s)
  <2>1. /\ se[s].pc = "queued" /\ s \in gate[se[s].at].holders
        /\ gate' = gate /\ group' = group /\ owner' = owner
        /\ se' = [se EXCEPT ![s].pc = Through(s, se[s].at)]
    BY <1>3 DEF TakeGrant
  <2>2. /\ se' \in [Sessions -> SessionRec] /\ \A t \in Sessions \ {s} : se'[t] = se[t]
        /\ se'[s].pc = Through(s, se[s].at) /\ se'[s].at = se[s].at /\ se'[s].txn = se[s].txn
    BY <1>a, <2>1 DEF SessionRec, Through, PCs
  <2>3. /\ ~se[s].txn /\ \A k \in Keys : owner[k] # s
        /\ \A h \in Gates : s \notin gate[h].waiters
    BY <1>a, <2>1 DEF Discipline, CommitPCs, TxnPCs
  <2>4. s \in gate[Process].holders
    BY <1>a, <2>1 DEF Discipline
  <2>5. se[s].at = Process => \A h \in GroupGates : s \notin gate[h].holders
    BY <1>0, <1>a, <2>1 DEF Discipline, Process
  <2>6. Discipline(s)'
    BY <1>a, <2>1, <2>2, <2>3, <2>4, <2>5 DEF Discipline, Through
  <2> QED BY <1>a, <2>1, <2>2, <2>6, LocalMove
<1>4. CASE cancelWaiter(s)
  <2> DEFINE g == se[s].at
  <2>1. /\ se[s].pc = "queued" /\ s \in gate[g].waiters /\ group' = group /\ owner' = owner
        /\ gate' = [gate EXCEPT ![g].waiters = @ \ {s}]
        /\ se' = [se EXCEPT ![s] = TurnedAway(s, g)]
    BY <1>4 DEF cancelWaiter
  <2>2. g \in Gates /\ g <= group.built /\ s \notin gate[g].holders
    BY <1>a, <2>1 DEF Discipline, SessionRec
  <2>3. /\ gate' \in [Gates -> GateRec] /\ \A h \in Gates \ {g} : gate'[h] = gate[h]
        /\ gate'[g].free = gate[g].free /\ gate'[g].cap = gate[g].cap
        /\ gate'[g].waiters = gate[g].waiters \ {s} /\ gate'[g].holders = gate[g].holders
    BY <1>a, <2>1, <2>2 DEF GateRec
  <2>4. /\ se' \in [Sessions -> SessionRec] /\ \A t \in Sessions \ {s} : se'[t] = se[t]
        /\ se'[s].at = Process /\ ~se'[s].txn
        /\ se'[s].pc = IF g = Process THEN "idle" ELSE "release"
    BY <1>0, <1>a, <2>1, Zenon DEF TurnedAway, Idle, SessionRec, PCs, Process
  <2>5. ~se[s].txn /\ \A k \in Keys : owner[k] # s
    BY <1>a, <2>1 DEF Discipline, CommitPCs, TxnPCs
  <2>6. \A h \in Gates : s \notin gate'[h].waiters /\ gate'[h].holders = gate[h].holders
    BY <1>a, <2>1, <2>2, <2>3 DEF Discipline
  <2>7. Discipline(s)'
    <3>1. CASE g = Process
      <4>1. \A h \in Gates : s \notin gate[h].holders
        BY <1>0, <1>a, <2>1, <2>2, <3>1 DEF Discipline, Process
      <4> QED BY <1>0, <2>1, <2>4, <2>5, <2>6, <3>1, <4>1 DEF Discipline, Process
    <3>2. CASE g # Process
      <4>1. s \in gate[Process].holders
        BY <1>a, <2>1, <3>2 DEF Discipline
      <4> QED BY <1>0, <2>1, <2>4, <2>5, <2>6, <3>2, <4>1 DEF Discipline, Process
    <3> QED BY <3>1, <3>2
  <2>8. /\ gate'[g].free + Cardinality(gate'[g].holders) = gate'[g].cap
        /\ gate'[g].free > 0 => gate'[g].waiters = {}
    BY <2>2, <2>3 DEF IInv, SlotsConserved
  <2>9. \A t \in Sessions : t \in gate[g].waiters => t \notin gate[g].holders
    BY <2>2 DEF IInv, Discipline
  <2> QED BY <2>1, <2>2, <2>3, <2>4, <2>7, <2>8, <2>9, GateMove, Zenon
<1>5. CASE ReleaseGroup(s)
  <2>1. PICK g \in GroupGates : s \in gate[g].holders /\ release(s, g)
    BY <1>5 DEF ReleaseGroup
  <2>2. se[s].pc = "release" /\ group' = group /\ owner' = owner /\ se' = se
    BY <1>5 DEF ReleaseGroup
  <2>3. ~se[s].txn /\ se[s].at <= group.built
    BY <1>a, <2>2 DEF Discipline, TxnPCs
  <2>4. g <= group.built
    BY <1>0, <2>1 DEF IInv, Unbuilt
  <2> QED BY <1>0, <1>a, <2>1, <2>2, <2>3, <2>4, ReleaseStep DEF Process
<1>6. CASE ReleaseProcess(s)
  <2>1. /\ se[s].pc = "release" /\ s \in gate[Process].holders /\ release(s, Process)
        /\ \A g \in GroupGates : s \notin gate[g].holders
        /\ group' = group /\ owner' = owner /\ se' = [se EXCEPT ![s] = [Idle EXCEPT !.txn = se[s].txn]]
    BY <1>6 DEF ReleaseProcess
  <2>2. ~se[s].txn
    BY <1>a, <2>1 DEF Discipline, TxnPCs
  <2>3. /\ se' \in [Sessions -> SessionRec] /\ \A t \in Sessions \ {s} : se'[t] = se[t]
        /\ se'[s].pc = "idle" /\ se'[s].at = Process /\ ~se'[s].txn
    BY <1>0, <1>a, <2>1, <2>2 DEF Idle, SessionRec, PCs, Process
  <2> QED BY <1>0, <2>1, <2>3, ReleaseStep DEF Process
<1> QED BY <1>1, <1>2, <1>3, <1>4, <1>5, <1>6

(* A session of the group finds its gate, or builds a new one: nobody knows a gate *)
(* that has not been built.                                                        *)
LEMMA GroupGateStep ==
    ASSUME IInv, NEW s \in Sessions, resourceGroupGate(s)
    PROVE  IInv'
<1>0. /\ Gates \subseteq Nat /\ 0 \in Gates /\ GroupGates = Gates \ {0}
      /\ group.built \in Nat /\ 0 <= group.built
  BY GateNumbers
<1>a. /\ Discipline(s) /\ gate \in [Gates -> GateRec] /\ se \in [Sessions -> SessionRec]
      /\ owner \in [Keys -> Sessions \cup {None}]
      /\ group \in [bound : Nat, gate : Gates, built : Gates] /\ group.gate <= group.built
  BY DEF IInv, Typed, SessionRec
<1>b. se[s].pc = "lookup" /\ owner' = owner
  BY DEF resourceGroupGate
<1>c. /\ ~se[s].txn /\ \A k \in Keys : owner[k] # s
      /\ s \in gate[Process].holders
      /\ \A h \in GroupGates : s \notin gate[h].holders
      /\ \A h \in Gates : s \notin gate[h].waiters
  BY <1>a, <1>b DEF Discipline, CommitPCs, TxnPCs
<1>1. CASE se' = [se EXCEPT ![s].pc = "run"] /\ gate' = gate /\ group' = group
  <2>1. se' = [se EXCEPT ![s].txn = FALSE, ![s].pc = "run"]
    BY <1>a, <1>c, <1>1, ZenonT(40) DEF SessionRec
  <2>2. "run" \in PCs /\ "run" \notin {"queued", "lookup", "ask", "idle"}
    BY DEF PCs
  <2>3. /\ owner' \in [Keys -> Sessions \cup {None}] /\ se[s].pc # "queued"
        /\ \A k \in Keys : owner'[k] \in {owner[k], None, s} /\ owner'[k] # s
    BY <1>a, <1>b, <1>c
  <2> QED BY <1>c, <1>1, <2>1, <2>2, <2>3, StatementMove, Zenon
<1>2. CASE /\ group.gate # 0 /\ se' = [se EXCEPT ![s].pc = "ask", ![s].at = group.gate]
           /\ gate' = gate /\ group' = group
  <2>1. /\ se' \in [Sessions -> SessionRec] /\ \A t \in Sessions \ {s} : se'[t] = se[t]
        /\ se'[s].pc = "ask" /\ se'[s].at = group.gate /\ ~se'[s].txn
    BY <1>a, <1>c, <1>2, Zenon DEF SessionRec, PCs
  <2>2. Discipline(s)'
    BY <1>a, <1>b, <1>c, <1>2, <2>1 DEF Discipline, Process
  <2> QED BY <1>a, <1>b, <1>2, <2>1, <2>2, LocalMove
<1>3. CASE LET g == group.built + 1 IN
           /\ group.built < MaxGates
           /\ gate' = [gate EXCEPT ![g] = NewGate(group.bound)]
           /\ group' = [group EXCEPT !.gate = g, !.built = g]
           /\ se' = [se EXCEPT ![s].pc = "ask", ![s].at = g]
  <2> DEFINE g == group.built + 1
  <2>1. g \in Gates /\ g # 0 /\ g > group.built /\ g \in GroupGates
    BY <1>0, <1>3, BoundsAssumption DEF Gates
  <2>2. /\ group' \in [bound : Nat, gate : Gates, built : Gates]
        /\ group'.gate = g /\ group'.built = g
    BY <1>a, <1>3, <2>1, Zenon
  <2>3. /\ gate' \in [Gates -> GateRec] /\ \A h \in Gates \ {g} : gate'[h] = gate[h]
        /\ gate'[g].free = gate'[g].cap /\ gate'[g].cap \in Nat
        /\ gate'[g].waiters = {} /\ gate'[g].holders = {}
    BY <1>a, <1>3, <2>1 DEF NewGate, GateRec
  <2>4. gate[g].waiters = {} /\ gate[g].holders = {}
    BY <2>1 DEF IInv, Unbuilt
  <2>5. /\ se' \in [Sessions -> SessionRec] /\ \A t \in Sessions \ {s} : se'[t] = se[t]
        /\ se'[s].pc = "ask" /\ se'[s].at = g /\ ~se'[s].txn
    BY <1>a, <1>c, <1>3, <2>1, ZenonT(40) DEF SessionRec, PCs
  <2>6. \A h \in Gates : gate'[h].holders = gate[h].holders /\ gate'[h].waiters = gate[h].waiters
    BY <2>3, <2>4, Zenon
  <2>7. Typed'
    <3>1. g <= g
      BY <1>0
    <3> QED BY <1>a, <1>b, <2>2, <2>3, <2>5, <3>1 DEF Typed, SessionRec
  <2>8. ASSUME NEW t \in Sessions PROVE Discipline(t)'
    <3>1. CASE t = s
      <4>1. g <= g
        BY <1>0
      <4> QED BY <1>0, <1>b, <1>c, <2>1, <2>2, <2>5, <2>6, <3>1, <4>1 DEF Discipline, Process
    <3>2. CASE t # s
      <4>1. Discipline(t) /\ se'[t] = se[t]
        BY <2>5, <3>2 DEF IInv
      <4>2. se[t].at <= g
        <5>1. se[t].at \in Nat
          BY <1>0, <1>a, <2>8, Zenon DEF SessionRec
        <5>2. se[t].at <= group.built
          BY <4>1 DEF Discipline
        <5> QED BY <1>0, <5>1, <5>2
      <4> QED BY <1>0, <1>b, <2>2, <2>6, <4>1, <4>2, ZenonT(40) DEF Discipline, Process
    <3> QED BY <3>1, <3>2
  <2>9. Unbuilt'
    <3> SUFFICES ASSUME NEW h \in GroupGates, h > g
                 PROVE  gate'[h].waiters = {} /\ gate'[h].holders = {}
      BY <2>2 DEF Unbuilt
    <3>1. h \in Gates /\ h > group.built
      BY <1>0
    <3> QED BY <2>6, <3>1 DEF IInv, Unbuilt
  <2>10. SlotsConserved'
    <3> SUFFICES ASSUME NEW h \in Gates
                 PROVE  /\ gate'[h].free + Cardinality(gate'[h].holders) = gate'[h].cap
                        /\ gate'[h].free > 0 => gate'[h].waiters = {}
      BY DEF SlotsConserved
    <3>1. CASE h = g
      <4>1. Cardinality(gate'[g].holders) = 0
        BY <2>3, FS_EmptySet, Zenon
      <4>2. gate'[g].free + 0 = gate'[g].cap
        BY <2>3
      <4> QED BY <2>3, <3>1, <4>1, <4>2, Zenon
    <3>2. CASE h # g
      BY <2>3, <3>2 DEF IInv, SlotsConserved
    <3> QED BY <3>1, <3>2
  <2> QED BY <2>7, <2>8, <2>9, <2>10 DEF IInv
<1> QED BY <1>1, <1>2, <1>3 DEF resourceGroupGate

(* ALTER RESOURCE GROUP drops the cached gate and touches no gate. *)
LEMMA AlterStep ==
    ASSUME IInv, putResourceGroup
    PROVE  IInv'
<1>1. PICK b \in Bounds : group' = [group EXCEPT !.bound = b, !.gate = 0]
  BY Zenon DEF putResourceGroup
<1>2. gate' = gate /\ se' = se /\ owner' = owner
  BY DEF putResourceGroup
<1>3. Gates \subseteq Nat /\ 0 \in Gates /\ group.built \in Nat /\ 0 <= group.built
  BY GateNumbers
<1>4. group' \in [bound : Nat, gate : Gates, built : Gates] /\ group'.gate = 0 /\ group'.built = group.built
  BY <1>1, <1>3, BoundsAssumption, Zenon DEF IInv, Typed
<1>5. Typed'
  BY <1>2, <1>3, <1>4, ZenonT(40) DEF IInv, Typed
<1>6. (\A s \in Sessions : Discipline(s)') /\ Unbuilt' /\ SlotsConserved'
  BY <1>2, <1>4 DEF IInv, Discipline, Unbuilt, SlotsConserved
<1> QED BY <1>5, <1>6 DEF IInv

(* Every step preserves the invariant. *)
LEMMA NextIInv == IInv /\ [Next]_vars => IInv'
<1> SUFFICES ASSUME IInv, [Next]_vars PROVE IInv'
  OBVIOUS
<1>1. ASSUME NEW s \in Sessions, Step(s) PROVE IInv'
  BY <1>1, StatementSteps, GateSteps, GroupGateStep DEF Step
<1>2. ASSUME NEW s \in Sessions,
             \/ ExecContext(s) \/ cancelWaiter(s) \/ CancelLock(s) \/ TxnTimeout(s) \/ Teardown(s)
      PROVE  IInv'
  BY <1>2, StatementSteps, GateSteps
<1>3. CASE putResourceGroup
  BY <1>3, AlterStep
<1>4. CASE UNCHANGED vars
  BY <1>4, ZenonT(40) DEF vars, IInv, Typed, Discipline, Unbuilt, SlotsConserved
<1> QED BY <1>1, <1>2, <1>3, <1>4 DEF Next

(* The invariant holds in every state of every behaviour. *)
THEOREM Invariance == Spec => []IInv
  BY InitIInv, NextIInv, PTL DEF Spec

(* No slot of any gate is ever lost or invented, and none is free while a request  *)
(* waits for it, for every number of sessions, capacity and queue bound.           *)
THEOREM SlotsAlwaysConserved == Spec => []SlotsConserved
<1>1. IInv => SlotsConserved
  BY DEF IInv
<1> QED BY <1>1, Invariance, PTL

(* A slot is held only for a statement under way or an open transaction, and       *)
(* whoever is past the gates holds a slot of the process gate.                     *)
THEOREM SlotsAlwaysUsed == Spec => []SlotHasUser
<1>1. IInv => SlotHasUser
  <2> SUFFICES ASSUME IInv, NEW s \in Sessions
               PROVE  /\ (\E g \in Gates : s \in gate[g].holders) => se[s].pc # "idle" \/ se[s].txn
                      /\ se[s].pc \notin {"idle", "queued", "release"} => s \in gate[Process].holders
                      /\ \A g \in GroupGates : s \in gate[g].waiters => s \in gate[Process].holders
    BY DEF SlotHasUser
  <2>1. Discipline(s) /\ GroupGates = Gates \ {0}
    BY GateNumbers DEF IInv
  <2> QED BY <2>1 DEF Discipline, Process
<1> QED BY <1>1, Invariance, PTL

(* No slot of any gate is lost, invented or kept by somebody who is done with it.   *)
THEOREM SlotsAlwaysAccountedFor == Spec => []SlotsAccountedFor
<1>1. SlotsConserved /\ SlotHasUser => SlotsAccountedFor
  BY DEF SlotsAccountedFor
<1> QED BY <1>1, SlotsAlwaysConserved, SlotsAlwaysUsed, PTL

(* No session that holds a row lock waits for admission, and each holds a slot of  *)
(* the process gate: the convoy of lock holders behind lock waiters cannot form.   *)
THEOREM NoConvoy == Spec => []WaitsEmptyHanded
<1>1. IInv => WaitsEmptyHanded
  <2> SUFFICES ASSUME IInv, NEW k \in Keys, owner[k] # None
               PROVE  /\ \A g \in Gates : owner[k] \notin gate[g].waiters
                      /\ owner[k] \in gate[Process].holders
    BY DEF WaitsEmptyHanded
  <2>1. owner[k] \in Sessions
    BY DEF IInv, Typed
  <2>2. Discipline(owner[k])
    BY <2>1 DEF IInv
  <2>3. se[owner[k]].txn \/ se[owner[k]].pc \in CommitPCs
    BY <2>1, <2>2 DEF Discipline
  <2>4. se[owner[k]].pc # "queued"
    BY <2>2, <2>3 DEF Discipline, TxnPCs, CommitPCs
  <2>5. owner[k] \in gate[Process].holders
    BY <2>2, <2>3 DEF Discipline, CommitPCs
  <2> QED BY <2>2, <2>4, <2>5 DEF Discipline
<1> QED BY <1>1, Invariance, PTL

(* acquire admits a newcomer only when nobody waits; release serves the best waiter. *)
LEMMA OrderAtGate ==
    ASSUME IInv, NEW s \in Sessions, NEW h \in Gates,
           (\E jb : acquire(s, h, jb)) \/ release(s, h)
    PROVE  ServedInOrder
<1>0. gate \in [Gates -> GateRec]
  BY DEF IInv, Typed
<1> SUFFICES ASSUME NEW g \in Gates, NEW n \in gate'[g].holders \ gate[g].holders,
                    NEW t \in gate[g].waiters \ {n}
             PROVE  n \in gate[g].waiters /\ Before(g, n, t)
  BY DEF ServedInOrder
<1>1. CASE \E jb : acquire(s, h, jb)
  <2>1. PICK jb : EnterGate(s, h, jb) \/ JoinQueue(s, h, jb) \/ Refuse(s, h)
    BY <1>1 DEF acquire
  <2>2. CASE EnterGate(s, h, jb)
    BY <1>0, <2>2 DEF EnterGate, CanEnter, GateRec
  <2>3. CASE JoinQueue(s, h, jb)
    BY <1>0, <2>3 DEF JoinQueue, GateRec
  <2>4. CASE Refuse(s, h)
    BY <2>4 DEF Refuse
  <2> QED BY <2>1, <2>2, <2>3, <2>4
<1>2. CASE release(s, h)
  <2>1. CASE gate' = [gate EXCEPT ![h].free = @ + 1, ![h].holders = @ \ {s}]
    BY <1>0, <2>1 DEF GateRec
  <2>2. ASSUME NEW w \in gate[h].waiters, Best(h, w),
               gate' = [gate EXCEPT ![h].waiters = @ \ {w}, ![h].holders = (@ \ {s}) \cup {w}]
        PROVE  n \in gate[g].waiters /\ Before(g, n, t)
    <3>1. g = h /\ n = w
      BY <1>0, <2>2 DEF GateRec
    <3> QED BY <2>2, <3>1 DEF Best
  <2> QED BY <1>2, <2>1, <2>2, Zenon DEF release
<1> QED BY <1>1, <1>2

(* A slot that changes hands goes to the best waiter, and a newcomer never passes   *)
(* one that waits, for every set of priorities.                                     *)
THEOREM NobodyOvertaken == Spec => NoOvertaking
<1>1. IInv /\ [Next]_vars => [ServedInOrder]_vars
  <2> SUFFICES ASSUME IInv, Next PROVE ServedInOrder
    OBVIOUS
  <2>0. gate \in [Gates -> GateRec] /\ Process \in Gates /\ GroupGates \subseteq Gates
        /\ se \in [Sessions -> SessionRec]
    BY GateNumbers DEF IInv, Typed, SessionRec, Process
  <2>1. ASSUME gate' = gate PROVE ServedInOrder
    BY <2>1 DEF ServedInOrder
  <2>2. ASSUME NEW s \in Sessions, ExecContext(s) PROVE ServedInOrder
    <3>1. PICK jb : Admit(s, jb)
      BY <2>2 DEF ExecContext
    <3>2. CASE gate' = gate
      BY <2>1, <3>2
    <3>3. CASE acquire(s, Process, jb)
      BY <2>0, <3>3, OrderAtGate
    <3> QED BY <3>1, <3>2, <3>3 DEF Admit
  <2>3. ASSUME NEW s \in Sessions, AskGroup(s) PROVE ServedInOrder
    <3>1. acquire(s, se[s].at, job[s]) /\ se[s].at \in Gates
      BY <2>0, <2>3 DEF AskGroup, SessionRec
    <3> QED BY <3>1, OrderAtGate
  <2>4. ASSUME NEW s \in Sessions, ReleaseGroup(s) \/ ReleaseProcess(s) PROVE ServedInOrder
    <3>1. \E g \in Gates : release(s, g)
      BY <2>0, <2>4 DEF ReleaseGroup, ReleaseProcess
    <3> QED BY <3>1, OrderAtGate
  <2>5. ASSUME NEW s \in Sessions, cancelWaiter(s) PROVE ServedInOrder
    <3>1. gate' = [gate EXCEPT ![se[s].at].waiters = @ \ {s}] /\ se[s].at \in Gates
      BY <2>0, <2>5 DEF cancelWaiter, SessionRec
    <3>2. \A g \in Gates : gate'[g].holders = gate[g].holders
      BY <2>0, <3>1 DEF GateRec
    <3> QED BY <3>2 DEF ServedInOrder
  <2>6. ASSUME NEW s \in Sessions, resourceGroupGate(s) PROVE ServedInOrder
    <3>1. CASE gate' = gate
      BY <2>1, <3>1
    <3>2. CASE gate' = [gate EXCEPT ![group.built + 1] = NewGate(group.bound)]
      <4>1. \A g \in Gates : gate'[g].holders \subseteq gate[g].holders
        BY <2>0, <3>2 DEF GateRec, NewGate
      <4> QED BY <4>1 DEF ServedInOrder
    <3> QED BY <2>6, <3>1, <3>2 DEF resourceGroupGate
  <2>7. ASSUME NEW s \in Sessions,
               \/ TakeGrant(s) \/ begin(s) \/ Lock(s) \/ WaitForLock(s) \/ Rollback(s)
               \/ prepareDeferredCommit(s) \/ Flush(s) \/ completeCommit(s) \/ Publish(s)
               \/ Bind(s) \/ get(s) \/ startRead(s) \/ put(s)
               \/ CancelLock(s) \/ TxnTimeout(s) \/ Teardown(s)
        PROVE  ServedInOrder
    <3>1. gate' = gate
      BY <2>7, Zenon DEF TakeGrant, begin, Lock, WaitForLock, Rollback, prepareDeferredCommit, Flush,
         completeCommit, Publish, Bind, get, startRead, put, CancelLock, TxnTimeout, Teardown, abort
    <3> QED BY <2>1, <3>1
  <2>8. CASE putResourceGroup
    BY <2>1, <2>8 DEF putResourceGroup
  <2> QED BY <2>2, <2>3, <2>4, <2>5, <2>6, <2>7, <2>8 DEF Next, Step
<1> QED BY <1>1, Invariance, PTL DEF Spec, NoOvertaking

-----------------------------------------------------------------------------
(* What a SELECT answers.                                                       *)

Results == [saw : SUBSET Nat, plan : Nat, blind : BOOLEAN]

(* The type of a statement, whatever its argument and its ticket are.            *)
JobTyped(j) ==
    j \in [stmt : Stmts, arg : {j.arg}, ticket : {j.ticket}, commit : Nat, plan : Nat,
           version : Nat \X Nat, result : Results, answered : BOOLEAN, acked : SUBSET Nat,
           from : Nat]

(* What a statement knew when it was issued is true once the commits of acked    *)
(* are acknowledged and the catalog is at generation g, and what it answers is   *)
(* fresh.                                                                        *)
Fits(j, acked, g) ==
    /\ JobTyped(j)
    /\ j.stmt = "select" => j.arg \in Queries
    /\ j.acked \subseteq acked /\ j.from <= g
    /\ j.answered => \/ j.acked \subseteq j.result.saw /\ j.from <= j.result.plan
                     \/ j.result.blind

(* How far the commit of a statement has come, and the plan of a SELECT.         *)
Placed(s) ==
    /\ se[s].pc = "flush" => job[s].commit \in 1 .. wal.log
    /\ se[s].pc = "complete" => job[s].commit \in 1 .. wal.durable
    /\ se[s].pc \notin {"flush", "complete"} => job[s].commit \in wal.visible \cup {0}
    /\ se[s].pc = "bound" => job[s].stmt = "select"
    /\ se[s].pc \in {"bound", "read"} => job[s].from <= job[s].plan

(* What is acknowledged is visible, what is visible is durable.                  *)
LogOrdered ==
    /\ wal \in [log : Nat, durable : Nat, visible : SUBSET Nat, acked : SUBSET Nat]
    /\ wal.durable <= wal.log
    /\ wal.visible \subseteq 1 .. wal.durable
    /\ wal.acked \subseteq wal.visible

(* An entry shows what its version counts, or is marked as blind.                *)
Honest(e) ==
    /\ e \in [version : Nat \X Nat, result : Results]
    /\ e.result.blind \/ ~Blind(e.version, e.result)

CacheHonest == \A q \in Queries : cache.items[q] = None \/ Honest(cache.items[q])

ReadInv ==
    /\ DOMAIN job = Sessions
    /\ LogOrdered
    /\ gen \in Nat
    /\ "queries" \in DOMAIN budget /\ budget.queries \subseteq Queries
    /\ CacheHonest
    /\ \A s \in Sessions : Fits(job[s], wal.acked, gen) /\ Placed(s)

(* An entry that was not put blindly holds what its version stands for.           *)
LEMMA HonestEntry ==
    ASSUME NEW e, NEW d, NEW g, Honest(e), e.version = <<d, g>>
    PROVE  /\ e.result \in Results
           /\ ~e.result.blind => 1 .. d \subseteq e.result.saw /\ ~(e.result.plan < g)
BY DEF Honest, Blind

(* A plan that is not older than the catalog is not older than what was seen of it. *)
LEMMA NotBelow == \A x, g, p \in Nat : x <= g /\ ~(p < g) => x <= p
OBVIOUS

(* A session without a statement has answered nothing.                           *)
LEMMA NoJobFits ==
    ASSUME NEW acked, NEW g \in Nat
    PROVE  Fits(NoJob, acked, g) /\ NoJob.commit = 0
<1>1. JobTyped(NoJob)
  BY DEF JobTyped, NoJob, NoResult, Results, Stmts
<1>2. /\ NoJob.stmt = "none" /\ NoJob.acked = {} /\ NoJob.from = 0 /\ NoJob.answered = FALSE
      /\ NoJob.commit = 0
  BY DEF NoJob
<1> QED BY <1>1, <1>2 DEF Fits

(* A place in a queue changes nothing of what the statement knows.               *)
LEMMA TicketFits ==
    ASSUME NEW acked, NEW g, NEW j, Fits(j, acked, g), NEW x
    PROVE  Fits([j EXCEPT !.ticket = x], acked, g) /\ [j EXCEPT !.ticket = x].commit = j.commit
  BY DEF Fits, JobTyped

(* Nothing has been issued, appended or stored.                                  *)
LEMMA InitReadInv == Init => ReadInv
<1> SUFFICES ASSUME Init PROVE ReadInv
  OBVIOUS
<1>1. "queries" \in DOMAIN budget /\ budget.queries \subseteq Queries
  BY QueriesAssumption DEF Init
<1>2. LogOrdered /\ gen \in Nat
  BY DEF Init, LogOrdered
<1>3. DOMAIN job = Sessions /\ \A s \in Sessions : job[s] = NoJob /\ se[s].pc = "idle"
  BY DEF Init, Idle
<1>4. \A s \in Sessions : Fits(job[s], wal.acked, gen) /\ Placed(s)
  BY <1>2, <1>3, NoJobFits DEF Placed
<1>5. CacheHonest
  BY DEF Init, CacheHonest
<1> QED BY <1>1, <1>2, <1>3, <1>4, <1>5 DEF ReadInv

(* The log and the catalog only grow.                                            *)
Grows ==
    /\ LogOrdered' /\ gen' \in Nat /\ gen <= gen'
    /\ wal.log <= wal'.log /\ wal.durable <= wal'.durable
    /\ wal.visible \subseteq wal'.visible /\ wal.acked \subseteq wal'.acked

(* What a statement knows is not undone by what others do.                       *)
LEMMA FitsOn ==
    ASSUME NEW acked, NEW g \in Nat, NEW a, NEW h \in Nat, acked \subseteq a, g <= h,
           NEW j, Fits(j, acked, g)
    PROVE  Fits(j, a, h)
<1>1. j.from \in Nat
  BY DEF Fits, JobTyped
<1>2. j.acked \subseteq a /\ j.from <= h
  BY <1>1 DEF Fits
<1> QED BY <1>2 DEF Fits

(* A step of one session preserves the invariant if the log, the catalog and the *)
(* cache stay what they should be and so does its own statement.                 *)
LEMMA ReadMove ==
    ASSUME ReadInv, Grows, NEW s \in Sessions, DOMAIN job' = Sessions,
           \A t \in Sessions \ {s} : se'[t] = se[t] /\ job'[t] = job[t],
           "queries" \in DOMAIN budget' /\ budget'.queries = budget.queries,
           CacheHonest', Fits(job'[s], wal'.acked, gen'), Placed(s)'
    PROVE  ReadInv'
<1>1. ASSUME NEW t \in Sessions, t # s PROVE Fits(job'[t], wal'.acked, gen') /\ Placed(t)'
  <2>1. Fits(job[t], wal.acked, gen) /\ Placed(t) /\ LogOrdered /\ gen \in Nat
        /\ se'[t] = se[t] /\ job'[t] = job[t]
    BY <1>1 DEF ReadInv
  <2>2. Fits(job'[t], wal'.acked, gen')
    BY <2>1, FitsOn, ZenonT(40) DEF Grows
  <2>3. Placed(t)'
    BY <2>1 DEF Placed, Grows, LogOrdered
  <2> QED BY <2>2, <2>3
<1>2. \A t \in Sessions : Fits(job'[t], wal'.acked, gen') /\ Placed(t)'
  BY <1>1
<1> QED BY <1>2 DEF ReadInv, Grows

(* Spending leaves the queries of the workload alone.                            *)
LEMMA SpendKeepsQueries ==
    ASSUME ReadInv, NEW k, k # "queries", budget' = budget \/ Spend(k)
    PROVE  "queries" \in DOMAIN budget' /\ budget'.queries = budget.queries
  BY DEF ReadInv, Spend

(* A step that reads and commits nothing.                                        *)
LEMMA QuietMove ==
    ASSUME ReadInv, UNCHANGED <<wal, gen, cache>>, NEW s \in Sessions, DOMAIN job' = Sessions,
           \A t \in Sessions \ {s} : se'[t] = se[t] /\ job'[t] = job[t],
           "queries" \in DOMAIN budget' /\ budget'.queries = budget.queries,
           Fits(job'[s], wal.acked, gen), job'[s].commit \in wal.visible \cup {0},
           se'[s].pc \notin {"bound", "read", "flush", "complete"}
    PROVE  ReadInv'
<1>1. Grows
  BY DEF ReadInv, Grows, LogOrdered
<1>2. CacheHonest'
  BY DEF ReadInv, CacheHonest
<1>3. Placed(s)'
  BY DEF Placed
<1> QED BY <1>1, <1>2, <1>3, ReadMove

(* Transactions, their locks and the way out of them: the statement stays as it   *)
(* is, and nothing is read or committed.                                          *)
LEMMA QuietSteps ==
    ASSUME IInv, ReadInv, NEW s \in Sessions,
           \/ TakeGrant(s) \/ resourceGroupGate(s) \/ ReleaseGroup(s)
           \/ begin(s) \/ Lock(s) \/ WaitForLock(s) \/ CancelLock(s)
           \/ Rollback(s) \/ TxnTimeout(s) \/ Teardown(s)
    PROVE  ReadInv'
<1>0. /\ se \in [Sessions -> SessionRec] /\ DOMAIN job = Sessions
      /\ Fits(job[s], wal.acked, gen) /\ Placed(s)
  BY ZenonT(40) DEF IInv, Typed, SessionRec, ReadInv
<1>1. UNCHANGED <<wal, gen, cache>>
  BY Zenon DEF TakeGrant, resourceGroupGate, ReleaseGroup, begin, Lock, WaitForLock, CancelLock,
     Rollback, TxnTimeout, Teardown, abort
<1>2. "queries" \in DOMAIN budget' /\ budget'.queries = budget.queries
  <2>1. budget' = budget \/ \E k \in {"expire", "timeout", "teardown"} : Spend(k)
    BY Zenon DEF TakeGrant, resourceGroupGate, ReleaseGroup, begin, Lock, WaitForLock, CancelLock,
       Rollback, TxnTimeout, Teardown
  <2> QED BY <2>1, SpendKeepsQueries
<1>3. se[s].pc \notin {"flush", "complete", "bound", "read"}
  BY Zenon DEF TakeGrant, resourceGroupGate, ReleaseGroup, begin, Lock, Locking, WaitForLock,
     CancelLock, Rollback, TxnTimeout, Teardown
<1>4. job[s].commit \in wal.visible \cup {0}
  BY <1>0, <1>3, Zenon DEF Placed
<1>5. CASE TakeGrant(s)
  <2>1. /\ DOMAIN job' = Sessions /\ job'[s] = [job[s] EXCEPT !.ticket = 0]
        /\ \A t \in Sessions \ {s} : se'[t] = se[t] /\ job'[t] = job[t]
        /\ se'[s].pc \notin {"bound", "read", "flush", "complete"}
    BY <1>0, <1>5 DEF TakeGrant, Through, SessionRec
  <2>2. Fits(job'[s], wal.acked, gen) /\ job'[s].commit = job[s].commit
    BY <1>0, <2>1, TicketFits
  <2> QED BY <1>1, <1>2, <1>4, <2>1, <2>2, QuietMove, Zenon
<1>6. CASE ~TakeGrant(s)
  <2>1. job' = job
    BY <1>6, ZenonT(40) DEF resourceGroupGate, ReleaseGroup, begin, Lock, WaitForLock, CancelLock,
       Rollback, TxnTimeout, Teardown, abort
  <2>2. (\A t \in Sessions \ {s} : se'[t] = se[t]) /\ se'[s].pc \notin {"bound", "read", "flush", "complete"}
    <3>1. CASE resourceGroupGate(s) \/ ReleaseGroup(s)
      BY <1>0, <1>3, <3>1 DEF resourceGroupGate, ReleaseGroup, SessionRec
    <3>2. CASE begin(s) \/ Lock(s) \/ WaitForLock(s) \/ CancelLock(s)
      BY <1>0, <3>2 DEF begin, Lock, WaitForLock, CancelLock, Finished, AfterStatement, SessionRec
    <3>3. CASE Rollback(s) \/ TxnTimeout(s) \/ Teardown(s)
      BY <1>0, <3>3 DEF Rollback, TxnTimeout, Teardown, abort, SessionRec
    <3> QED BY <1>6, <3>1, <3>2, <3>3
  <2> QED BY <1>0, <1>1, <1>2, <1>4, <2>1, <2>2, QuietMove, ZenonT(40)
<1> QED BY <1>5, <1>6

(* Whether a gate lets a statement in, queues it or turns it away.                *)
LEMMA AcquireReads ==
    ASSUME IInv, ReadInv, NEW s \in Sessions, NEW g \in Gates, NEW jb, acquire(s, g, jb),
           Fits(jb, wal.acked, gen), jb.commit \in wal.visible \cup {0},
           UNCHANGED <<wal, gen, cache>>,
           "queries" \in DOMAIN budget' /\ budget'.queries = budget.queries
    PROVE  ReadInv'
<1>0. se \in [Sessions -> SessionRec] /\ DOMAIN job = Sessions /\ gen \in Nat
  BY ZenonT(40) DEF IInv, Typed, SessionRec, ReadInv
<1>1. CASE EnterGate(s, g, jb)
  <2>1. /\ DOMAIN job' = Sessions /\ job'[s] = jb
        /\ \A t \in Sessions \ {s} : se'[t] = se[t] /\ job'[t] = job[t]
        /\ se'[s].pc \notin {"bound", "read", "flush", "complete"}
    BY <1>0, <1>1 DEF EnterGate, Through, SessionRec
  <2> QED BY <2>1, QuietMove
<1>2. CASE JoinQueue(s, g, jb)
  <2>1. /\ DOMAIN job' = Sessions /\ job'[s] = [jb EXCEPT !.ticket = NextTicket(g)]
        /\ \A t \in Sessions \ {s} : se'[t] = se[t] /\ job'[t] = job[t]
        /\ se'[s].pc \notin {"bound", "read", "flush", "complete"}
    BY <1>0, <1>2 DEF JoinQueue, SessionRec
  <2>2. Fits(job'[s], wal.acked, gen) /\ job'[s].commit = jb.commit
    BY <2>1, TicketFits
  <2> QED BY <2>1, <2>2, QuietMove, ZenonT(40)
<1>3. CASE Refuse(s, g)
  <2>1. /\ DOMAIN job' = Sessions /\ job'[s] = NoJob
        /\ \A t \in Sessions \ {s} : se'[t] = se[t] /\ job'[t] = job[t]
        /\ se'[s].pc \notin {"bound", "read", "flush", "complete"}
    BY <1>0, <1>3 DEF Refuse, TurnedAway, Idle
  <2>2. Fits(job'[s], wal.acked, gen) /\ job'[s].commit = 0
    BY <1>0, <2>1, NoJobFits
  <2> QED BY <2>1, <2>2, QuietMove
<1> QED BY <1>1, <1>2, <1>3 DEF acquire

(* A statement is issued knowing what is acknowledged by then.                    *)
LEMMA IssuedFits ==
    ASSUME ReadInv, NEW s \in Sessions, NEW stmt \in Stmts, NEW arg,
           stmt = "select" => arg \in Queries
    PROVE  Fits(Issued(s, stmt, arg), wal.acked, gen) /\ Issued(s, stmt, arg).commit = 0
<1>1. JobTyped(job[s]) /\ gen \in Nat /\ wal.acked \in SUBSET Nat
  BY DEF ReadInv, Fits, LogOrdered
<1>2. /\ Issued(s, stmt, arg).stmt = stmt /\ Issued(s, stmt, arg).arg = arg
      /\ Issued(s, stmt, arg).commit = 0 /\ Issued(s, stmt, arg).answered = FALSE
      /\ Issued(s, stmt, arg).acked = wal.acked /\ Issued(s, stmt, arg).from = gen
  BY <1>1 DEF Issued, JobTyped
<1>3. NoResult \in Results
  BY DEF NoResult, Results
<1>4. JobTyped(Issued(s, stmt, arg))
  BY <1>1, <1>3, Zenon DEF Issued, JobTyped
<1> QED BY <1>1, <1>2, <1>4 DEF Fits

(* Admission of a statement, at the process gate and at the group's.              *)
LEMMA AdmissionReads ==
    ASSUME IInv, ReadInv, NEW s \in Sessions,
           ExecContext(s) \/ AskGroup(s) \/ cancelWaiter(s)
    PROVE  ReadInv'
<1>0. /\ se \in [Sessions -> SessionRec] /\ DOMAIN job = Sessions /\ gen \in Nat
      /\ Fits(job[s], wal.acked, gen) /\ Placed(s) /\ Process \in Gates
  BY BoundsAssumption DEF IInv, Typed, SessionRec, ReadInv, Process, Gates
<1>1. CASE ExecContext(s)
  <2>1. PICK stmt \in Legal(s) : /\ Spend(stmt)
                                 /\ \E arg \in CASE stmt \in {"write", "ddl"} -> budget.keys
                                                 [] stmt = "select" -> budget.queries
                                                 [] OTHER -> {None} :
                                       Admit(s, Issued(s, stmt, arg))
    BY <1>1 DEF ExecContext
  <2>2. stmt \in Stmts /\ stmt # "queries"
    BY DEF Legal, Stmts
  <2>3. PICK arg : Admit(s, Issued(s, stmt, arg)) /\ (stmt = "select" => arg \in Queries)
    BY <2>1 DEF ReadInv
  <2>4. Fits(Issued(s, stmt, arg), wal.acked, gen) /\ Issued(s, stmt, arg).commit = 0
    BY <2>2, <2>3, IssuedFits
  <2>5. UNCHANGED <<wal, gen, cache>> /\ "queries" \in DOMAIN budget' /\ budget'.queries = budget.queries
    BY <1>1, <2>1, <2>2, SpendKeepsQueries, ZenonT(40) DEF ExecContext
  <2>6. CASE acquire(s, Process, Issued(s, stmt, arg))
    BY <1>0, <2>4, <2>5, <2>6, AcquireReads
  <2>7. CASE /\ se' = [se EXCEPT ![s].pc = "run"]
             /\ job' = [job EXCEPT ![s] = Issued(s, stmt, arg)]
    <3>1. /\ DOMAIN job' = Sessions /\ job'[s] = Issued(s, stmt, arg)
          /\ \A t \in Sessions \ {s} : se'[t] = se[t] /\ job'[t] = job[t]
          /\ se'[s].pc \notin {"bound", "read", "flush", "complete"}
      BY <1>0, <2>7 DEF SessionRec
    <3> QED BY <2>4, <2>5, <3>1, QuietMove, Zenon
  <2> QED BY <2>3, <2>6, <2>7 DEF Admit
<1>2. CASE AskGroup(s)
  <2>1. acquire(s, se[s].at, job[s]) /\ se[s].at \in Gates /\ UNCHANGED <<wal, gen, cache, budget>>
    BY <1>0, <1>2 DEF AskGroup, SessionRec
  <2>2. job[s].commit \in wal.visible \cup {0}
    <3>1. se[s].pc = "ask" /\ Placed(s)
      BY <1>0, <1>2, Zenon DEF AskGroup
    <3> QED BY <3>1, Zenon DEF Placed
  <2>3. "queries" \in DOMAIN budget' /\ budget'.queries = budget.queries
    BY <2>1, ZenonT(40) DEF ReadInv
  <2> QED BY <1>0, <2>1, <2>2, <2>3, AcquireReads, ZenonT(40)
<1>3. CASE cancelWaiter(s)
  <2>1. /\ DOMAIN job' = Sessions /\ job'[s] = NoJob
        /\ \A t \in Sessions \ {s} : se'[t] = se[t] /\ job'[t] = job[t]
        /\ se'[s].pc \notin {"bound", "read", "flush", "complete"} /\ UNCHANGED <<wal, gen, cache>>
    BY <1>0, <1>3 DEF cancelWaiter, TurnedAway, Idle
  <2>2. Fits(job'[s], wal.acked, gen) /\ job'[s].commit = 0
    BY <1>0, <2>1, NoJobFits
  <2>3. "queries" \in DOMAIN budget' /\ budget'.queries = budget.queries
    BY <1>3, SpendKeepsQueries DEF cancelWaiter
  <2> QED BY <2>1, <2>2, <2>3, QuietMove, Zenon
<1> QED BY <1>1, <1>2, <1>3

(* A commit is appended, made durable, made visible and acknowledged, in this     *)
(* order; a schema change is published after its commit.                          *)
LEMMA CommitReads ==
    ASSUME IInv, ReadInv, NEW s \in Sessions,
           \/ prepareDeferredCommit(s) \/ Flush(s) \/ completeCommit(s) \/ Publish(s)
           \/ ReleaseProcess(s)
    PROVE  ReadInv'
<1>0. /\ se \in [Sessions -> SessionRec] /\ DOMAIN job = Sessions /\ gen \in Nat /\ LogOrdered
      /\ Fits(job[s], wal.acked, gen) /\ Placed(s) /\ CacheHonest
  BY DEF IInv, Typed, SessionRec, ReadInv
<1>1. /\ UNCHANGED <<cache, budget>> /\ CacheHonest'
      /\ "queries" \in DOMAIN budget' /\ budget'.queries = budget.queries
  BY <1>0 DEF prepareDeferredCommit, Flush, completeCommit, Publish, ReleaseProcess, ReadInv,
     CacheHonest
<1>2. CASE prepareDeferredCommit(s)
  <2>1. /\ wal' = [wal EXCEPT !.log = @ + 1] /\ gen' = gen
        /\ DOMAIN job' = Sessions /\ job'[s] = [job[s] EXCEPT !.commit = wal.log + 1]
        /\ \A t \in Sessions \ {s} : se'[t] = se[t] /\ job'[t] = job[t]
        /\ se'[s].pc = "flush"
    BY <1>0, <1>2 DEF prepareDeferredCommit, SessionRec
  <2>2. Grows
    BY <1>0, <2>1 DEF Grows, LogOrdered
  <2>3. Fits(job'[s], wal'.acked, gen') /\ job'[s].commit = wal.log + 1
    BY <1>0, <2>1 DEF Fits, JobTyped, LogOrdered
  <2>4. Placed(s)'
    BY <1>0, <2>1, <2>3 DEF Placed, LogOrdered
  <2> QED BY <1>1, <2>1, <2>2, <2>3, <2>4, ReadMove
<1>3. CASE Flush(s)
  <2>1. /\ wal' = IF wal.durable < job[s].commit THEN [wal EXCEPT !.durable = wal.log] ELSE wal
        /\ gen' = gen /\ job' = job
        /\ \A t \in Sessions \ {s} : se'[t] = se[t]
        /\ se[s].pc = "flush" /\ se'[s].pc = "complete"
    BY <1>0, <1>3 DEF Flush, SessionRec
  <2>2. Grows /\ wal'.acked = wal.acked
    BY <1>0, <2>1 DEF Grows, LogOrdered
  <2>3. job[s].commit \in Nat
    BY <1>0 DEF Fits, JobTyped
  <2>4. Placed(s)'
    BY <1>0, <2>1, <2>3 DEF Placed, LogOrdered
  <2> QED BY <1>0, <1>1, <2>1, <2>2, <2>4, ReadMove
<1>4. CASE completeCommit(s)
  <2>1. /\ wal' = [wal EXCEPT !.visible = @ \cup {job[s].commit}]
        /\ gen' = gen /\ job' = job
        /\ \A t \in Sessions \ {s} : se'[t] = se[t]
        /\ se[s].pc = "complete" /\ se'[s].pc \in {"publish", "release"}
    BY <1>0, <1>4 DEF completeCommit, SessionRec
  <2>2. Grows /\ wal'.acked = wal.acked
    BY <1>0, <2>1 DEF Grows, LogOrdered, Placed
  <2>3. Placed(s)'
    BY <1>0, <2>1 DEF Placed, LogOrdered
  <2> QED BY <1>0, <1>1, <2>1, <2>2, <2>3, ReadMove
<1>5. CASE Publish(s)
  <2>1. /\ gen' = gen + 1 /\ wal' = wal /\ job' = job
        /\ \A t \in Sessions \ {s} : se'[t] = se[t]
        /\ se[s].pc = "publish" /\ se'[s].pc = "release"
    BY <1>0, <1>5 DEF Publish, SessionRec
  <2>2. Grows
    BY <1>0, <2>1 DEF Grows, LogOrdered
  <2>3. Fits(job'[s], wal'.acked, gen')
    BY <1>0, <2>1, <2>2, FitsOn, ZenonT(40) DEF Grows
  <2>4. Placed(s)'
    BY <1>0, <2>1, Zenon DEF Placed
  <2> QED BY <1>0, <1>1, <2>1, <2>2, <2>3, <2>4, ReadMove, Zenon
<1>6. CASE ReleaseProcess(s)
  <2>1. /\ wal' = [wal EXCEPT !.acked = @ \cup ({job[s].commit} \ {0})] /\ gen' = gen
        /\ DOMAIN job' = Sessions /\ job'[s] = NoJob
        /\ \A t \in Sessions \ {s} : se'[t] = se[t] /\ job'[t] = job[t]
        /\ se[s].pc = "release" /\ se'[s].pc = "idle"
    BY <1>0, <1>6 DEF ReleaseProcess, Idle
  <2>2. Grows
    BY <1>0, <2>1 DEF Grows, LogOrdered, Placed
  <2>3. Fits(job'[s], wal'.acked, gen') /\ job'[s].commit = 0
    BY <1>0, <2>1, NoJobFits
  <2>4. Placed(s)'
    BY <2>1, <2>3 DEF Placed
  <2> QED BY <1>1, <2>1, <2>2, <2>3, <2>4, ReadMove
<1> QED BY <1>2, <1>3, <1>4, <1>5, <1>6, ZenonT(40)

(* A SELECT: planned, answered from an entry that is current or from a snapshot,  *)
(* and stored under the version it was looked up with.                            *)
LEMMA SelectReads ==
    ASSUME IInv, ReadInv, NEW s \in Sessions, Bind(s) \/ get(s) \/ startRead(s) \/ put(s)
    PROVE  ReadInv'
<1>0. /\ se \in [Sessions -> SessionRec] /\ DOMAIN job = Sessions /\ gen \in Nat /\ LogOrdered
      /\ Fits(job[s], wal.acked, gen) /\ JobTyped(job[s]) /\ Placed(s) /\ CacheHonest
  BY Zenon DEF IInv, Typed, SessionRec, ReadInv, Fits
<1>1. /\ UNCHANGED <<wal, gen, budget>>
      /\ "queries" \in DOMAIN budget' /\ budget'.queries = budget.queries
  BY DEF Bind, get, startRead, put, ReadInv
<1>2. Grows
  BY <1>0, <1>1 DEF Grows, LogOrdered
<1>3. job[s].commit \in wal.visible \cup {0}
  BY <1>0 DEF Placed, Bind, get, startRead, put
<1>4. CASE Bind(s)
  <2>1. /\ DOMAIN job' = Sessions /\ job'[s] = [job[s] EXCEPT !.plan = gen] /\ cache' = cache
        /\ \A t \in Sessions \ {s} : se'[t] = se[t] /\ job'[t] = job[t]
        /\ se'[s].pc = "bound" /\ job[s].stmt = "select"
    BY <1>0, <1>4 DEF Bind, SessionRec
  <2>2. /\ Fits(job'[s], wal'.acked, gen') /\ job'[s].commit = job[s].commit
        /\ job'[s].stmt = "select" /\ job'[s].from <= job'[s].plan
    BY <1>0, <1>1, <2>1 DEF Fits, JobTyped
  <2>3. Placed(s)' /\ CacheHonest'
    BY <1>0, <1>1, <1>3, <2>1, <2>2, ZenonT(40) DEF Placed, CacheHonest
  <2> QED BY <1>1, <1>2, <2>1, <2>2, <2>3, ReadMove
<1>5. CASE get(s)
  <2> DEFINE q == job[s].arg
             e == cache.items[q]
  <2>1. cache' = cache /\ CacheHonest' /\ se[s].pc = "bound" /\ q \in Queries
    BY <1>0, <1>5 DEF get, CacheHonest, Placed, Fits
  <2>2. CASE /\ Hit(q, resultVersion)
             /\ se' = [se EXCEPT ![s].pc = "release"]
             /\ job' = [job EXCEPT ![s].result = e.result, ![s].answered = TRUE]
    <3>1. Honest(e) /\ e.version = <<wal.durable, gen>>
      BY <1>0, <2>1, <2>2 DEF Hit, CacheHonest, resultVersion
    <3>2. /\ DOMAIN job' = Sessions /\ se'[s].pc = "release"
          /\ job'[s] = [job[s] EXCEPT !.result = e.result, !.answered = TRUE]
          /\ \A t \in Sessions \ {s} : se'[t] = se[t] /\ job'[t] = job[t]
      BY <1>0, <2>2 DEF SessionRec
    <3>3. /\ e.result \in Results
          /\ ~e.result.blind => 1 .. wal.durable \subseteq e.result.saw /\ ~(e.result.plan < gen)
      BY <3>1, HonestEntry, ZenonT(40)
    <3>4. \/ job[s].acked \subseteq e.result.saw /\ job[s].from <= e.result.plan
          \/ e.result.blind
      <4>1. CASE ~e.result.blind
        <5>1. 1 .. wal.durable \subseteq e.result.saw /\ ~(e.result.plan < gen)
          BY <3>3, <4>1, Zenon
        <5>2. job[s].acked \subseteq 1 .. wal.durable
          BY <1>0 DEF Fits, LogOrdered
        <5>3. job[s].from <= gen /\ job[s].from \in Nat /\ e.result.plan \in Nat
          BY <1>0, <3>3, ZenonT(40) DEF Fits, JobTyped, Results
        <5>4. job[s].from <= e.result.plan
          BY <1>0, <5>1, <5>3, NotBelow, Zenon
        <5> QED BY <5>1, <5>2, <5>4, ZenonT(40)
      <4> QED BY <4>1, ZenonT(40)
    <3> HIDE DEF e
    <3>5. Fits(job'[s], wal'.acked, gen') /\ job'[s].commit = job[s].commit
      BY <1>0, <1>1, <3>2, <3>3, <3>4, ZenonT(40) DEF Fits, JobTyped
    <3>6. Placed(s)'
      BY <1>1, <1>3, <3>2, <3>5 DEF Placed
    <3> QED BY <1>1, <1>2, <2>1, <3>2, <3>5, <3>6, ReadMove
  <2>3. CASE /\ se' = [se EXCEPT ![s].pc = "read"]
             /\ job' = [job EXCEPT ![s].version = resultVersion]
    <3>1. /\ DOMAIN job' = Sessions /\ se'[s].pc = "read"
          /\ job'[s] = [job[s] EXCEPT !.version = <<wal.durable, gen>>]
          /\ \A t \in Sessions \ {s} : se'[t] = se[t] /\ job'[t] = job[t]
      BY <1>0, <2>3 DEF SessionRec, resultVersion
    <3>2. <<wal.durable, gen>> \in Nat \X Nat
      BY <1>0 DEF LogOrdered
    <3>3. /\ Fits(job'[s], wal'.acked, gen') /\ job'[s].commit = job[s].commit
          /\ job'[s].from <= job'[s].plan
      BY <1>0, <1>1, <2>1, <3>1, <3>2 DEF Fits, JobTyped, Placed
    <3>4. Placed(s)'
      BY <1>1, <1>3, <3>1, <3>3 DEF Placed
    <3> QED BY <1>1, <1>2, <2>1, <3>1, <3>3, <3>4, ReadMove
  <2> QED BY <1>5, <2>2, <2>3 DEF get
<1>6. CASE startRead(s)
  <2> DEFINE r == [saw |-> wal.visible, plan |-> job[s].plan, blind |-> FALSE]
  <2>1. /\ DOMAIN job' = Sessions /\ job'[s] = [job[s] EXCEPT !.result = r, !.answered = TRUE]
        /\ \A t \in Sessions \ {s} : se'[t] = se[t] /\ job'[t] = job[t]
        /\ se'[s].pc = "store" /\ cache' = cache /\ se[s].pc = "read"
    BY <1>0, <1>6 DEF startRead, SessionRec
  <2>2. r \in Results /\ job[s].acked \subseteq r.saw /\ job[s].from <= r.plan
    BY <1>0, <2>1 DEF Results, Fits, JobTyped, LogOrdered, Placed
  <2> HIDE DEF r
  <2>3. Fits(job'[s], wal'.acked, gen') /\ job'[s].commit = job[s].commit
    BY <1>0, <1>1, <2>1, <2>2, ZenonT(40) DEF Fits, JobTyped
  <2>4. Placed(s)' /\ CacheHonest'
    BY <1>0, <1>1, <1>3, <2>1, <2>3, ZenonT(40) DEF Placed, CacheHonest
  <2> QED BY <1>1, <1>2, <2>1, <2>3, <2>4, ReadMove
<1>7. CASE put(s)
  <2> DEFINE v == job[s].version
             r == job[s].result
             e == [version |-> v, result |-> [r EXCEPT !.blind = Blind(v, r)]]
  <2>1. /\ job' = job /\ se'[s].pc = "release" /\ \A t \in Sessions \ {s} : se'[t] = se[t]
    BY <1>0, <1>7 DEF put, SessionRec
  <2>2. Honest(e)
    BY <1>0, Zenon DEF Honest, JobTyped, Results, Blind
  <2>3. CacheHonest'
    <3>1. CASE cache' = cache
      BY <1>0, <3>1 DEF CacheHonest
    <3>2. CASE cache' = Stored(job[s].arg, v, r)
      <4>1. \A q \in Queries : cache'.items[q] \in {e, None, cache.items[q]}
        BY <3>2 DEF Stored
      <4> QED BY <1>0, <2>2, <4>1 DEF CacheHonest
    <3> QED BY <1>7, <3>1, <3>2 DEF put
  <2>4. Placed(s)'
    BY <1>1, <1>3, <2>1, Zenon DEF Placed
  <2> QED BY <1>0, <1>1, <1>2, <2>1, <2>3, <2>4, ReadMove
<1> QED BY <1>4, <1>5, <1>6, <1>7

(* Every step preserves what is known about reads.                                *)
LEMMA NextReadInv == IInv /\ ReadInv /\ [Next]_vars => ReadInv'
<1> SUFFICES ASSUME IInv, ReadInv, [Next]_vars PROVE ReadInv'
  OBVIOUS
<1>1. ASSUME UNCHANGED <<se, job, wal, gen, cache>>, budget' = budget \/ Spend("alter")
      PROVE  ReadInv'
  <2>1. "queries" \in DOMAIN budget' /\ budget'.queries = budget.queries
    BY <1>1, SpendKeepsQueries
  <2> QED BY <1>1, <2>1, Zenon DEF ReadInv, LogOrdered, CacheHonest, Placed
<1>2. CASE putResourceGroup
  BY <1>1, <1>2 DEF putResourceGroup
<1>3. CASE UNCHANGED vars
  BY <1>1, <1>3 DEF vars
<1>4. ASSUME NEW s \in Sessions,
             \/ Step(s) \/ ExecContext(s)
             \/ cancelWaiter(s) \/ CancelLock(s) \/ TxnTimeout(s) \/ Teardown(s)
      PROVE  ReadInv'
  BY <1>4, QuietSteps, AdmissionReads, CommitReads, SelectReads DEF Step
<1> QED BY <1>2, <1>3, <1>4 DEF Next

(* Every SELECT shows what was acknowledged when it was issued, unless the entry  *)
(* it finds is one of the blind ones, for every number of sessions, of queries,   *)
(* of schema changes and of cache entries.                                        *)
THEOREM ReadsAlwaysAcknowledged == Spec => []ReadsAcknowledged
<1>1. ReadInv => ReadsAcknowledged
  BY DEF ReadInv, ReadsAcknowledged, Fits, Fresh
<1> QED BY <1>1, InitReadInv, NextReadInv, Invariance, PTL DEF Spec

=============================================================================
