-------------------------------- MODULE Cdc --------------------------------
(***************************************************************************)
(* Change streams: the records the engine logs at commit                   *)
(* (internal/storage/engine.go), the log's visible and durable ends, its   *)
(* retention and its bounded scan (internal/wal/log.go), the decoder and   *)
(* the pull subscription (internal/cdc/cdc.go, internal/executor/cdc.go),  *)
(* and consumers that persist a resume token and come back with it.        *)
(*                                                                         *)
(* A record's LSN is its place in the log.  A change is the table it is    *)
(* about.  Only the records the decoder tells apart are kept: changes,     *)
(* commits and aborts; the records of a checkpoint are one commit of a     *)
(* system transaction.  The wait for a quorum, with the commit records of  *)
(* a batch held back, is the module Replication's.                         *)
(***************************************************************************)
EXTENDS Integers, FiniteSets, FiniteSetsExt, Sequences, SequencesExt

CONSTANTS
    Consumers,       \* the clients that subscribe
    Wanted,          \* the table they subscribe to
    MaxPending,      \* Limits.MaxPendingBytes, in changes
    ScanRecords,     \* Limits.ScanRecords
    SegmentRecords,  \* the records of one WAL segment
    Workloads

VARIABLES
    log,    \* the records appended, by LSN
    disk,   \* how much of it a reader sees, what is durable, the redo point
    oldest, \* the first LSN still retained
    eng,    \* what the holder of the engine's mutex has still to append
    tx,     \* tx[t]: the state of a transaction and the changes it staged
    sub,    \* sub[c]: the subscription of a consumer
    con,    \* con[c]: what a consumer has persisted and processed
    budget  \* how many of each bounded event may still happen

vars == <<log, disk, oldest, eng, tx, sub, con, budget>>

Workload == [shapes : Seq(Seq(STRING)), repl : BOOLEAN, rollbacks : Nat, checkpoints : Nat,
             trims : Nat, subscribes : Nat, crashes : Nat]

ASSUME LimitsAssumption == /\ MaxPending \in Nat \ {0} /\ ScanRecords \in Nat \ {0}
                           /\ SegmentRecords \in Nat \ {0}
ASSUME WorkloadsAssumption == \A w \in Workloads : \A s \in Range(w.shapes) : Len(s) <= MaxPending

Sys == 0
Txn == DOMAIN tx

Spend(what) == budget[what] > 0 /\ budget' = [budget EXCEPT ![what] = @ - 1]

\* The last record of t, to which its next one is linked.
prev(t) == Max({i \in DOMAIN log : log[i].txn = t} \cup {0})

Rec(t, type, table) == [txn |-> t, type |-> type, table |-> table, prev |-> prev(t)]

----------------------------------------------------------------------------
(* Transactions and the log                                                *)

\* appendCommitBodyLocked: the staged changes, then the commit record.
Body(t) == [i \in DOMAIN tx[t].shape |-> [txn |-> t, type |-> "change", table |-> tx[t].shape[i]]]
CommitRec(t) == [txn |-> t, type |-> "commit", table |-> ""]

Settle(ts, st) == [t \in Txn |-> IF t \in ts THEN [tx[t] EXCEPT !.st = st] ELSE tx[t]]

\* A commit of its own, and a batch for the replicator: all the bodies first.
CommitUnreplicated(t) ==
    /\ ~budget.repl /\ eng = <<>> /\ tx[t].st = "open"
    /\ eng' = Append(Body(t), CommitRec(t))
    /\ tx' = Settle({t}, "committing")
    /\ UNCHANGED <<log, disk, oldest, sub, con, budget>>

ExecuteReplBatch(ts) ==
    /\ budget.repl /\ eng = <<>> /\ ts # {} /\ \A t \in ts : tx[t].st = "open"
    /\ LET batch == SetToSortSeq(ts, <)
       IN eng' = FlattenSeq([i \in DOMAIN batch |-> Body(batch[i])])
                   \o [i \in DOMAIN batch |-> CommitRec(batch[i])]
    /\ tx' = Settle(ts, "committing")
    /\ UNCHANGED <<log, disk, oldest, sub, con, budget>>

\* One append at a time takes the log's mutex.
AppendNext ==
    /\ eng # <<>>
    /\ LET r == Head(eng) IN
         /\ log' = Append(log, Rec(r.txn, r.type, r.table))
         /\ tx' = IF r.type = "commit" THEN Settle({r.txn}, "wait") ELSE tx
    /\ eng' = Tail(eng)
    /\ UNCHANGED <<disk, oldest, sub, con, budget>>

\* A rollback logs its abort record without the engine's mutex.
RollbackTxn(t) ==
    /\ tx[t].st = "open"
    /\ Spend("rollbacks")
    /\ log' = Append(log, Rec(t, "abort", ""))
    /\ tx' = Settle({t}, "aborted")
    /\ UNCHANGED <<disk, oldest, eng, sub, con>>

\* So does a checkpoint with its records; it installs its redo point once
\* they are durable.
Checkpoint ==
    /\ disk.ckpt = 0
    /\ Spend("checkpoints")
    /\ log' = Append(log, Rec(Sys, "commit", ""))
    /\ disk' = [disk EXCEPT !.ckpt = Len(log) + 1]
    /\ UNCHANGED <<oldest, eng, tx, sub, con>>

InstallCheckpoint ==
    /\ disk.ckpt # 0 /\ disk.durable >= disk.ckpt
    /\ disk' = [disk EXCEPT !.redo = disk.ckpt, !.ckpt = 0]
    /\ UNCHANGED <<log, oldest, eng, tx, sub, con, budget>>

\* A flush releases the log's mutex: what it has written can be read before
\* it is synced.
FlushWrite ==
    /\ \E w \in disk.written + 1 .. Len(log) : disk' = [disk EXCEPT !.written = w]
    /\ UNCHANGED <<log, oldest, eng, tx, sub, con, budget>>

FlushSync ==
    /\ disk.durable < disk.written
    /\ disk' = [disk EXCEPT !.durable = disk.written]
    /\ UNCHANGED <<log, oldest, eng, tx, sub, con, budget>>

Acknowledge(t) ==
    /\ tx[t].st = "wait" /\ prev(t) <= disk.durable
    /\ tx' = Settle({t}, "acked")
    /\ UNCHANGED <<log, disk, oldest, eng, sub, con, budget>>

----------------------------------------------------------------------------
(* Retention                                                               *)

\* retentionHorizonLocked: the redo point and every pin.
retentionHorizon == Min({disk.redo} \cup {sub[c].pin : c \in {d \in Consumers : sub[d].pin # 0}})

SegmentStarts == {i \in DOMAIN log : i % SegmentRecords = 1 % SegmentRecords}

\* Fault: pruning looks at the redo point only.
TrimUnpinned ==
    /\ Spend("trims")
    /\ \E s \in SegmentStarts : s > oldest /\ s <= disk.redo /\ oldest' = s
    /\ UNCHANGED <<log, disk, eng, tx, sub, con>>

\* TrimToCap, DiscardCheckpointedSegments, PruneArchivedBefore: whole segments,
\* each of which is followed by one that starts at or below the horizon.
Trim ==
    /\ Spend("trims")
    /\ \E s \in SegmentStarts : s > oldest /\ s <= retentionHorizon /\ oldest' = s
    /\ UNCHANGED <<log, disk, eng, tx, sub, con>>

----------------------------------------------------------------------------
(* The decoder                                                             *)

\* Decoder: the open transaction, the buffered changes' LSNs, their size.
NewDecoder == [open |-> Sys, pending |-> <<>>, bytes |-> 0]

None == [txn |-> Sys, lsn |-> 0, events |-> <<>>]

Of(t, lsns) == SelectSeq(lsns, LAMBDA i : log[i].txn = t)

\* The decoder without the buffer of t.
Without(d, t) ==
    [open |-> Sys, pending |-> SelectSeq(d.pending, LAMBDA i : log[i].txn # t),
     bytes |-> d.bytes - Len(Of(t, d.pending))]

\* Once a record of another transaction appears, the open batch is stranded.
Stranded(d, t) == IF d.open \in {Sys, t} THEN d ELSE Without(d, d.open)

\* Feed: the decoder after one record, and the transaction the record closes.
Feed(decoder, lsn) ==
    LET r == log[lsn]
        d == Stranded(decoder, r.txn)
        mine == Of(r.txn, d.pending)
        nothing == [d |-> d, out |-> None, err |-> FALSE]
    IN CASE r.type = "change" /\ d.bytes = MaxPending -> [nothing EXCEPT !.err = TRUE]
         [] r.type = "change" /\ d.bytes # MaxPending ->
              [nothing EXCEPT !.d = [open |-> r.txn, pending |-> Append(d.pending, lsn), bytes |-> d.bytes + 1]]
         [] r.type = "commit" /\ mine = <<>> -> nothing
         [] r.type = "commit" /\ mine # <<>> ->
              [d |-> Without(d, r.txn), err |-> r.prev # Last(mine),
               out |-> [txn |-> r.txn, lsn |-> lsn, events |-> [i \in DOMAIN mine |-> log[mine[i]].table]]]
         [] r.type = "abort" -> [nothing EXCEPT !.d = Without(d, r.txn)]

match(table) == table = Wanted

\* filterTransaction: the matching events, or nothing.
filterTransaction(out) ==
    LET events == SelectSeq(out.events, match)
    IN IF events = <<>> THEN None ELSE [out EXCEPT !.events = events]

----------------------------------------------------------------------------
(* Subscriptions                                                           *)

Off == [pc |-> "off", pin |-> 0, scan |-> 0, records |-> <<>>, decoder |-> NewDecoder,
        cur |-> None, out |-> <<>>]

\* Subscribe reads the oldest LSN and refuses a token older than that ...
Subscribe(c) ==
    /\ sub[c].pc = "off"
    /\ Spend("subscribes")
    /\ LET after == con[c].saved
       IN IF after # 0 /\ after + 1 < oldest
          THEN sub' = [sub EXCEPT ![c].pc = "expired"]
          ELSE sub' = [sub EXCEPT ![c].pc = "checked", ![c].scan = IF after = 0 THEN oldest - 1 ELSE after]
    /\ UNCHANGED <<log, disk, oldest, eng, tx, con>>

\* ... and pins what it needs in a second visit to the log.
PinRetention(c) ==
    /\ sub[c].pc = "checked"
    /\ sub' = [sub EXCEPT ![c].pc = "open", ![c].pin = sub[c].scan + 1]
    /\ con' = [con EXCEPT ![c].base = IF con[c].saved = 0 THEN sub[c].scan ELSE @,
                          ![c].raced = @ \/ oldest > sub[c].scan + 1]
    /\ UNCHANGED <<log, disk, oldest, eng, tx, budget>>

\* Fault: a scan waits until it can return as many records as it may.
ScanFullOnly(start) ==
    LET first == Max({start, oldest})
    IN IF first + ScanRecords - 1 <= disk.written
       THEN [i \in 1 .. ScanRecords |-> first + i - 1]
       ELSE <<>>

\* ScanFromLimit: the next records a reader sees, from the first retained on.
ScanFrom(start) ==
    LET first == Max({start, oldest})
        last == Min({disk.written, first + ScanRecords - 1})
    IN [i \in 1 .. last - first + 1 |-> first + i - 1]

NextScan(c) ==
    /\ sub[c].pc = "open" /\ sub[c].cur = None /\ sub[c].records = <<>>
    /\ ScanFrom(sub[c].scan + 1) # <<>>
    /\ sub' = [sub EXCEPT ![c].records = ScanFrom(sub[c].scan + 1)]
    /\ UNCHANGED <<log, disk, oldest, eng, tx, con, budget>>

\* Next: feed one scanned record; a matching transaction goes to the client.
NextFeed(c) ==
    /\ sub[c].pc = "open" /\ sub[c].cur = None /\ sub[c].records # <<>>
    /\ LET lsn == Head(sub[c].records)
           fed == Feed(sub[c].decoder, lsn)
           out == filterTransaction(fed.out)
       IN sub' = [sub EXCEPT ![c] =
            IF fed.err THEN [Off EXCEPT !.pc = "failed"]
            ELSE [@ EXCEPT !.scan = lsn, !.records = Tail(@), !.decoder = fed.d, !.cur = out,
                           !.out = IF out = None THEN @ ELSE Append(@, out)]]
    /\ UNCHANGED <<log, disk, oldest, eng, tx, con, budget>>

\* The client has processed the transaction and persists its token.
Persist(c) ==
    /\ sub[c].cur # None
    /\ con' = [con EXCEPT ![c].saved = sub[c].cur.lsn, ![c].got = @ \cup {sub[c].cur.txn}]
    /\ sub' = [sub EXCEPT ![c].cur = None]
    /\ UNCHANGED <<log, disk, oldest, eng, tx, budget>>

\* Close, on a cancelled context or a lost connection, releases the pin.
Close(c) ==
    /\ sub[c].pc = "open" /\ budget.subscribes > 0
    /\ sub' = [sub EXCEPT ![c] = Off]
    /\ UNCHANGED <<log, disk, oldest, eng, tx, con, budget>>

\* The server crashes and recovers a prefix of the log: what was durable, and
\* possibly more of what was written.  Pins and subscriptions are gone.  What
\* had logged no change can still be run, as a new transaction.
Crash ==
    /\ Spend("crashes")
    /\ \E end \in disk.durable .. disk.written :
         /\ log' = SubSeq(log, 1, end)
         /\ disk' = [disk EXCEPT !.written = end, !.durable = end, !.ckpt = 0]
         /\ tx' = [t \in Txn |-> CASE tx[t].st = "wait" /\ prev(t) <= end -> [tx[t] EXCEPT !.st = "acked"]
                                   [] tx[t].st \in {"acked", "aborted", "open"} -> tx[t]
                                   [] OTHER -> [tx[t] EXCEPT !.st = "lost"]]
         /\ con' = [c \in Consumers |-> [con[c] EXCEPT !.ahead = @ \/ con[c].saved > end]]
    /\ eng' = <<>>
    /\ sub' = [c \in Consumers |-> Off]
    /\ UNCHANGED oldest

----------------------------------------------------------------------------
Init ==
    /\ budget \in Workloads
    /\ log = <<>> /\ eng = <<>> /\ oldest = 1
    /\ disk = [written |-> 0, durable |-> 0, redo |-> 0, ckpt |-> 0]
    /\ tx = [t \in DOMAIN budget.shapes |-> [st |-> "open", shape |-> budget.shapes[t]]]
    /\ sub = [c \in Consumers |-> Off]
    /\ con = [c \in Consumers |->
                [saved |-> 0, got |-> {}, base |-> -1, raced |-> FALSE, ahead |-> FALSE]]

\* Nothing is left to commit, to flush or to read.
Finished ==
    /\ eng = <<>> /\ disk.durable = Len(log)
    /\ \A t \in Txn : tx[t].st # "wait"
    /\ UNCHANGED vars

Log == AppendNext \/ Checkpoint \/ InstallCheckpoint \/ FlushWrite \/ FlushSync \/ Trim \/ Crash

Transaction(t) == CommitUnreplicated(t) \/ RollbackTxn(t) \/ Acknowledge(t)

\* What a client that goes on pulling makes happen.
Pull(c) == PinRetention(c) \/ NextScan(c) \/ NextFeed(c) \/ Persist(c)

Next ==
    \/ Log \/ Finished
    \/ \E t \in Txn : Transaction(t)
    \/ \E ts \in SUBSET Txn : ExecuteReplBatch(ts)
    \/ \E c \in Consumers : Subscribe(c) \/ Pull(c) \/ Close(c)

Fairness == \A c \in Consumers : WF_vars(Pull(c))

Spec == Init /\ [][Next]_vars /\ Fairness
----------------------------------------------------------------------------
(* Properties                                                              *)

\* The shape of the state: what is durable was written, what was written was
\* appended, and what is pinned, scanned or pruned is a place in the log.
TypeOK ==
    /\ disk.durable <= disk.written /\ disk.written <= Len(log)
    /\ disk.redo <= disk.durable /\ oldest \in 1 .. Len(log) + 1
    /\ \A t \in Txn : tx[t].st \in {"open", "committing", "wait", "acked", "aborted", "lost"}
    /\ \A c \in Consumers :
         /\ sub[c].pc \in {"off", "checked", "open", "expired", "failed"}
         /\ sub[c].decoder.bytes \in 0 .. MaxPending
         /\ Range(sub[c].decoder.pending) \subseteq DOMAIN log

Committed == {t \in Txn : \E i \in DOMAIN log : log[i].txn = t /\ log[i].type = "commit"}
Lsns(t) == {i \in DOMAIN log : log[i].txn = t}
CommitLSN(t) == Max(Lsns(t))
Matching(t) == SelectSeq(tx[t].shape, LAMBDA table : table = Wanted)

\* Every commit record directly follows the changes of its transaction.
Contiguous == \A t \in Committed : Cardinality(Lsns(t)) = CommitLSN(t) - Min(Lsns(t)) + 1

\* The history c subscribed to was retained, and no crash took back a
\* transaction it had already been given.
Kept(c) == ~con[c].raced /\ ~con[c].ahead

\* Every committed transaction c asked for and has passed was given to it.
Covered(c) ==
    \A t \in Committed :
      /\ Matching(t) # <<>>
      /\ Min(Lsns(t)) > con[c].base /\ CommitLSN(t) <= IF sub[c].pc = "open" THEN sub[c].scan ELSE con[c].saved
      => t \in con[c].got \cup {sub[c].cur.txn}

\* docs/cdc.md: changes are appended contiguously before the commit record and
\* the stream never silently jumps forward.
NeverJumpsForward == \A c \in Consumers : con[c].base # -1 /\ Kept(c) => Covered(c)

\* Next, Feed, Subscribe and the retention pins: over rollbacks, checkpoints,
\* pruning, lost connections, crashes and resumed tokens a consumer passes no
\* committed transaction it was not given (at-least-once delivery), as long
\* as the log holds every transaction's records together.  A subscription
\* delivers each transaction once, in commit order, complete and with its
\* changes in order, and only when its commit record is in the log; and it
\* never fails on what the engine has logged, however many batches a crash or
\* an interleaved record has stranded before (the two limits are the same).
StreamExact ==
    \A c \in Consumers :
      LET out == sub[c].out IN
      /\ con[c].base # -1 /\ Contiguous /\ Kept(c) => Covered(c)
      /\ sub[c].pc # "failed"
      /\ \A i, j \in DOMAIN out : i < j => out[i].lsn < out[j].lsn
      /\ \A e \in Range(out) :
           /\ log[e.lsn].txn = e.txn /\ log[e.lsn].type = "commit"
           /\ Contiguous /\ Kept(c) /\ Min(Lsns(e.txn)) > con[c].base => e.events = Matching(e.txn)

\* Next: a subscription whose client goes on pulling reaches everything that is
\* durable, or is closed.
CatchesUp ==
    \A c \in Consumers :
      [](sub[c].pc = "open" => <>(sub[c].pc # "open" \/ sub[c].scan >= disk.durable))

============================================================================
