------------------------------ MODULE Session ------------------------------
(* The life of a statement in internal/executor/session.go (ExecContext):     *)
(* the process-wide admission gate and the gate of the session's resource     *)
(* group (internal/scheduler/admit.go), the slot an explicit transaction      *)
(* keeps, the row locks its statements wait for, the commit that becomes       *)
(* durable before it becomes visible, and the SELECT result cache              *)
(* (internal/executor/result_cache.go).                                        *)
EXTENDS Naturals, Sequences, FiniteSets, FiniteSetsExt

CONSTANTS
    Sessions,       \* client connections
    None,           \* nobody, nothing
    Priority,       \* [Sessions -> Nat]: the priority of the session's resource group
    Grouped,        \* the sessions that are in the resource group
    Keys,           \* rows that a statement locks
    Queries,        \* the texts of cacheable SELECTs
    Bounds,         \* the values of MAX_CONCURRENCY that ALTER RESOURCE GROUP sets
    MaxGates,       \* bound: how many gates the group has in a behaviour
    CacheEntries,   \* resultCacheMaxEntries
    Workloads       \* what a behaviour may start with: AdmissionConfig (slots, queue), the
                    \* group's bound, who issues what, and how much of it (the bounds)

ASSUME SessionsAssumption == IsFiniteSet(Sessions) /\ None \notin Sessions
ASSUME GroupAssumption == Grouped \subseteq Sessions /\ Priority \in [Sessions -> Nat]
ASSUME BoundsAssumption == Bounds \subseteq Nat /\ MaxGates \in Nat
ASSUME WorkloadsAssumption ==
    \A w \in Workloads : w.slots \in Nat \ {0} /\ w.queue \in Nat /\ w.bound \in Bounds
ASSUME QueriesAssumption ==
    \A w \in Workloads : "queries" \in DOMAIN w /\ w.queries \subseteq Queries

VARIABLES
    gate,       \* the admission gates: the process gate and those of the group
    group,      \* the resource group: its bound and its cached gate
    se,         \* the sessions: where each is, at which gate, whether in a transaction
    job,        \* the sessions' statements: what each is, has found out and answers
    owner,      \* who holds the lock of a row
    wal,        \* commit records appended, durable, visible and acknowledged
    gen,        \* the generation of the catalog
    cache,      \* the result cache
    budget      \* the configuration, and what the environment may still do

vars == <<gate, group, se, job, owner, wal, gen, cache, budget>>

Process == 0
Gates == 0 .. MaxGates
GroupGates == 1 .. MaxGates

\* The budget bounds what clients, operators and timers do.
Spend(k) == budget[k] > 0 /\ budget' = [budget EXCEPT ![k] = @ - 1]

NoResult == [saw |-> {}, plan |-> 0, blind |-> FALSE]

Idle == [pc |-> "idle", at |-> Process, txn |-> FALSE]

NoJob ==
    [stmt |-> "none", arg |-> None, ticket |-> 0, commit |-> 0, plan |-> 0, version |-> <<0, 0>>,
     result |-> NoResult, answered |-> FALSE, acked |-> {}, from |-> 0]

NewGate(bound) == [cap |-> bound, free |-> bound, waiters |-> {}, holders |-> {}]

Init ==
    /\ budget \in Workloads
    /\ gate = [g \in Gates |-> NewGate(IF g = Process THEN budget.slots ELSE 0)]
    /\ group = [bound |-> budget.bound, gate |-> 0, built |-> 0]
    /\ se = [s \in Sessions |-> Idle]
    /\ job = [s \in Sessions |-> NoJob]
    /\ owner = [k \in Keys |-> None]
    /\ wal = [log |-> 1, durable |-> 1, visible |-> {1}, acked |-> {1}]
    /\ gen = 1
    /\ cache = [items |-> [q \in Queries |-> None], order |-> <<>>]

-----------------------------------------------------------------------------
(* The admission gate.  A session whose pc is "queued" waits in acquire; it    *)
(* has been granted the slot once release has made it a holder.  Its ticket    *)
(* orders it after the requests that are queued already (waiter.seq).          *)

waiterLess(s, t) ==
    \/ Priority[s] > Priority[t]
    \/ Priority[s] = Priority[t] /\ job[s].ticket < job[t].ticket

\* The same order without a priority: every request of a group's gate has none.
Before(g, s, t) == IF g = Process THEN waiterLess(s, t) ELSE job[s].ticket < job[t].ticket

\* Fault: the queue is served in order of arrival, whatever the priorities.
BestArrival(g, w) ==
    w \in gate[g].waiters /\ \A t \in gate[g].waiters : job[w].ticket <= job[t].ticket

Best(g, w) == w \in gate[g].waiters /\ \A t \in gate[g].waiters \ {w} : Before(g, w, t)

\* Admission.queued: requests that wait and requests that have not yet noticed
\* that they were granted.
Queued(g) == {s \in Sessions : se[s].pc = "queued" /\ se[s].at = g}

NextTicket(g) == 1 + Max({0} \cup {job[t].ticket : t \in gate[g].waiters})

\* What a session does once it is through a gate: the group's gate comes second.
Through(s, g) == IF g = Process /\ s \in Grouped THEN "lookup" ELSE "run"

CanEnter(g) == gate[g].free > 0 /\ gate[g].waiters = {}

\* acquire: a free slot at once, a place in the queue, or a refusal.  jb is what
\* the session asks the gate for.
EnterGate(s, g, jb) ==
    /\ CanEnter(g)
    /\ gate' = [gate EXCEPT ![g].free = @ - 1, ![g].holders = @ \cup {s}]
    /\ se' = [se EXCEPT ![s].pc = Through(s, g), ![s].at = g]
    /\ job' = [job EXCEPT ![s] = jb]

JoinQueue(s, g, jb) ==
    /\ ~CanEnter(g)
    /\ Cardinality(Queued(g)) < budget.queue
    /\ gate' = [gate EXCEPT ![g].waiters = @ \cup {s}]
    /\ se' = [se EXCEPT ![s].pc = "queued", ![s].at = g]
    /\ job' = [job EXCEPT ![s] = [jb EXCEPT !.ticket = NextTicket(g)]]

\* A session the process gate turns away has nothing to give back; one that
\* the group's gate turns away still holds its process slot.
TurnedAway(s, g) ==
    [Idle EXCEPT !.pc = IF g = Process THEN "idle" ELSE "release"]

Refuse(s, g) ==
    /\ ~CanEnter(g)
    /\ Cardinality(Queued(g)) >= budget.queue
    /\ se' = [se EXCEPT ![s] = TurnedAway(s, g)]
    /\ job' = [job EXCEPT ![s] = NoJob]
    /\ UNCHANGED gate

acquire(s, g, jb) == EnterGate(s, g, jb) \/ JoinQueue(s, g, jb) \/ Refuse(s, g)

\* The grant arrives, or the deadline does after the grant was committed: the
\* slot is consumed either way.
TakeGrant(s) ==
    /\ se[s].pc = "queued"
    /\ s \in gate[se[s].at].holders
    /\ se' = [se EXCEPT ![s].pc = Through(s, se[s].at)]
    /\ job' = [job EXCEPT ![s].ticket = 0]
    /\ UNCHANGED <<gate, group, owner, wal, gen, cache, budget>>

\* Fault: the deadline wins over a grant that was committed, and the slot is dropped.
cancelWaiterGranted(s) ==
    LET g == se[s].at IN
    /\ se[s].pc = "queued"
    /\ Spend("expire")
    /\ gate' = [gate EXCEPT ![g].waiters = @ \ {s}, ![g].holders = @ \ {s}]
    /\ se' = [se EXCEPT ![s] = TurnedAway(s, g)]
    /\ job' = [job EXCEPT ![s] = NoJob]
    /\ UNCHANGED <<group, owner, wal, gen, cache>>

\* The timer or the context fires while the request is still queued.
cancelWaiter(s) ==
    LET g == se[s].at IN
    /\ se[s].pc = "queued"
    /\ s \in gate[g].waiters
    /\ Spend("expire")
    /\ gate' = [gate EXCEPT ![g].waiters = @ \ {s}]
    /\ se' = [se EXCEPT ![s] = TurnedAway(s, g)]
    /\ job' = [job EXCEPT ![s] = NoJob]
    /\ UNCHANGED <<group, owner, wal, gen, cache>>

\* release: the slot goes to the best waiter, otherwise back to the gate.
release(s, g) ==
    \/ /\ gate[g].waiters = {}
       /\ gate' = [gate EXCEPT ![g].free = @ + 1, ![g].holders = @ \ {s}]
    \/ \E w \in gate[g].waiters :
          /\ Best(g, w)
          /\ gate' = [gate EXCEPT ![g].waiters = @ \ {w}, ![g].holders = (@ \ {s}) \cup {w}]

-----------------------------------------------------------------------------
(* ExecContext: a statement of an open transaction runs on the slots the       *)
(* transaction keeps (txnAdmission); any other is admitted first.              *)

Legal(s) ==
    IF se[s].txn THEN {"write", "commit", "rollback"} ELSE {"begin", "write", "ddl", "select"}

Issued(s, stmt, arg) ==
    [job[s] EXCEPT !.stmt = stmt, !.arg = arg, !.commit = 0, !.answered = FALSE,
                  !.result = NoResult, !.acked = wal.acked, !.from = gen]

Admit(s, jb) ==
    \/ /\ s \in gate[Process].holders
       /\ se' = [se EXCEPT ![s].pc = "run"]
       /\ job' = [job EXCEPT ![s] = jb]
       /\ UNCHANGED gate
    \/ s \notin gate[Process].holders /\ acquire(s, Process, jb)

ExecContext(s) ==
    /\ se[s].pc = "idle"
    /\ s \in budget.who
    /\ \E stmt \in Legal(s) :
          /\ Spend(stmt)
          /\ \E arg \in CASE stmt \in {"write", "ddl"} -> budget.keys
                          [] stmt = "select" -> budget.queries
                          [] OTHER -> {None} :
                Admit(s, Issued(s, stmt, arg))
    /\ UNCHANGED <<group, owner, wal, gen, cache>>

\* resourceGroupGate: none for an unbounded group, the cached gate, or a new one.
resourceGroupGate(s) ==
    /\ se[s].pc = "lookup"
    /\ \/ /\ group.bound = 0
          /\ se' = [se EXCEPT ![s].pc = "run"]
          /\ UNCHANGED <<gate, group>>
       \/ /\ group.bound > 0
          /\ group.gate # 0
          /\ se' = [se EXCEPT ![s].pc = "ask", ![s].at = group.gate]
          /\ UNCHANGED <<gate, group>>
       \/ /\ group.bound > 0
          /\ group.gate = 0
          /\ group.built < MaxGates
          /\ LET g == group.built + 1 IN
             /\ gate' = [gate EXCEPT ![g] = NewGate(group.bound)]
             /\ group' = [group EXCEPT !.gate = g, !.built = g]
             /\ se' = [se EXCEPT ![s].pc = "ask", ![s].at = g]
    /\ UNCHANGED <<job, owner, wal, gen, cache, budget>>

AskGroup(s) ==
    /\ se[s].pc = "ask"
    /\ acquire(s, se[s].at, job[s])
    /\ UNCHANGED <<group, owner, wal, gen, cache, budget>>

\* putResourceGroup, from an ALTER RESOURCE GROUP: the cached gate is dropped,
\* whoever it admitted or keeps waiting.
putResourceGroup ==
    /\ Spend("alter")
    /\ \E b \in Bounds : group' = [group EXCEPT !.bound = b, !.gate = 0]
    /\ UNCHANGED <<gate, se, job, owner, wal, gen, cache>>

\* The end of ExecContext gives the group's slot back first, the process slot
\* second; the client has its answer after that.
ReleaseGroup(s) ==
    /\ se[s].pc = "release"
    /\ \E g \in GroupGates : s \in gate[g].holders /\ release(s, g)
    /\ UNCHANGED <<group, se, job, owner, wal, gen, cache, budget>>

ReleaseProcess(s) ==
    /\ se[s].pc = "release"
    /\ \A g \in GroupGates : s \notin gate[g].holders
    /\ s \in gate[Process].holders
    /\ release(s, Process)
    /\ se' = [se EXCEPT ![s] = [Idle EXCEPT !.txn = se[s].txn]]
    /\ job' = [job EXCEPT ![s] = NoJob]
    /\ wal' = [wal EXCEPT !.acked = @ \cup ({job[s].commit} \ {0})]
    /\ UNCHANGED <<group, owner, gen, cache, budget>>

-----------------------------------------------------------------------------
(* Transactions and their row locks.                                           *)

Unlocked(s) == [k \in Keys |-> IF owner[k] = s THEN None ELSE owner[k]]

\* Fault: every statement is admitted on its own.
AfterStatementEach(inTxn) == "release"

\* The end of a statement: a transaction that is open keeps the slots.
AfterStatement(inTxn) == IF inTxn THEN "idle" ELSE "release"

Finished(s) == AfterStatement(se[s].txn)

begin(s) ==
    /\ se[s].pc = "run"
    /\ job[s].stmt = "begin"
    /\ se' = [se EXCEPT ![s].txn = TRUE, ![s].pc = AfterStatement(TRUE)]
    /\ UNCHANGED <<gate, group, job, owner, wal, gen, cache, budget>>

Locking(s) == se[s].pc \in {"run", "wait"} /\ job[s].stmt \in {"write", "ddl"}

\* The row is locked and written; an autocommit statement goes on to commit.
Lock(s) ==
    /\ Locking(s)
    /\ owner[job[s].arg] \in {None, s}
    /\ owner' = [owner EXCEPT ![job[s].arg] = s]
    /\ se' = [se EXCEPT ![s].pc = IF se[s].txn THEN Finished(s) ELSE "append"]
    /\ UNCHANGED <<gate, group, job, wal, gen, cache, budget>>

\* Fault: only the owner of the row itself is looked at.
ChainDirect(k) == {owner[k]}

\* Whom a session waits for, link by link, from the owner of k.
Chain(k) ==
    LET link[n \in 0 .. Cardinality(Sessions)] ==
          IF n = 0 THEN owner[k]
          ELSE LET h == link[n - 1]
               IN  IF h # None /\ se[h].pc = "wait" THEN owner[job[h].arg] ELSE h
    IN  {link[n] : n \in 0 .. Cardinality(Sessions)}

\* The lock is taken: the session waits, unless that closes a cycle.
WaitForLock(s) ==
    /\ se[s].pc = "run"
    /\ Locking(s)
    /\ owner[job[s].arg] \notin {None, s}
    /\ se' = [se EXCEPT ![s].pc = IF s \in Chain(job[s].arg) THEN Finished(s) ELSE "wait"]
    /\ UNCHANGED <<gate, group, job, owner, wal, gen, cache, budget>>

\* The statement's context ends while it waits: the statement fails, and an
\* explicit transaction stays open.
CancelLock(s) ==
    /\ se[s].pc = "wait"
    /\ Spend("expire")
    /\ se' = [se EXCEPT ![s].pc = Finished(s)]
    /\ UNCHANGED <<gate, group, job, owner, wal, gen, cache>>

abort(s) ==
    /\ owner' = Unlocked(s)
    /\ se' = [se EXCEPT ![s].txn = FALSE, ![s].pc = "release"]
    /\ UNCHANGED <<gate, group, job, wal, gen, cache>>

\* ROLLBACK; a statement that finds its transaction too old; a connection that
\* closes between two statements of a transaction.
Rollback(s) ==
    /\ se[s].pc = "run"
    /\ job[s].stmt = "rollback"
    /\ abort(s)
    /\ UNCHANGED budget

TxnTimeout(s) ==
    /\ se[s].pc = "run"
    /\ se[s].txn
    /\ Spend("timeout")
    /\ abort(s)

Teardown(s) ==
    /\ se[s].pc = "idle"
    /\ se[s].txn
    /\ Spend("teardown")
    /\ abort(s)

\* Commit, in three steps: the record is appended, a flush makes every record
\* appended so far durable, and the engine's lock is taken again to make the
\* transaction visible and to let go of its locks.
prepareDeferredCommit(s) ==
    /\ \/ se[s].pc = "append"
       \/ se[s].pc = "run" /\ job[s].stmt = "commit"
    /\ wal' = [wal EXCEPT !.log = @ + 1]
    /\ se' = [se EXCEPT ![s].pc = "flush"]
    /\ job' = [job EXCEPT ![s].commit = wal.log + 1]
    /\ UNCHANGED <<gate, group, owner, gen, cache, budget>>

Flush(s) ==
    /\ se[s].pc = "flush"
    /\ wal' = IF wal.durable < job[s].commit THEN [wal EXCEPT !.durable = wal.log] ELSE wal
    /\ se' = [se EXCEPT ![s].pc = "complete"]
    /\ UNCHANGED <<gate, group, job, owner, gen, cache, budget>>

completeCommit(s) ==
    /\ se[s].pc = "complete"
    /\ wal' = [wal EXCEPT !.visible = @ \cup {job[s].commit}]
    /\ owner' = Unlocked(s)
    /\ se' = [se EXCEPT ![s].txn = FALSE,
                        ![s].pc = IF job[s].stmt = "ddl" THEN "publish" ELSE "release"]
    /\ UNCHANGED <<gate, group, job, gen, cache, budget>>

\* A schema change reaches the in-memory catalog after its commit.
Publish(s) ==
    /\ se[s].pc = "publish"
    /\ gen' = gen + 1
    /\ se' = [se EXCEPT ![s].pc = "release"]
    /\ UNCHANGED <<gate, group, job, owner, wal, cache, budget>>

-----------------------------------------------------------------------------
(* An autocommit SELECT: bound and planned against the catalog, looked up in   *)
(* the cache, run on a snapshot, stored.  Its result is the set of commits its *)
(* snapshot shows and the generation of the catalog it was planned with.       *)

resultVersion == <<wal.durable, gen>>

Bind(s) ==
    /\ se[s].pc = "run"
    /\ job[s].stmt = "select"
    /\ ~se[s].txn
    /\ se' = [se EXCEPT ![s].pc = "bound"]
    /\ job' = [job EXCEPT ![s].plan = gen]
    /\ UNCHANGED <<gate, group, owner, wal, gen, cache, budget>>

\* Fault: an entry is good as long as the catalog is the same.
HitCatalogOnly(q, version) == cache.items[q] # None /\ cache.items[q].version[2] = version[2]

Hit(q, version) == cache.items[q] # None /\ cache.items[q].version = version

get(s) ==
    LET q == job[s].arg IN
    /\ se[s].pc = "bound"
    /\ \/ /\ Hit(q, resultVersion)
          /\ se' = [se EXCEPT ![s].pc = "release"]
          /\ job' = [job EXCEPT ![s].result = cache.items[q].result, ![s].answered = TRUE]
       \/ /\ ~Hit(q, resultVersion)
          /\ se' = [se EXCEPT ![s].pc = "read"]
          /\ job' = [job EXCEPT ![s].version = resultVersion]
    /\ UNCHANGED <<gate, group, owner, wal, gen, cache, budget>>

startRead(s) ==
    /\ se[s].pc = "read"
    /\ se' = [se EXCEPT ![s].pc = "store"]
    /\ job' = [job EXCEPT ![s].result = [saw |-> wal.visible, plan |-> job[s].plan, blind |-> FALSE],
                          ![s].answered = TRUE]
    /\ UNCHANGED <<gate, group, owner, wal, gen, cache, budget>>

\* History only: the result misses a commit that its version counts as durable,
\* or was planned with a catalog older than its version's.
Blind(version, r) == ~(1 .. version[1] \subseteq r.saw) \/ r.plan < version[2]

\* put: a new entry, or the place of the oldest when the cache is full.
Stored(q, version, r) ==
    LET rest == SelectSeq(cache.order, LAMBDA x : x # q)
        full == Len(rest) >= CacheEntries
        entry == [version |-> version, result |-> [r EXCEPT !.blind = Blind(version, r)]]
    IN  [items |-> [x \in Queries |-> IF x = q THEN entry
                                      ELSE IF full /\ x = Head(rest) THEN None
                                      ELSE cache.items[x]],
         order |-> Append(IF full THEN Tail(rest) ELSE rest, q)]

put(s) ==
    /\ se[s].pc = "store"
    /\ cache' = IF resultVersion = job[s].version
                THEN Stored(job[s].arg, job[s].version, job[s].result) ELSE cache
    /\ se' = [se EXCEPT ![s].pc = "release"]
    /\ UNCHANGED <<gate, group, job, owner, wal, gen, budget>>

-----------------------------------------------------------------------------
\* What the server does for a session without anybody's leave.
Step(s) ==
    \/ TakeGrant(s) \/ resourceGroupGate(s) \/ AskGroup(s)
    \/ ReleaseGroup(s) \/ ReleaseProcess(s)
    \/ begin(s) \/ Lock(s) \/ WaitForLock(s) \/ Rollback(s)
    \/ prepareDeferredCommit(s) \/ Flush(s) \/ completeCommit(s) \/ Publish(s)
    \/ Bind(s) \/ get(s) \/ startRead(s) \/ put(s)

Next ==
    \/ \E s \in Sessions :
          \/ Step(s) \/ ExecContext(s)
          \/ cancelWaiter(s) \/ CancelLock(s) \/ TxnTimeout(s) \/ Teardown(s)
    \/ putResourceGroup

\* A client ends the transaction it has open.
ClientEnds(s) == se[s].txn /\ ExecContext(s) /\ job'[s].stmt = "commit"

\* The server's goroutines run; clients end their transactions.  No timer and
\* no cancellation is needed for an answer.
Fairness == \A s \in Sessions : WF_vars(Step(s)) /\ WF_vars(ClientEnds(s))

Spec == Init /\ [][Next]_vars /\ Fairness

-----------------------------------------------------------------------------
PCs == {"idle", "queued", "lookup", "ask", "run", "wait", "append", "flush", "complete",
        "publish", "bound", "read", "store", "release"}
Stmts == {"none", "begin", "write", "ddl", "select", "commit", "rollback"}

(* The variables have the shapes the code gives them; the cache's order lists   *)
(* exactly the keys that have an entry, each once, and no more than its bound   *)
(* (result_cache.go, put).                                                      *)
TypeOK ==
    /\ \A g \in Gates : gate[g].cap \in Nat /\ gate[g].free \in 0 .. gate[g].cap
    /\ \A g \in Gates : gate[g].waiters \subseteq Sessions /\ gate[g].holders \subseteq Sessions
    /\ group.bound \in Bounds /\ group.built \in Gates /\ group.gate \in {0, group.built}
    /\ \A s \in Sessions :
          /\ se[s] \in [pc : PCs, at : Gates, txn : BOOLEAN]
          /\ job[s].stmt \in Stmts /\ job[s].ticket \in Nat /\ job[s].commit \in 0 .. wal.log
    /\ owner \in [Keys -> Sessions \cup {None}]
    /\ wal.durable \in 1 .. wal.log /\ wal.visible \subseteq 1 .. wal.durable
    /\ wal.acked \subseteq wal.visible
    /\ Len(cache.order) <= CacheEntries
    /\ \A q \in Queries :
          (cache.items[q] # None) <=> Cardinality({i \in DOMAIN cache.order : cache.order[i] = q}) = 1

(* No slot of any gate is lost or invented, also when a deadline races the grant *)
(* and when ALTER RESOURCE GROUP replaces a gate that is in use; and no slot is  *)
(* free while a request waits for it (admit.go, acquire, cancelWaiter, release). *)
SlotsConserved ==
    \A g \in Gates :
        /\ gate[g].free + Cardinality(gate[g].holders) = gate[g].cap
        /\ gate[g].free > 0 => gate[g].waiters = {}

(* A slot is held only for a statement that is under way or a transaction that   *)
(* is open, and whoever is past the gates holds a slot of the process: every way *)
(* a transaction ends gives its slots back, and the group's gate does not stand  *)
(* in for the process gate (session.go, ExecContext, releaseTxnAdmission).       *)
SlotHasUser ==
    \A s \in Sessions :
        /\ (\E g \in Gates : s \in gate[g].holders) => se[s].pc # "idle" \/ se[s].txn
        /\ se[s].pc \notin {"idle", "queued", "release"} => s \in gate[Process].holders
        /\ \A g \in GroupGates : s \in gate[g].waiters => s \in gate[Process].holders

(* Both: the slots of a gate add up, and none stays with somebody who is done.   *)
SlotsAccountedFor == SlotsConserved /\ SlotHasUser

(* Nobody waits for admission with a row lock in hand: a transaction is admitted  *)
(* before its first lock, and its later statements do not queue (the convoy of    *)
(* session.go, ExecContext).                                                      *)
WaitsEmptyHanded ==
    \A k \in Keys : owner[k] # None =>
        /\ \A g \in Gates : owner[k] \notin gate[g].waiters
        /\ owner[k] \in gate[Process].holders

ServedInOrder ==
    \A g \in Gates : \A s \in gate'[g].holders \ gate[g].holders :
        \A t \in gate[g].waiters \ {s} : s \in gate[g].waiters /\ Before(g, s, t)

(* A slot that changes hands goes to the waiter with the highest priority, and    *)
(* among equals to the one that has waited longest; a newcomer never passes one   *)
(* that waits (admit.go, waiterHeap.Less, acquire).                               *)
NoOvertaking == [][ServedInOrder]_vars

(* Every statement is answered, without a timer or a cancellation, when clients   *)
(* end their transactions: no cycle of waits runs through the gates and the row   *)
(* locks together (session.go, ExecContext; admit.go).                            *)
Served == \A s \in Sessions : se[s].pc # "idle" ~> se[s].pc = "idle"

Fresh(s) == job[s].acked \subseteq job[s].result.saw /\ job[s].from <= job[s].result.plan

(* A SELECT shows every commit, and a schema at least as new, that was             *)
(* acknowledged when it was issued, from the cache too, unless the entry it finds  *)
(* was stored by a statement that ran between a commit's becoming durable and      *)
(* visible, or was planned before a schema change and looked up after it           *)
(* (session.go:1123-1152).                                                         *)
ReadsAcknowledged ==
    \A s \in Sessions : job[s].answered => Fresh(s) \/ job[s].result.blind

(* The same without the exception: any committed write invalidates the entries     *)
(* stored before it (docs/execution.md, Built-in SELECT result cache).             *)
CacheNeverStale == \A s \in Sessions : job[s].answered => Fresh(s)
=============================================================================
