---------------------------- MODULE LockManager ----------------------------
(***************************************************************************)
(* The key / range lock table of internal/txn/lock.go.                     *)
(*                                                                         *)
(* Every exported operation of the lock manager runs under lm.mu, so each  *)
(* critical section is one action.  What happens between two critical      *)
(* sections of one request -- a grant sent on the waiter's channel, a       *)
(* timer or a cancelled context that fires before the channel is read --   *)
(* is interleaved with everything else.                                    *)
(*                                                                         *)
(* A lock request names a target: one key, or a range [start, end) either  *)
(* of whose bounds may be missing (nil in the code).                       *)
(***************************************************************************)
EXTENDS Integers

CONSTANTS
    Txn,        \* transaction ids
    Requests,   \* what a transaction may ask for: records [mode, on]
    NoBound     \* a nil range bound

VARIABLES
    held,       \* lm.keys[..].holders and lm.ranges: the locks held
    waiters,    \* lm.waiters: the queued requests
    ahead,      \* the order of lm.waiters: who is queued before t
    waitFor,    \* lm.waitFor: the wait-for graph
    ch,         \* the granted requests whose waiter.ch has not been read
    ctl,        \* where each transaction is in its current lock request
    told        \* the targets whose acquisition has been reported to t

vars == <<held, waiters, ahead, waitFor, ch, ctl, told>>

Shared == "shared"
Exclusive == "exclusive"
Mode == {Shared, Exclusive}

Bound == Int \cup {NoBound}
KeyTarget == [key : Int]
RangeTarget == [start : Bound, end : Bound]
Target == KeyTarget \cup RangeTarget
Lock == [txn : Txn, mode : Mode, on : Target]

ASSUME NoBoundAssumption == NoBound \notin Int
ASSUME RequestsAssumption == Requests \subseteq [mode : Mode, on : Target]

IsKey(on) == "key" \in DOMAIN on

-----------------------------------------------------------------------------
(* Conflicts                                                               *)

inRange(key, r) ==
    /\ r.start # NoBound => key >= r.start
    /\ r.end # NoBound => key < r.end

rangeOverlap(a, b) ==
    /\ (a.end # NoBound /\ b.start # NoBound) => a.end > b.start
    /\ (b.end # NoBound /\ a.start # NoBound) => b.end > a.start

\* Whether two targets can be held apart.
Touches(a, b) ==
    \/ IsKey(a) /\ IsKey(b) /\ a.key = b.key
    \/ IsKey(a) /\ ~IsKey(b) /\ inRange(a.key, b)
    \/ ~IsKey(a) /\ IsKey(b) /\ inRange(b.key, a)
    \/ ~IsKey(a) /\ ~IsKey(b) /\ rangeOverlap(a, b)

Conflict(l, r) ==
    /\ l.txn # r.txn
    /\ l.mode = Exclusive \/ r.mode = Exclusive
    /\ Touches(l.on, r.on)

\* Fault: range locks are not looked at.
canGrantKeysOnly(H, r) == \A l \in H : IsKey(l.on) => ~Conflict(l, r)

\* canGrantKey and canGrantRange, over the locks H.
canGrant(H, r) == \A l \in H : ~Conflict(l, r)

\* blockersKey and blockersRange, over the locks H.
blockers(H, r) == {l.txn : l \in {x \in H : Conflict(x, r)}}

\* grantKey: the holder's mode becomes the requested one if it held nothing,
\* if it asks for exclusive, or if it held exclusive.  grantRange: one more
\* entry of lm.ranges.  G is the set of requests granted.
grant(H, G) ==
    LET replaced(l) == \E r \in G : /\ IsKey(l.on) /\ r.on = l.on
                                    /\ r.txn = l.txn
                                    /\ r.mode = Exclusive \/ l.mode = Exclusive
    IN  {l \in H : ~replaced(l)} \cup G

-----------------------------------------------------------------------------
(* The wait-for graph and the queue                                        *)

\* DFS from start meets a node that is still being visited: some walk from
\* start never ends.
hasCycle(wf, start) ==
    \E C \in SUBSET Txn : start \in C /\ \A t \in C : wf[t] \cap C # {}

Queued == {w.txn : w \in waiters}

\* lm.waiters without the requests of T.
dequeue(T) ==
    /\ waiters' = {w \in waiters : w.txn \notin T}
    /\ ahead' = [t \in Txn |-> IF t \in T THEN {} ELSE ahead[t] \ T]

\* Fault: a direct grant leaves the edges of the queue alone.
refreshWaitsNothing(H, on) == waitFor

\* refreshWaitsForKey and refreshWaitsForRange: new edges for the queued
\* requests that the target just granted touches.
refreshWaits(H, on) ==
    [t \in Txn |->
        IF \E w \in waiters : w.txn = t /\ Touches(w.on, on)
        THEN UNION {blockers(H, w) : w \in {x \in waiters : x.txn = t}}
        ELSE waitFor[t]]

\* Fault: wake stops at the first request it cannot grant.
servedHeadOnly(H, G) ==
    \A w \in waiters :
        w \in G <=> /\ canGrant(grant(H, {g \in G : g.txn \in ahead[w.txn]}), w)
                    /\ \A v \in waiters : v.txn \in ahead[w.txn] => v \in G

\* One pass of wake over the queue: a request is granted when it conflicts
\* with nothing that is held once the requests ahead of it have been served.
\* A grant never removes a conflict, so the passes that follow grant nothing.
served(H, G) ==
    \A w \in waiters :
        w \in G <=> canGrant(grant(H, {g \in G : g.txn \in ahead[w.txn]}), w)

-----------------------------------------------------------------------------
Init ==
    /\ held = {}
    /\ waiters = {}
    /\ ahead = [t \in Txn |-> {}]
    /\ waitFor = [t \in Txn |-> {}]
    /\ ch = {}
    /\ ctl = [t \in Txn |-> "run"]
    /\ told = [t \in Txn |-> {}]

LockOf(t, q) == [txn |-> t, mode |-> q.mode, on |-> q.on]

\* AcquireContext / AcquireRangeContext, the request is granted at once.
AcquireGranted(t, q) ==
    LET r == LockOf(t, q)
        H == grant(held, {r})
    IN  /\ ctl[t] = "run"
        /\ canGrant(held, r)
        /\ held' = H
        /\ waitFor' = refreshWaits(H, q.on)
        /\ told' = [told EXCEPT ![t] = @ \cup {q.on}]
        /\ UNCHANGED <<waiters, ahead, ch, ctl>>

\* AcquireContext / AcquireRangeContext, the request conflicts: it is queued
\* with its edges, and taken out again with a Deadlock error if that closes a
\* cycle.
AcquireBlocked(t, q) ==
    LET r == LockOf(t, q)
        wf == [waitFor EXCEPT ![t] = blockers(held, r)]
    IN  /\ ctl[t] = "run"
        /\ ~canGrant(held, r)
        /\ IF hasCycle(wf, t)
           THEN /\ waitFor' = [waitFor EXCEPT ![t] = {}]
                /\ UNCHANGED <<waiters, ahead, ctl>>
           ELSE /\ waitFor' = wf
                /\ waiters' = waiters \cup {r}
                /\ ahead' = [ahead EXCEPT ![t] = Queued]
                /\ ctl' = [ctl EXCEPT ![t] = "wait"]
        /\ UNCHANGED <<held, ch, told>>

\* The grant that wake sent on the waiter's channel reaches the caller.
Receive(t) ==
    LET granted == {r \in ch : r.txn = t}
    IN  /\ granted # {}
        /\ ch' = ch \ granted
        /\ ctl' = [ctl EXCEPT ![t] = "run"]
        /\ told' = [told EXCEPT ![t] = @ \cup {r.on : r \in granted}]

\* await: the channel is ready.
AwaitGrant(t) ==
    /\ ctl[t] = "wait"
    /\ Receive(t)
    /\ UNCHANGED <<held, waiters, ahead, waitFor>>

\* await: the select takes ctx.Done or the timer.  lm.mu is not held yet, so
\* a grant may still arrive.
AwaitExpires(t) ==
    /\ ctl[t] = "wait"
    /\ ctl' = [ctl EXCEPT ![t] = "expired"]
    /\ UNCHANGED <<held, waiters, ahead, waitFor, ch, told>>

\* Fault: an expired request fails even if it was granted meanwhile.
removeCanceledWaiterDropsGrant(t) ==
    /\ ctl[t] = "expired"
    /\ dequeue({t})
    /\ waitFor' = [waitFor EXCEPT ![t] = {}]
    /\ ctl' = [ctl EXCEPT ![t] = "run"]
    /\ ch' = {r \in ch : r.txn # t}
    /\ UNCHANGED <<held, told>>

\* removeCanceledWaiter, and what await does with its result: a request that
\* is still queued fails; one that wake has granted meanwhile is taken.
removeCanceledWaiter(t) ==
    /\ ctl[t] = "expired"
    /\ IF t \in Queued
       THEN /\ dequeue({t})
            /\ waitFor' = [waitFor EXCEPT ![t] = {}]
            /\ ctl' = [ctl EXCEPT ![t] = "run"]
            /\ UNCHANGED <<ch, told>>
       ELSE /\ Receive(t)
            /\ UNCHANGED <<waiters, ahead, waitFor>>
    /\ UNCHANGED held

\* Fault: wake clears the edges of the granted requests and rebuilds none.
ReleaseAllStaleEdges(t) ==
    LET H == {l \in held : l.txn # t}
    IN  /\ ctl[t] = "run"
        /\ \E G \in SUBSET waiters :
              /\ served(H, G)
              /\ held' = grant(H, G)
              /\ dequeue({g.txn : g \in G})
              /\ ch' = ch \cup G
              /\ waitFor' = [u \in Txn |->
                    IF u = t \/ \E g \in G : g.txn = u THEN {} ELSE waitFor[u]]
        /\ ctl' = [ctl EXCEPT ![t] = "done"]
        /\ told' = [told EXCEPT ![t] = {}]

\* ReleaseAll at the end of the transaction, with the wake it runs: the
\* released locks go to the queue in order, and every request still queued
\* gets its edges rebuilt.
ReleaseAll(t) ==
    LET H == {l \in held : l.txn # t}
    IN  /\ ctl[t] = "run"
        /\ \E G \in SUBSET waiters :
              /\ served(H, G)
              /\ held' = grant(H, G)
              /\ dequeue({g.txn : g \in G})
              /\ ch' = ch \cup G
              /\ waitFor' = [u \in Txn |->
                    UNION {blockers(held', w) : w \in {x \in waiters' : x.txn = u}}]
        /\ ctl' = [ctl EXCEPT ![t] = "done"]
        /\ told' = [told EXCEPT ![t] = {}]

\* Every transaction has ended.
Finished ==
    /\ \A t \in Txn : ctl[t] = "done"
    /\ UNCHANGED vars

Next ==
    \/ \E t \in Txn :
        \/ \E q \in Requests : AcquireGranted(t, q) \/ AcquireBlocked(t, q)
        \/ AwaitGrant(t)
        \/ AwaitExpires(t)
        \/ removeCanceledWaiter(t)
        \/ ReleaseAll(t)
    \/ Finished

Spec == Init /\ [][Next]_vars

\* A goroutine that can run does run, and a transaction issues finitely many
\* statements: one that gets back from its lock requests again and again
\* eventually commits or rolls back.  No timer is assumed to fire.
Fairness ==
    \A t \in Txn :
        /\ WF_vars(AwaitGrant(t))
        /\ WF_vars(removeCanceledWaiter(t))
        /\ SF_vars(ReleaseAll(t))

LiveSpec == Spec /\ Fairness

-----------------------------------------------------------------------------
(* Properties                                                              *)

\* Every variable has its type.
TypeOK ==
    /\ held \subseteq Lock
    /\ waiters \subseteq Lock
    /\ ahead \in [Txn -> SUBSET Txn]
    /\ waitFor \in [Txn -> SUBSET Txn]
    /\ ch \subseteq Lock
    /\ ctl \in [Txn -> {"run", "wait", "expired", "done"}]
    /\ told \in [Txn -> SUBSET Target]

\* Two transactions never hold conflicting locks on a common key: neither the
\* direct grant of AcquireContext nor a chain of grants by one wake lets an
\* exclusive lock overlap another transaction's key or range lock.
NoConflict == \A l, m \in held : ~Conflict(l, m)

\* The edges of the wait-for graph are the real ones: a queued request waits
\* for exactly the transactions that block it now, however many grants and
\* releases happened since it was queued, and nobody else waits at all.
WaitForExact ==
    \A t \in Txn :
        waitFor[t] = UNION {blockers(held, w) : w \in {x \in waiters : x.txn = t}}

\* No deadlock goes undetected: among the queued requests there is no set of
\* transactions each of which is blocked by another of the set, because the
\* request that would close such a cycle was refused by hasCycle.
NoUndetectedDeadlock ==
    ~\E C \in SUBSET Queued :
        /\ C # {}
        /\ \A w \in waiters : w.txn \in C => blockers(held, w) \cap C # {}

\* A transaction inside await is either still queued or has exactly one grant
\* to read, and one that is not inside await is neither: the race between wake
\* and an expiring wait loses no grant and leaves no stale waiter.
WaiterAccountedFor ==
    \A t \in Txn :
        LET pending == {r \in waiters \cup ch : r.txn = t}
        IN  IF ctl[t] \in {"wait", "expired"}
            THEN \E r \in pending : pending = {r} /\ (r \in waiters) # (r \in ch)
            ELSE pending = {}

\* A transaction holds a lock on exactly the targets whose acquisition was
\* reported to it, or is about to be: an acquisition that failed with a
\* deadlock, a timeout or a cancelled context leaves no lock behind.
NoLeakedGrant ==
    \A t \in Txn :
        {l.on : l \in {x \in held : x.txn = t}}
            = told[t] \cup {r.on : r \in {x \in ch : x.txn = t}}

\* A release serves the whole queue: when ReleaseAll returns, every request
\* that is still queued is blocked by somebody.
ReleaseServesQueue ==
    [][(\E t \in Txn : ctl[t] = "run" /\ ctl'[t] = "done")
        => \A w \in waiters' : ~canGrant(held', w)]_vars

\* Every lock request is answered, with a grant or with an error, even if no
\* timer ever fires.
WaiterAnswered ==
    \A t \in Txn : ctl[t] \in {"wait", "expired"} ~> ctl[t] = "run"
=============================================================================
