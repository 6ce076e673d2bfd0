------------------------- MODULE LockManagerProofs -------------------------
(***************************************************************************)
(* Safety of the lock table for any set of transactions and of requests.   *)
(***************************************************************************)
EXTENDS LockManager, TLAPS

\* The queue is in order: of two queued requests one is ahead of the other.
QueueOrdered ==
    \A v, w \in waiters :
        v # w => (v.txn \in ahead[w.txn] \/ w.txn \in ahead[v.txn])

\* A transaction inside await has one request, queued or granted and unread;
\* one that is not inside await has none.
OneRequest ==
    /\ \A v, w \in waiters \cup ch : v.txn = w.txn => v = w
    /\ waiters \cap ch = {}
    /\ \A w \in waiters \cup ch : ctl[w.txn] \in {"wait", "expired"}
    /\ \A t \in Txn : ctl[t] \in {"wait", "expired"} => \E w \in waiters \cup ch : w.txn = t

\* A transaction queues for nothing that it holds exclusively: whoever blocked
\* the request would conflict with the lock it holds.
NoDowngradeQueued ==
    \A w \in waiters, l \in held :
        l.txn = w.txn /\ l.on = w.on => l.mode # Exclusive

IInv ==
    /\ TypeOK
    /\ NoConflict
    /\ QueueOrdered
    /\ OneRequest
    /\ WaitForExact
    /\ NoUndetectedDeadlock
    /\ NoLeakedGrant
    /\ NoDowngradeQueued

-----------------------------------------------------------------------------
\* The targets of the locks of t in L.
Targets(L, t) == {l.on : l \in {x \in L : x.txn = t}}

\* inRange and rangeOverlap make conflicts symmetric.
LEMMA ConflictSym ==
    ASSUME NEW l, NEW r, Conflict(l, r)
    PROVE  Conflict(r, l) /\ Touches(r.on, l.on)
BY DEF Conflict, Touches, rangeOverlap

\* What grantKey and grantRange leave in the table.
LEMMA GrantContents ==
    ASSUME NEW H, NEW G
    PROVE  /\ grant(H, G) \subseteq H \cup G
           /\ G \subseteq grant(H, G)
           /\ \A l \in H : l \notin grant(H, G) => \E r \in G : l.on = r.on /\ l.txn = r.txn
           /\ \A D \in SUBSET G : grant(H, G) \ G \subseteq grant(H, D)
BY DEF grant

\* A request of Acquire is a lock with the requester's id and target.
LEMMA LockOfType ==
    ASSUME NEW t \in Txn, NEW q \in Requests
    PROVE  /\ LockOf(t, q) \in Lock
           /\ LockOf(t, q).txn = t
           /\ LockOf(t, q).on = q.on
           /\ q.on \in Target
BY RequestsAssumption DEF LockOf, Lock

\* Wait-for edges lead to transactions.
LEMMA EdgesType ==
    ASSUME NEW H \in SUBSET Lock
    PROVE  /\ \A w : blockers(H, w) \in SUBSET Txn
           /\ \A W : UNION {blockers(H, w) : w \in W} \in SUBSET Txn
BY DEF blockers, Lock

\* Serving the queue in order grants no two conflicting requests, and none
\* that conflicts with a lock that stays held.
LEMMA ServeSafe ==
    ASSUME NEW H, NEW G \in SUBSET waiters, served(H, G), QueueOrdered,
           \A l, m \in H : ~Conflict(l, m)
    PROVE  \A l, m \in grant(H, G) : ~Conflict(l, m)
<1>1. ASSUME NEW l \in G, NEW m \in G PROVE ~Conflict(l, m)
  <2> DEFINE before(w) == {g \in G : g.txn \in ahead[w.txn]}
  <2>1. canGrant(grant(H, before(m)), m) /\ canGrant(grant(H, before(l)), l)
    BY DEF served
  <2>2. before(m) \subseteq grant(H, before(m)) /\ before(l) \subseteq grant(H, before(l))
    BY GrantContents
  <2>3. CASE l = m
    BY <2>3 DEF Conflict
  <2>4. CASE l.txn \in ahead[m.txn]
    BY <2>1, <2>2, <2>4 DEF canGrant
  <2>5. CASE m.txn \in ahead[l.txn]
    <3>1. ~Conflict(m, l)
      BY <2>1, <2>2, <2>5 DEF canGrant
    <3> QED BY <3>1, ConflictSym
  <2> QED BY <2>3, <2>4, <2>5 DEF QueueOrdered
<1>2. ASSUME NEW l \in grant(H, G), l \notin G, NEW m \in G PROVE ~Conflict(l, m)
  <2> DEFINE before == {g \in G : g.txn \in ahead[m.txn]}
  <2>1. canGrant(grant(H, before), m)
    BY DEF served
  <2>2. l \in grant(H, before)
    BY <1>2, GrantContents
  <2> QED BY <2>1, <2>2 DEF canGrant
<1>3. ASSUME NEW m \in grant(H, G), m \notin G, NEW l \in G PROVE ~Conflict(l, m)
  BY <1>2, <1>3, ConflictSym
<1> QED BY <1>1, <1>2, <1>3, GrantContents

-----------------------------------------------------------------------------
\* An empty lock table satisfies the inductive invariant.
LEMMA InitIInv == Init => IInv
<1> SUFFICES ASSUME Init PROVE IInv
  OBVIOUS
<1>1. TypeOK
  BY DEF Init, TypeOK
<1>2. NoConflict /\ QueueOrdered /\ OneRequest
  BY DEF Init, NoConflict, QueueOrdered, OneRequest
<1>3. WaitForExact
  BY DEF Init, WaitForExact
<1>4. NoUndetectedDeadlock
  BY DEF Init, NoUndetectedDeadlock, Queued
<1>5. NoLeakedGrant /\ NoDowngradeQueued
  BY DEF Init, NoLeakedGrant, NoDowngradeQueued
<1> QED BY <1>1, <1>2, <1>3, <1>4, <1>5 DEF IInv

\* A step that leaves the lock table alone keeps it.
LEMMA StutterKeeps ==
    ASSUME IInv, UNCHANGED vars
    PROVE  IInv'
<1> USE DEF IInv, vars
<1>1. TypeOK' /\ NoConflict' /\ QueueOrdered' /\ OneRequest'
  BY DEF TypeOK, NoConflict, QueueOrdered, OneRequest
<1>2. WaitForExact' /\ NoLeakedGrant'
  BY DEF WaitForExact, NoLeakedGrant
<1>3. NoUndetectedDeadlock' /\ NoDowngradeQueued'
  BY DEF NoUndetectedDeadlock, Queued, NoDowngradeQueued
<1> QED BY <1>1, <1>2, <1>3

\* A request granted at once.
LEMMA AcquireGrantedStep ==
    ASSUME IInv, NEW t \in Txn, NEW q \in Requests, AcquireGranted(t, q)
    PROVE  IInv'
<1> DEFINE r == LockOf(t, q)
<1> USE DEF IInv
<1>1. /\ ctl[t] = "run" /\ canGrant(held, r) /\ held' = grant(held, {r})
      /\ waitFor' = refreshWaits(grant(held, {r}), q.on)
      /\ told' = [told EXCEPT ![t] = @ \cup {q.on}]
      /\ UNCHANGED <<waiters, ahead, ch, ctl>>
  BY DEF AcquireGranted
<1>2. r \in Lock /\ r.txn = t /\ r.on = q.on /\ q.on \in Target
  BY LockOfType
<1> HIDE DEF r
<1>3. held' \subseteq Lock
  BY <1>1, <1>2, GrantContents DEF TypeOK
<1>4. \A w \in waiters : w.txn # t
  BY <1>1 DEF OneRequest
<1>5. \A w \in waiters : ~Touches(w.on, q.on) => blockers(held', w) = blockers(held, w)
  <2> SUFFICES ASSUME NEW w \in waiters, ~Touches(w.on, q.on)
               PROVE  \A l : (l \in held /\ Conflict(l, w)) <=> (l \in held' /\ Conflict(l, w))
    BY DEF blockers
  <2> TAKE l
  <2>1. Conflict(l, w) => l.on # q.on
    BY ConflictSym
  <2>2. l \in held' => l \in held \/ l = r
    BY <1>1, GrantContents
  <2>3. l \in held /\ l \notin held' => l.on = r.on
    BY <1>1, GrantContents
  <2> QED BY <1>2, <2>1, <2>2, <2>3
<1>6. TypeOK'
  <2>1. refreshWaits(held', q.on) \in [Txn -> SUBSET Txn]
    BY <1>3, EdgesType DEF refreshWaits, TypeOK
  <2>2. waitFor' \in [Txn -> SUBSET Txn]
    BY <1>1, <2>1
  <2> QED BY <1>1, <1>2, <1>3, <2>2 DEF TypeOK
<1>7. NoConflict'
  <2>1. \A l \in held : ~Conflict(l, r) /\ ~Conflict(r, l)
    BY <1>1, ConflictSym DEF canGrant
  <2>2. ~Conflict(r, r)
    BY DEF Conflict
  <2> QED BY <1>1, <2>1, <2>2, GrantContents DEF NoConflict
<1>8. QueueOrdered' /\ OneRequest'
  BY <1>1 DEF QueueOrdered, OneRequest
<1>9. WaitForExact'
  <2> SUFFICES ASSUME NEW u \in Txn
               PROVE  waitFor'[u] = UNION {blockers(held', w) : w \in {x \in waiters : x.txn = u}}
    BY <1>1 DEF WaitForExact
  <2>1. CASE \E w \in waiters : w.txn = u /\ Touches(w.on, q.on)
    BY <1>1, <2>1 DEF refreshWaits
  <2>2. CASE ~\E w \in waiters : w.txn = u /\ Touches(w.on, q.on)
    <3>1. waitFor'[u] = waitFor[u]
      BY <1>1, <2>2 DEF refreshWaits
    <3>2. \A w \in {x \in waiters : x.txn = u} : blockers(held', w) = blockers(held, w)
      BY <1>5, <2>2
    <3> QED BY <3>1, <3>2 DEF WaitForExact
  <2> QED BY <2>1, <2>2
<1>10. NoUndetectedDeadlock'
  <2> SUFFICES ASSUME NEW C \in SUBSET Queued, C # {},
                      \A w \in waiters : w.txn \in C => blockers(held', w) \cap C # {}
               PROVE  FALSE
    BY <1>1 DEF NoUndetectedDeadlock, Queued
  <2>1. ASSUME NEW w \in waiters, w.txn \in C PROVE blockers(held, w) \cap C # {}
    <3>1. PICK l \in held' : Conflict(l, w) /\ l.txn \in C
      BY <2>1 DEF blockers
    <3>2. l # r
      BY <1>2, <1>4, <3>1 DEF Queued
    <3>3. l \in held
      BY <1>1, <3>2, GrantContents
    <3> QED BY <3>1, <3>3 DEF blockers
  <2> QED BY <2>1 DEF NoUndetectedDeadlock
<1>11. NoLeakedGrant'
  <2> SUFFICES ASSUME NEW u \in Txn
               PROVE  Targets(held', u) = told'[u] \cup Targets(ch, u)
    BY <1>1 DEF NoLeakedGrant, Targets
  <2>1. Targets(held, u) = told[u] \cup Targets(ch, u)
    BY DEF NoLeakedGrant, Targets
  <2>2. CASE u = t
    <3>1. Targets(held', u) = Targets(held, u) \cup {q.on}
      BY <1>1, <1>2, <2>2, GrantContents DEF Targets
    <3> QED BY <1>1, <2>1, <2>2, <3>1 DEF TypeOK
  <2>3. CASE u # t
    <3>1. Targets(held', u) = Targets(held, u)
      BY <1>1, <1>2, <2>3, GrantContents DEF Targets
    <3> QED BY <1>1, <2>1, <2>3, <3>1 DEF TypeOK
  <2> QED BY <2>2, <2>3
<1>12. NoDowngradeQueued'
  BY <1>1, <1>2, <1>4, GrantContents DEF NoDowngradeQueued
<1> QED BY <1>6, <1>7, <1>8, <1>9, <1>10, <1>11, <1>12

\* A request that is queued, or refused because it closes a cycle.
LEMMA AcquireBlockedStep ==
    ASSUME IInv, NEW t \in Txn, NEW q \in Requests, AcquireBlocked(t, q)
    PROVE  IInv'
<1> DEFINE r == LockOf(t, q)
           wf == [waitFor EXCEPT ![t] = blockers(held, r)]
<1> USE DEF IInv
<1>1. ctl[t] = "run" /\ UNCHANGED <<held, ch, told>>
  BY DEF AcquireBlocked
<1>2. r \in Lock /\ r.txn = t
  BY LockOfType
<1>3. \A w \in waiters : w.txn # t
  BY <1>1 DEF OneRequest
<1>4. ~canGrant(held, r)
  BY DEF AcquireBlocked
<1>5. CASE /\ hasCycle(wf, t) /\ waitFor' = [waitFor EXCEPT ![t] = {}]
           /\ UNCHANGED <<waiters, ahead, ctl>>
  <2>1. waitFor[t] = {}
    BY <1>3 DEF WaitForExact
  <2>2. waitFor' = waitFor
    BY <1>5, <2>1 DEF TypeOK
  <2> QED BY <1>1, <1>5, <2>2, StutterKeeps DEF vars
<1>6. CASE /\ ~hasCycle(wf, t) /\ waitFor' = wf /\ waiters' = waiters \cup {r}
           /\ ahead' = [ahead EXCEPT ![t] = Queued]
           /\ ctl' = [ctl EXCEPT ![t] = "wait"]
  <2> HIDE DEF r
  <2>1. TypeOK'
    <3>1. blockers(held, r) \in SUBSET Txn
      BY EdgesType DEF TypeOK
    <3>2. Queued \in SUBSET Txn
      BY DEF Queued, TypeOK, Lock
    <3> QED BY <1>1, <1>2, <1>6, <3>1, <3>2 DEF TypeOK
  <2>2. NoConflict'
    BY <1>1 DEF NoConflict
  <2>3. QueueOrdered'
    BY <1>2, <1>3, <1>6 DEF QueueOrdered, Queued, TypeOK, Lock
  <2>4. OneRequest'
    BY <1>1, <1>2, <1>3, <1>6 DEF OneRequest, TypeOK, Lock
  <2>5. WaitForExact'
    <3> SUFFICES ASSUME NEW u \in Txn
                 PROVE  waitFor'[u] = UNION {blockers(held, w) : w \in {x \in waiters' : x.txn = u}}
      BY <1>1 DEF WaitForExact
    <3>1. CASE u = t
      <4>1. {x \in waiters' : x.txn = u} = {r}
        BY <1>2, <1>3, <1>6, <3>1
      <4>2. waitFor'[u] = blockers(held, r)
        BY <1>6, <3>1 DEF TypeOK
      <4> QED BY <4>1, <4>2
    <3>2. CASE u # t
      <4>1. {x \in waiters' : x.txn = u} = {x \in waiters : x.txn = u}
        BY <1>2, <1>6, <3>2
      <4>2. waitFor'[u] = waitFor[u]
        BY <1>6, <3>2 DEF TypeOK
      <4> QED BY <4>1, <4>2 DEF WaitForExact
    <3> QED BY <3>1, <3>2
  <2>6. NoUndetectedDeadlock'
    <3> SUFFICES ASSUME NEW C \in SUBSET Queued', C # {},
                        \A w \in waiters' : w.txn \in C => blockers(held, w) \cap C # {}
                 PROVE  FALSE
      BY <1>1 DEF NoUndetectedDeadlock
    <3>1. CASE t \notin C
      <4>1. C \in SUBSET Queued
        BY <1>2, <1>6, <3>1 DEF Queued
      <4> QED BY <1>6, <4>1 DEF NoUndetectedDeadlock
    <3>2. CASE t \in C
      <4>1. C \subseteq Txn
        BY <2>1 DEF Queued, TypeOK, Lock
      <4>2. ASSUME NEW u \in C PROVE waitFor'[u] \cap C # {}
        <5>1. PICK w \in waiters' : w.txn = u
          BY DEF Queued
        <5>2. blockers(held, w) \cap C # {}
          BY <5>1
        <5>3. blockers(held, w) \subseteq waitFor'[u]
          BY <1>1, <2>5, <4>1, <5>1 DEF WaitForExact
        <5> QED BY <5>2, <5>3
      <4> QED BY <1>6, <3>2, <4>1, <4>2 DEF hasCycle
    <3> QED BY <3>1, <3>2
  <2>7. NoLeakedGrant'
    BY <1>1 DEF NoLeakedGrant
  <2>8. NoDowngradeQueued'
    <3>1. PICK m \in held : Conflict(m, r)
      BY <1>4 DEF canGrant
    <3>2. ASSUME NEW l \in held, l.txn = r.txn, l.on = r.on, l.mode = Exclusive PROVE FALSE
      <4>1. Conflict(m, l)
        BY <3>1, <3>2 DEF Conflict
      <4> QED BY <4>1 DEF NoConflict
    <3> QED BY <1>1, <1>6, <3>2 DEF NoDowngradeQueued
  <2> QED BY <2>1, <2>2, <2>3, <2>4, <2>5, <2>6, <2>7, <2>8
<1> QED BY <1>5, <1>6 DEF AcquireBlocked

\* A grant read from the channel, by await or by removeCanceledWaiter.
LEMMA ReceiveStep ==
    ASSUME IInv, NEW t \in Txn, Receive(t), UNCHANGED <<held, waiters, ahead, waitFor>>
    PROVE  IInv'
<1> DEFINE granted == {x \in ch : x.txn = t}
<1> USE DEF IInv
<1>1. /\ granted # {} /\ ch' = ch \ granted /\ ctl' = [ctl EXCEPT ![t] = "run"]
      /\ told' = [told EXCEPT ![t] = @ \cup Targets(ch, t)]
  BY DEF Receive, Targets
<1>2. TypeOK'
  BY <1>1 DEF TypeOK, Targets, Lock
<1>3. NoConflict' /\ QueueOrdered' /\ WaitForExact' /\ NoUndetectedDeadlock' /\ NoDowngradeQueued'
  BY DEF NoConflict, QueueOrdered, WaitForExact, NoUndetectedDeadlock, Queued, NoDowngradeQueued
<1>4. OneRequest'
  BY <1>1 DEF OneRequest, TypeOK, Lock
<1>5. NoLeakedGrant'
  <2> SUFFICES ASSUME NEW u \in Txn
               PROVE  Targets(held, u) = told'[u] \cup Targets(ch', u)
    BY DEF NoLeakedGrant, Targets
  <2>1. Targets(held, u) = told[u] \cup Targets(ch, u)
    BY DEF NoLeakedGrant, Targets
  <2>2. CASE u = t
    <3>1. Targets(ch', u) = {}
      BY <1>1, <2>2 DEF Targets
    <3> QED BY <1>1, <2>1, <2>2, <3>1 DEF TypeOK
  <2>3. CASE u # t
    <3>1. Targets(ch', u) = Targets(ch, u)
      BY <1>1, <2>3 DEF Targets
    <3> QED BY <1>1, <2>1, <2>3, <3>1 DEF TypeOK
  <2> QED BY <2>2, <2>3
<1> QED BY <1>2, <1>3, <1>4, <1>5

\* An expired wait gives up its place in the queue, or takes the grant that
\* arrived meanwhile.
LEMMA RemoveCanceledStep ==
    ASSUME IInv, NEW t \in Txn, removeCanceledWaiter(t)
    PROVE  IInv'
<1> USE DEF IInv
<1>1. CASE t \in Queued
  <2>1. /\ waiters' = {w \in waiters : w.txn # t}
        /\ ahead' = [u \in Txn |-> IF u = t THEN {} ELSE ahead[u] \ {t}]
        /\ waitFor' = [waitFor EXCEPT ![t] = {}]
        /\ ctl' = [ctl EXCEPT ![t] = "run"] /\ UNCHANGED <<held, ch, told>>
    BY <1>1 DEF removeCanceledWaiter, dequeue
  <2>2. TypeOK'
    BY <2>1 DEF TypeOK
  <2>3. NoConflict' /\ NoLeakedGrant' /\ NoDowngradeQueued'
    BY <2>1 DEF NoConflict, NoLeakedGrant, NoDowngradeQueued
  <2>4. QueueOrdered'
    BY <2>1 DEF QueueOrdered, TypeOK, Lock
  <2>5. OneRequest'
    BY <1>1, <2>1 DEF OneRequest, Queued, TypeOK, Lock
  <2>6. WaitForExact'
    <3> SUFFICES ASSUME NEW u \in Txn
                 PROVE  waitFor'[u] = UNION {blockers(held, w) : w \in {x \in waiters' : x.txn = u}}
      BY <2>1 DEF WaitForExact
    <3>1. CASE u = t
      BY <2>1, <3>1 DEF TypeOK
    <3>2. CASE u # t
      <4>1. {x \in waiters' : x.txn = u} = {x \in waiters : x.txn = u}
        BY <2>1, <3>2
      <4> QED BY <2>1, <3>2, <4>1 DEF WaitForExact, TypeOK
    <3> QED BY <3>1, <3>2
  <2>7. NoUndetectedDeadlock'
    <3>1. ASSUME NEW C \in SUBSET Queued', NEW w \in waiters, w.txn \in C PROVE w \in waiters'
      BY <2>1, <3>1 DEF Queued
    <3>2. Queued' \subseteq Queued
      BY <2>1 DEF Queued
    <3> QED BY <2>1, <3>1, <3>2 DEF NoUndetectedDeadlock
  <2> QED BY <2>2, <2>3, <2>4, <2>5, <2>6, <2>7
<1>2. CASE t \notin Queued
  BY <1>2, ReceiveStep DEF removeCanceledWaiter
<1> QED BY <1>1, <1>2

\* A wait that expires before lm.mu is taken again.
LEMMA AwaitExpiresStep ==
    ASSUME IInv, NEW t \in Txn, AwaitExpires(t)
    PROVE  IInv'
<1> USE DEF IInv, AwaitExpires
<1>1. TypeOK' /\ OneRequest'
  BY DEF TypeOK, OneRequest, Lock
<1>2. NoConflict' /\ QueueOrdered' /\ WaitForExact'
  BY DEF NoConflict, QueueOrdered, WaitForExact
<1>3. NoUndetectedDeadlock' /\ NoLeakedGrant' /\ NoDowngradeQueued'
  BY DEF NoUndetectedDeadlock, Queued, NoLeakedGrant, NoDowngradeQueued
<1> QED BY <1>1, <1>2, <1>3

\* A release and the wake it runs.
LEMMA ReleaseAllStep ==
    ASSUME IInv, NEW t \in Txn, ReleaseAll(t)
    PROVE  IInv'
<1> DEFINE H == {l \in held : l.txn # t}
<1> USE DEF IInv
<1>0. PICK G \in SUBSET waiters :
        /\ served(H, G) /\ held' = grant(H, G) /\ dequeue({g.txn : g \in G})
        /\ ch' = ch \cup G
        /\ waitFor' = [u \in Txn |->
              UNION {blockers(held', w) : w \in {x \in waiters' : x.txn = u}}]
  BY DEF ReleaseAll
<1>1. /\ served(H, G) /\ held' = grant(H, G) /\ ch' = ch \cup G
      /\ waiters' = {w \in waiters : \A g \in G : g.txn # w.txn}
      /\ ahead' = [u \in Txn |-> IF u \in {g.txn : g \in G} THEN {}
                                 ELSE ahead[u] \ {g.txn : g \in G}]
      /\ waitFor' = [u \in Txn |->
            UNION {blockers(held', w) : w \in {x \in waiters' : x.txn = u}}]
  BY <1>0 DEF dequeue
<1>2. /\ ctl[t] = "run" /\ ctl' = [ctl EXCEPT ![t] = "done"]
      /\ told' = [told EXCEPT ![t] = {}]
  BY DEF ReleaseAll
<1>3. /\ held' \subseteq H \cup G /\ G \subseteq held' /\ H \subseteq held
      /\ \A l \in H : l \notin held' => \E g \in G : l.on = g.on /\ l.txn = g.txn
  BY <1>1, GrantContents
<1>4. held' \subseteq Lock
  BY <1>3 DEF TypeOK
<1>5. \A w \in waiters \cup ch : w.txn # t
  BY <1>2 DEF OneRequest
<1>6. TypeOK'
  <2>1. waitFor' \in [Txn -> SUBSET Txn]
    BY <1>1, <1>4, EdgesType
  <2> QED BY <1>1, <1>2, <1>4, <2>1 DEF TypeOK
<1>7. NoConflict'
  <2>1. \A l, m \in H : ~Conflict(l, m)
    BY DEF NoConflict
  <2> HIDE DEF H
  <2>2. \A l, m \in grant(H, G) : ~Conflict(l, m)
    BY <1>1, <2>1, ServeSafe
  <2> QED BY <1>1, <2>2 DEF NoConflict
<1>8. QueueOrdered'
  BY <1>1 DEF QueueOrdered, TypeOK, Lock
<1>9. OneRequest'
  <2>1. \A v, w \in waiters' \cup ch' : v.txn = w.txn => v = w
    BY <1>1 DEF OneRequest
  <2>2. waiters' \cap ch' = {}
    BY <1>1 DEF OneRequest
  <2>3. \A w \in waiters' \cup ch' : ctl'[w.txn] \in {"wait", "expired"}
    BY <1>1, <1>2, <1>5 DEF OneRequest, TypeOK, Lock
  <2>4. waiters \cup ch \subseteq waiters' \cup ch'
    BY <1>1 DEF OneRequest
  <2>5. \A u \in Txn : ctl'[u] \in {"wait", "expired"} => \E w \in waiters' \cup ch' : w.txn = u
    BY <1>2, <2>4 DEF OneRequest, TypeOK
  <2> QED BY <2>1, <2>2, <2>3, <2>5 DEF OneRequest
<1>10. WaitForExact'
  BY <1>1 DEF WaitForExact
<1>11. NoUndetectedDeadlock'
  <2> SUFFICES ASSUME NEW C \in SUBSET Queued', C # {},
                      \A w \in waiters' : w.txn \in C => blockers(held', w) \cap C # {}
               PROVE  FALSE
    BY DEF NoUndetectedDeadlock
  <2>1. Queued' \subseteq Queued
    BY <1>1 DEF Queued
  <2>2. ASSUME NEW w \in waiters, w.txn \in C PROVE blockers(held, w) \cap C # {}
    <3>1. w \in waiters'
      BY <1>1, <2>2 DEF Queued
    <3>2. PICK l \in held' : Conflict(l, w) /\ l.txn \in C
      BY <2>2, <3>1 DEF blockers
    <3>3. l \notin G
      BY <1>1, <3>2 DEF Queued
    <3> QED BY <1>3, <3>2, <3>3 DEF blockers
  <2> QED BY <2>1, <2>2 DEF NoUndetectedDeadlock
<1>12. NoLeakedGrant'
  <2> SUFFICES ASSUME NEW u \in Txn
               PROVE  Targets(held', u) = told'[u] \cup Targets(ch', u)
    BY DEF NoLeakedGrant, Targets
  <2>1. CASE u = t
    <3>1. Targets(held', u) = {} /\ Targets(ch', u) = {}
      BY <1>1, <1>3, <1>5, <2>1 DEF Targets
    <3> QED BY <1>2, <2>1, <3>1 DEF TypeOK
  <2>2. CASE u # t
    <3>1. Targets(held, u) = told[u] \cup Targets(ch, u)
      BY DEF NoLeakedGrant, Targets
    <3>2. Targets(held', u) = Targets(held, u) \cup Targets(G, u)
      <4>1. Targets(held', u) \subseteq Targets(held, u) \cup Targets(G, u)
        BY <1>3 DEF Targets
      <4>2. Targets(G, u) \subseteq Targets(held', u)
        BY <1>3 DEF Targets
      <4>3. Targets(held, u) \subseteq Targets(held', u)
        BY <1>3, <2>2 DEF Targets
      <4> QED BY <4>1, <4>2, <4>3
    <3>3. Targets(ch', u) = Targets(ch, u) \cup Targets(G, u)
      BY <1>1 DEF Targets
    <3>4. told'[u] = told[u]
      BY <1>2, <2>2 DEF TypeOK
    <3> QED BY <3>1, <3>2, <3>3, <3>4
  <2> QED BY <2>1, <2>2
<1>13. NoDowngradeQueued'
  BY <1>1, <1>3 DEF NoDowngradeQueued
<1> QED BY <1>6, <1>7, <1>8, <1>9, <1>10, <1>11, <1>12, <1>13

-----------------------------------------------------------------------------
\* The inductive invariant holds in every reachable state.
THEOREM Inductive == Spec => []IInv
<1>1. Init => IInv
  BY InitIInv
<1>2. IInv /\ [Next]_vars => IInv'
  <2> SUFFICES ASSUME IInv, [Next]_vars PROVE IInv'
    OBVIOUS
  <2>1. ASSUME NEW t \in Txn, NEW q \in Requests, AcquireGranted(t, q) PROVE IInv'
    BY <2>1, AcquireGrantedStep
  <2>2. ASSUME NEW t \in Txn, NEW q \in Requests, AcquireBlocked(t, q) PROVE IInv'
    BY <2>2, AcquireBlockedStep
  <2>3. ASSUME NEW t \in Txn, AwaitGrant(t) PROVE IInv'
    BY <2>3, ReceiveStep DEF AwaitGrant
  <2>4. ASSUME NEW t \in Txn, AwaitExpires(t) PROVE IInv'
    BY <2>4, AwaitExpiresStep
  <2>5. ASSUME NEW t \in Txn, removeCanceledWaiter(t) PROVE IInv'
    BY <2>5, RemoveCanceledStep
  <2>6. ASSUME NEW t \in Txn, ReleaseAll(t) PROVE IInv'
    BY <2>6, ReleaseAllStep
  <2>7. ASSUME Finished \/ UNCHANGED vars PROVE IInv'
    BY <2>7, StutterKeeps DEF Finished
  <2> QED BY <2>1, <2>2, <2>3, <2>4, <2>5, <2>6, <2>7 DEF Next
<1> QED BY <1>1, <1>2, PTL DEF Spec

\* The variables of the lock table keep their types.
THEOREM TypeCorrect == Spec => []TypeOK
<1>1. IInv => TypeOK
  BY DEF IInv
<1> QED BY <1>1, Inductive, PTL

\* Whatever grants, releases and wake-ups happen, and for any number of
\* transactions, keys and ranges, no two transactions hold conflicting locks.
THEOREM MutualExclusion == Spec => []NoConflict
<1>1. IInv => NoConflict
  BY DEF IInv
<1> QED BY <1>1, Inductive, PTL

\* The wait-for graph is the graph of real blockers: the edges rebuilt by
\* wake and refreshed by a direct grant are all that is ever needed.
THEOREM WaitForGraph == Spec => []WaitForExact
<1>1. IInv => WaitForExact
  BY DEF IInv
<1> QED BY <1>1, Inductive, PTL

\* The cycle search at enqueue time is enough: no cycle of blocked requests
\* is ever formed by a later grant or release.
THEOREM DeadlockDetected == Spec => []NoUndetectedDeadlock
<1>1. IInv => NoUndetectedDeadlock
  BY DEF IInv
<1> QED BY <1>1, Inductive, PTL

\* The race between a grant and an expiring wait loses no grant.
THEOREM GrantsDelivered == Spec => []WaiterAccountedFor
<1>1. IInv => WaiterAccountedFor
  <2> SUFFICES ASSUME IInv, NEW t \in Txn
               PROVE  LET pending == {r \in waiters \cup ch : r.txn = t}
                      IN  IF ctl[t] \in {"wait", "expired"}
                          THEN \E r \in pending : pending = {r} /\ (r \in waiters) # (r \in ch)
                          ELSE pending = {}
    BY DEF WaiterAccountedFor
  <2> USE DEF IInv, OneRequest
  <2>1. CASE ctl[t] \in {"wait", "expired"}
    <3>1. PICK r \in waiters \cup ch : r.txn = t
      BY <2>1
    <3>2. {x \in waiters \cup ch : x.txn = t} = {r}
      BY <3>1
    <3>3. (r \in waiters) # (r \in ch)
      BY <3>1
    <3> QED BY <2>1, <3>1, <3>2, <3>3
  <2>2. CASE ctl[t] \notin {"wait", "expired"}
    BY <2>2
  <2> QED BY <2>1, <2>2
<1> QED BY <1>1, Inductive, PTL

\* A failed acquisition leaves no lock behind, and a successful one is held.
THEOREM NothingLeaked == Spec => []NoLeakedGrant
<1>1. IInv => NoLeakedGrant
  BY DEF IInv
<1> QED BY <1>1, Inductive, PTL

\* A lock that a grant replaces leaves one that blocks the same requests,
\* unless the holder had exclusive and has shared now.
LEMMA GrantBlocks ==
    ASSUME NEW H, NEW G, NEW l \in H, NEW w, Conflict(l, w),
           \A r \in G : r.on = l.on /\ r.txn = l.txn => l.mode # Exclusive
    PROVE  ~canGrant(grant(H, G), w)
<1>1. CASE l \in grant(H, G)
  BY <1>1 DEF canGrant
<1>2. CASE l \notin grant(H, G)
  <2>1. PICK r \in G : r.on = l.on /\ r.txn = l.txn /\ (r.mode = Exclusive \/ l.mode = Exclusive)
    BY <1>2 DEF grant
  <2>2. Conflict(r, w)
    BY <2>1 DEF Conflict
  <2> QED BY <2>2, GrantContents DEF canGrant
<1> QED BY <1>1, <1>2

\* ReleaseAll serves the whole queue, for any queue: a request that wake passed
\* over is blocked by a lock that is still there when the pass is over.
THEOREM QueueServed == Spec => ReleaseServesQueue
<1> DEFINE Serves == (\E t \in Txn : ctl[t] = "run" /\ ctl'[t] = "done")
                        => \A w \in waiters' : ~canGrant(held', w)
<1>1. IInv /\ [Next]_vars => [Serves]_vars
  <2> SUFFICES ASSUME IInv, Next, NEW t \in Txn, ctl[t] = "run", ctl'[t] = "done",
                      NEW w \in waiters'
               PROVE  ~canGrant(held', w)
    OBVIOUS
  <2>1. ReleaseAll(t)
    <3>1. ctl \in [Txn -> {"run", "wait", "expired", "done"}]
      BY DEF IInv, TypeOK
    <3>2. ASSUME NEW u \in Txn, NEW v \in {"run", "wait", "expired"}, ctl' = [ctl EXCEPT ![u] = v]
          PROVE  FALSE
      BY <3>1, <3>2
    <3>3. ASSUME ctl' = ctl PROVE FALSE
      BY <3>3
    <3>4. ASSUME NEW u \in Txn, NEW q \in Requests, AcquireGranted(u, q) \/ AcquireBlocked(u, q)
          PROVE  FALSE
      BY <3>2, <3>3, <3>4 DEF AcquireGranted, AcquireBlocked
    <3>5. ASSUME NEW u \in Txn, AwaitGrant(u) \/ AwaitExpires(u) \/ removeCanceledWaiter(u)
          PROVE  FALSE
      BY <3>2, <3>5 DEF AwaitGrant, AwaitExpires, removeCanceledWaiter, Receive
    <3>6. ASSUME NEW u \in Txn, ReleaseAll(u) PROVE u = t
      BY <3>1, <3>6 DEF ReleaseAll
    <3> QED BY <3>3, <3>4, <3>5, <3>6 DEF Next, Finished, vars
  <2> DEFINE H == {l \in held : l.txn # t}
  <2>2. PICK G \in SUBSET waiters :
            served(H, G) /\ held' = grant(H, G) /\ dequeue({g.txn : g \in G})
    BY <2>1 DEF ReleaseAll
  <2> DEFINE before == {g \in G : g.txn \in ahead[w.txn]}
  <2>3. w \in waiters /\ \A g \in G : g.txn # w.txn
    BY <2>2 DEF dequeue
  <2>4. ~canGrant(grant(H, before), w)
    BY <2>2, <2>3 DEF served
  <2>5. PICK l \in grant(H, before) : Conflict(l, w)
    BY <2>4 DEF canGrant
  <2>6. CASE l \in before
    <3>1. l \in held'
      BY <2>2, <2>6, GrantContents
    <3> QED BY <2>5, <3>1 DEF canGrant
  <2>7. CASE l \in H
    <3>1. \A r \in G : r.on = l.on /\ r.txn = l.txn => l.mode # Exclusive
      BY <2>7 DEF IInv, NoDowngradeQueued
    <3> HIDE DEF H
    <3>2. ~canGrant(grant(H, G), w)
      BY <2>5, <2>7, <3>1, GrantBlocks
    <3> QED BY <2>2, <3>2
  <2>8. l \in before \/ l \in H
    BY GrantContents
  <2> QED BY <2>6, <2>7, <2>8
<1> QED BY <1>1, Inductive, PTL DEF Spec, ReleaseServesQueue

=============================================================================
