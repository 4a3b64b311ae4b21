-------------------------- MODULE LockManagerProofs --------------------------
(* Proofs about LockManager, for any transactions, requests and bounds.    *)
EXTENDS LockManager, TLAPS

\* Taking one position out of a queue leaves a queue that is one shorter and
\* holds every other element, here or one position earlier.
LEMMA DropAtFacts ==
    ASSUME NEW S, NEW s \in Seq(S), NEW p \in 1 .. Len(s)
    PROVE  /\ DropAt(s, p) \in Seq(S)
           /\ Len(DropAt(s, p)) = Len(s) - 1
           /\ \A q \in 1 .. Len(s) : q < p => q \in 1 .. Len(s) - 1 /\ DropAt(s, p)[q] = s[q]
           /\ \A q \in 1 .. Len(s) : q > p => q - 1 \in 1 .. Len(s) - 1 /\ DropAt(s, p)[q - 1] = s[q]
  <1>1. Len(s) - 1 \in Nat
    OBVIOUS
  <1>2. \A i \in 1 .. Len(s) - 1 : (IF i < p THEN s[i] ELSE s[i + 1]) \in S
    OBVIOUS
  <1>3. DropAt(s, p) \in Seq(S) /\ Len(DropAt(s, p)) = Len(s) - 1
    BY <1>1, <1>2 DEF DropAt
  <1>4. ASSUME NEW q \in 1 .. Len(s), q < p
        PROVE  q \in 1 .. Len(s) - 1 /\ DropAt(s, p)[q] = s[q]
    BY <1>4 DEF DropAt
  <1>5. ASSUME NEW q \in 1 .. Len(s), q > p
        PROVE  q - 1 \in 1 .. Len(s) - 1 /\ DropAt(s, p)[q - 1] = s[q]
    BY <1>5 DEF DropAt
  <1> QED BY <1>3, <1>4, <1>5

\* The queues keep their type when a request leaves one of them.
LEMMA RemoveWaiterType ==
    ASSUME NEW w \in [Keys -> Seq(Lock)], NEW k \in Keys, NEW p \in 1 .. Len(w[k])
    PROVE  remove_waiter(w, k, p) \in [Keys -> Seq(Lock)]
  <1>1. DropAt(w[k], p) \in Seq(Lock)
    BY DropAtFacts
  <1> QED BY <1>1 DEF remove_waiter

\* When one request leaves, every other transaction that was queued still is.
LEMMA RemoveWaiterKeeps ==
    ASSUME NEW w \in [Keys -> Seq(Lock)], NEW k \in Keys, NEW p \in 1 .. Len(w[k]),
           NEW j \in Keys, NEW q \in 1 .. Len(w[j]), w[j][q].txn # w[k][p].txn
    PROVE  \E i \in 1 .. Len(remove_waiter(w, k, p)[j]) :
               remove_waiter(w, k, p)[j][i].txn = w[j][q].txn
  <1>1. CASE j # k
    BY <1>1 DEF remove_waiter
  <1>2. CASE j = k
    <2>1. remove_waiter(w, k, p)[j] = DropAt(w[k], p)
      BY <1>2 DEF remove_waiter
    <2>a. w[k] \in Seq(Lock) /\ q \in 1 .. Len(w[k])
      BY <1>2
    <2>2. /\ Len(DropAt(w[k], p)) = Len(w[k]) - 1
          /\ q < p => q \in 1 .. Len(w[k]) - 1 /\ DropAt(w[k], p)[q] = w[k][q]
          /\ q > p => q - 1 \in 1 .. Len(w[k]) - 1 /\ DropAt(w[k], p)[q - 1] = w[k][q]
      BY <2>a, DropAtFacts
    <2>3. CASE q < p
      BY <1>2, <2>1, <2>2, <2>3
    <2>4. CASE q > p
      BY <1>2, <2>1, <2>2, <2>4
    <2> QED BY <1>2, <2>3, <2>4
  <1> QED BY <1>1, <1>2

\* A request built by acquire is a lock.
LEMMA NewLockType ==
    ASSUME NEW t \in Txns, NEW r \in Requests, next_request_id \in Nat
    PROVE  NewLock(t, r) \in Lock /\ NewLock(t, r).txn = t /\ r.key \in Keys
  BY RequestsAssumption DEF NewLock, Lock, Keys

\* A deadlock victim is a transaction that is queued on some key: a
\* transaction that waits for nobody is on no cycle.
LEMMA VictimFacts ==
    ASSUME NEW g, NEW w, NEW t \in deadlock_victim(g, w)
    PROVE  t \in Txns /\ \E k \in Keys : \E p \in 1 .. Len(w[k]) : w[k][p].txn = t
  <1>1. t \in cycle_members(g, w)
    BY DEF deadlock_victim
  <1>2. t \in Txns
    BY <1>1 DEF cycle_members
  <1>3. wait_for_graph(g, w, t) # {}
    <2> SUFFICES ASSUME wait_for_graph(g, w, t) = {} PROVE FALSE
      OBVIOUS
    <2>1. {} \in SUBSET Txns
      OBVIOUS
    <2> QED BY <1>1, <1>2, <2>1 DEF cycle_members
  <1>4. PICK u \in wait_for_graph(g, w, t) : TRUE
    BY <1>3
  <1> QED BY <1>2, <1>4 DEF wait_for_graph

-----------------------------------------------------------------------------
\* One step of any action keeps the types.
LEMMA TypeStep == TypeOK /\ [Next]_vars => TypeOK'
  <1> SUFFICES ASSUME TypeOK, [Next]_vars PROVE TypeOK'
    OBVIOUS
  <1> USE DEF TypeOK
  <1>1. ASSUME NEW t \in Txns, NEW r \in Requests, AcquireImmediately(t, r) PROVE TypeOK'
    BY <1>1, NewLockType DEF AcquireImmediately, grant
  <1>2. ASSUME NEW t \in Txns, NEW r \in Requests, AcquireRefused(t, r) PROVE TypeOK'
    BY <1>2 DEF AcquireRefused
  <1>3. ASSUME NEW t \in Txns, NEW r \in Requests, AcquireQueued(t, r) PROVE TypeOK'
    <2> DEFINE k  == r.key
               w1 == [waiting EXCEPT ![k] = Append(@, NewLock(t, r))]
               v1 == deadlock_victims \cup deadlock_victim(granted, w1)
               p  == Len(w1[k])
    <2>1. k \in Keys /\ NewLock(t, r) \in Lock
      BY NewLockType
    <2>2. w1 \in [Keys -> Seq(Lock)] /\ p \in 1 .. Len(w1[k])
      BY <2>1
    <2>3. v1 \subseteq Txns
      BY VictimFacts
    <2> HIDE DEF w1, v1, p, k
    <2>4. remove_waiter(w1, k, p) \in [Keys -> Seq(Lock)] /\ w1[k][p] \in Lock
      BY <2>1, <2>2, RemoveWaiterType
    <2>5. grant(granted, k, w1[k][p]) \in [Keys -> SUBSET Lock]
      BY <2>1, <2>4 DEF grant
    <2>6. next_request_id' \in Nat
      BY <1>3 DEF AcquireQueued
    <2>7. \/ VictimTurn(k, p, granted, w1, v1)
          \/ CancelTurn(k, p, granted, w1, v1)
          \/ GrantTurn(k, p, granted, w1, v1)
          \/ WaitTurn(k, p, granted, w1, v1)
      BY <1>3 DEF AcquireQueued, w1, v1, p, k
    <2> QED BY <2>2, <2>3, <2>4, <2>5, <2>6, <2>7 DEF VictimTurn, CancelTurn, GrantTurn, WaitTurn
  <1>4. ASSUME NEW t \in Txns,
               WakeVictim(t) \/ WakeCancelled(t) \/ WakeGranted(t) \/ WakeTimeout(t)
        PROVE  TypeOK'
    <2>0. PICK k \in Keys : \E p \in 1 .. Len(waiting[k]) :
              \/ VictimTurn(k, p, granted, waiting, deadlock_victims)
              \/ CancelTurn(k, p, granted, waiting, deadlock_victims)
              \/ GrantTurn(k, p, granted, waiting, deadlock_victims)
              \/ TimeoutTurn(k, p, granted, waiting, deadlock_victims)
      BY <1>4 DEF WakeVictim, WakeCancelled, WakeGranted, WakeTimeout, Positions
    <2>1. PICK p \in 1 .. Len(waiting[k]) :
              \/ VictimTurn(k, p, granted, waiting, deadlock_victims)
              \/ CancelTurn(k, p, granted, waiting, deadlock_victims)
              \/ GrantTurn(k, p, granted, waiting, deadlock_victims)
              \/ TimeoutTurn(k, p, granted, waiting, deadlock_victims)
      BY <2>0
    <2>2. remove_waiter(waiting, k, p) \in [Keys -> Seq(Lock)]
      BY RemoveWaiterType
    <2>3. grant(granted, k, waiting[k][p]) \in [Keys -> SUBSET Lock]
      BY DEF grant
    <2>4. next_request_id' = next_request_id
      BY <1>4 DEF WakeVictim, WakeCancelled, WakeGranted, WakeTimeout
    <2> QED BY <2>1, <2>2, <2>3, <2>4 DEF VictimTurn, CancelTurn, GrantTurn, TimeoutTurn
  <1>5. ASSUME NEW t \in Txns, release_request(t) PROVE TypeOK'
    BY <1>5 DEF release_request
  <1>6. ASSUME NEW t \in Txns, release_transaction(t) PROVE TypeOK'
    BY <1>6 DEF release_transaction
  <1>7. CASE UNCHANGED vars
    BY <1>7 DEF vars
  <1> QED BY <1>1, <1>2, <1>3, <1>4, <1>5, <1>6, <1>7 DEF Next

\* The lock manager keeps its types.
THEOREM TypeCorrect == Spec => []TypeOK
  <1>1. Init => TypeOK
    BY DEF Init, TypeOK
  <1> QED BY <1>1, TypeStep, PTL DEF Spec

-----------------------------------------------------------------------------
\* The modes that compatible lets two transactions share never conflict.
LEMMA CompatibleModes ==
    ASSUME NEW a \in Modes, NEW b \in Modes, compatible(a, b)
    PROVE  ~Conflict(a, b) /\ ~Conflict(b, a)
  BY DEF compatible, Conflict, Modes

\* Granting a lock that is compatible with the holders keeps the exclusion.
LEMMA GrantKeepsExclusion ==
    ASSUME TypeOK, NoConflictingGrants, NEW k \in Keys, NEW l \in Lock,
           holders_compatible(granted, l.txn, k, l.mode),
           granted' = grant(granted, k, l)
    PROVE  NoConflictingGrants'
  <1> SUFFICES ASSUME NEW j \in Keys, NEW a \in granted'[j], NEW b \in granted'[j], a.txn # b.txn
               PROVE  ~Conflict(a.mode, b.mode)
    BY DEF NoConflictingGrants
  <1>1. granted'[j] = IF j = k THEN granted[j] \cup {l} ELSE granted[j]
    BY DEF grant, TypeOK
  <1>2. a \in Lock /\ b \in Lock
    BY <1>1 DEF TypeOK
  <1>3. a.mode \in Modes /\ b.mode \in Modes
    BY <1>2 DEF Lock
  <1>4. CASE a \in granted[j] /\ b \in granted[j]
    BY <1>4 DEF NoConflictingGrants
  <1>5. CASE j = k /\ a = l /\ b \in granted[j]
    BY <1>3, <1>5, CompatibleModes DEF holders_compatible
  <1>6. CASE j = k /\ b = l /\ a \in granted[j]
    BY <1>3, <1>6, CompatibleModes DEF holders_compatible
  <1> QED BY <1>1, <1>4, <1>5, <1>6

\* A step that adds no lock keeps the exclusion.
LEMMA FewerGrantsKeepExclusion ==
    ASSUME NoConflictingGrants, \A k \in Keys : granted'[k] \subseteq granted[k]
    PROVE  NoConflictingGrants'
  BY DEF NoConflictingGrants

\* Two transactions never hold conflicting locks on one key.
THEOREM Exclusion == Spec => []NoConflictingGrants
  <1>1. Init => NoConflictingGrants
    BY DEF Init, NoConflictingGrants
  <1>2. TypeOK /\ NoConflictingGrants /\ [Next]_vars => NoConflictingGrants'
    <2> SUFFICES ASSUME TypeOK, NoConflictingGrants, [Next]_vars PROVE NoConflictingGrants'
      OBVIOUS
    <2>1. ASSUME NEW t \in Txns, NEW r \in Requests, AcquireImmediately(t, r)
          PROVE  NoConflictingGrants'
      <3>1. NewLock(t, r) \in Lock /\ r.key \in Keys
            /\ NewLock(t, r).txn = t /\ NewLock(t, r).mode = r.mode
        BY NewLockType DEF TypeOK, NewLock
      <3> QED BY <2>1, <3>1, GrantKeepsExclusion DEF AcquireImmediately, can_grant_immediately
    <2>2. ASSUME NEW t \in Txns, NEW r \in Requests, AcquireRefused(t, r)
          PROVE  NoConflictingGrants'
      BY <2>2, FewerGrantsKeepExclusion DEF AcquireRefused
    <2>3. ASSUME NEW t \in Txns, NEW r \in Requests, AcquireQueued(t, r)
          PROVE  NoConflictingGrants'
      <3> DEFINE k  == r.key
                 w1 == [waiting EXCEPT ![k] = Append(@, NewLock(t, r))]
                 v1 == deadlock_victims \cup deadlock_victim(granted, w1)
                 p  == Len(w1[k])
      <3>1. NewLock(t, r) \in Lock /\ k \in Keys
        BY NewLockType DEF TypeOK
      <3>2. w1[k][p] \in Lock
        BY <3>1 DEF TypeOK
      <3> HIDE DEF w1, v1, p, k
      <3>3. \/ granted' = granted
            \/ GrantTurn(k, p, granted, w1, v1)
        BY <2>3 DEF AcquireQueued, w1, v1, p, k, VictimTurn, CancelTurn, WaitTurn
      <3>4. CASE GrantTurn(k, p, granted, w1, v1)
        BY <3>1, <3>2, <3>4, GrantKeepsExclusion DEF GrantTurn, waiter_can_run
      <3> QED BY <3>3, <3>4, FewerGrantsKeepExclusion
    <2>4. ASSUME NEW t \in Txns, WakeVictim(t) \/ WakeCancelled(t) \/ WakeTimeout(t)
          PROVE  NoConflictingGrants'
      BY <2>4, FewerGrantsKeepExclusion
      DEF WakeVictim, WakeCancelled, WakeTimeout, VictimTurn, CancelTurn, TimeoutTurn
    <2>5. ASSUME NEW t \in Txns, WakeGranted(t)
          PROVE  NoConflictingGrants'
      <3>1. PICK k \in Keys : \E p \in 1 .. Len(waiting[k]) :
                GrantTurn(k, p, granted, waiting, deadlock_victims)
        BY <2>5 DEF WakeGranted, Positions
      <3>2. PICK p \in 1 .. Len(waiting[k]) : GrantTurn(k, p, granted, waiting, deadlock_victims)
        BY <3>1
      <3>3. waiting[k][p] \in Lock
        BY DEF TypeOK
      <3> QED BY <3>2, <3>3, GrantKeepsExclusion DEF GrantTurn, waiter_can_run
    <2>6. ASSUME NEW t \in Txns, release_request(t) \/ release_transaction(t)
          PROVE  NoConflictingGrants'
      <3>1. \A k \in Keys : granted'[k] \subseteq granted[k]
        BY <2>6 DEF release_request, release_transaction, TypeOK
      <3> QED BY <3>1, FewerGrantsKeepExclusion
    <2>7. CASE UNCHANGED vars
      BY <2>7, FewerGrantsKeepExclusion DEF vars
    <2> QED BY <2>1, <2>2, <2>3, <2>4, <2>5, <2>6, <2>7 DEF Next
  <1> QED BY <1>1, <1>2, TypeCorrect, PTL DEF Spec

-----------------------------------------------------------------------------
\* When every victim is queued in w and the request at position p of k leaves
\* w, every victim but its owner is still queued.
LEMMA OtherVictimsStay ==
    ASSUME NEW w \in [Keys -> Seq(Lock)], NEW k \in Keys, NEW p \in 1 .. Len(w[k]), NEW v,
           \A u \in v : \E j \in Keys : \E q \in 1 .. Len(w[j]) : w[j][q].txn = u,
           waiting' = remove_waiter(w, k, p),
           deadlock_victims' \subseteq v \ {w[k][p].txn}
    PROVE  VictimsAreWaiting'
  <1> SUFFICES ASSUME NEW u \in deadlock_victims'
               PROVE  \E j \in Keys : \E i \in 1 .. Len(waiting'[j]) : waiting'[j][i].txn = u
    BY DEF VictimsAreWaiting, IsWaiting
  <1>1. PICK j \in Keys : \E q \in 1 .. Len(w[j]) : w[j][q].txn = u
    OBVIOUS
  <1>2. PICK q \in 1 .. Len(w[j]) : w[j][q].txn = u
    BY <1>1
  <1>3. w[j][q].txn # w[k][p].txn
    BY <1>2
  <1>4. \E i \in 1 .. Len(remove_waiter(w, k, p)[j]) : remove_waiter(w, k, p)[j][i].txn = w[j][q].txn
    BY ONLY w \in [Keys -> Seq(Lock)], k \in Keys, p \in 1 .. Len(w[k]), j \in Keys,
            q \in 1 .. Len(w[j]), <1>3, RemoveWaiterKeeps, SMT
  <1> QED BY <1>2, <1>4

\* A victim flag always belongs to a transaction that is still queued.
THEOREM NoStaleVictims == Spec => []VictimsAreWaiting
  <1>1. Init => VictimsAreWaiting
    BY DEF Init, VictimsAreWaiting
  <1>2. TypeOK /\ VictimsAreWaiting /\ [Next]_vars => VictimsAreWaiting'
    <2> SUFFICES ASSUME TypeOK, VictimsAreWaiting, [Next]_vars PROVE VictimsAreWaiting'
      OBVIOUS
    <2>1. ASSUME NEW t \in Txns, NEW r \in Requests, AcquireQueued(t, r)
          PROVE  VictimsAreWaiting'
      <3> DEFINE k  == r.key
                 w1 == [waiting EXCEPT ![k] = Append(@, NewLock(t, r))]
                 v1 == deadlock_victims \cup deadlock_victim(granted, w1)
                 p  == Len(w1[k])
      <3>1. NewLock(t, r) \in Lock /\ k \in Keys
        BY NewLockType DEF TypeOK
      <3>2. w1 \in [Keys -> Seq(Lock)] /\ p \in 1 .. Len(w1[k])
        BY <3>1 DEF TypeOK
      <3>3. \A j \in Keys : \A q \in 1 .. Len(waiting[j]) :
                q \in 1 .. Len(w1[j]) /\ w1[j][q] = waiting[j][q]
        BY <3>1 DEF TypeOK
      <3>4. ASSUME NEW u \in v1
            PROVE  \E j \in Keys : \E q \in 1 .. Len(w1[j]) : w1[j][q].txn = u
        <4>1. CASE u \in deadlock_victims
          <5>1. PICK j \in Keys : \E q \in 1 .. Len(waiting[j]) : waiting[j][q].txn = u
            BY <4>1 DEF VictimsAreWaiting, IsWaiting
          <5>2. PICK q \in 1 .. Len(waiting[j]) : waiting[j][q].txn = u
            BY <5>1
          <5>3. q \in 1 .. Len(w1[j]) /\ w1[j][q] = waiting[j][q]
            BY <3>3
          <5> HIDE DEF w1
          <5> QED BY <5>2, <5>3
        <4>2. CASE u \in deadlock_victim(granted, w1)
          <5> HIDE DEF w1
          <5> QED BY <4>2, VictimFacts, SMT
        <4> QED BY <4>1, <4>2
      <3> HIDE DEF w1, v1, p, k
      <3>5. \/ VictimTurn(k, p, granted, w1, v1)
            \/ CancelTurn(k, p, granted, w1, v1)
            \/ GrantTurn(k, p, granted, w1, v1)
            \/ WaitTurn(k, p, granted, w1, v1)
        BY <2>1 DEF AcquireQueued, w1, v1, p, k
      <3>6. CASE WaitTurn(k, p, granted, w1, v1)
        BY <3>4, <3>6 DEF WaitTurn, VictimsAreWaiting, IsWaiting
      <3>7. CASE ~WaitTurn(k, p, granted, w1, v1)
        <4>1. waiting' = remove_waiter(w1, k, p) /\ deadlock_victims' \subseteq v1 \ {w1[k][p].txn}
          BY <3>5, <3>7 DEF VictimTurn, CancelTurn, GrantTurn
        <4> QED BY <3>1, <3>2, <3>4, <4>1, OtherVictimsStay
      <3> QED BY <3>6, <3>7
    <2>2. ASSUME NEW t \in Txns,
                 WakeVictim(t) \/ WakeCancelled(t) \/ WakeGranted(t) \/ WakeTimeout(t)
          PROVE  VictimsAreWaiting'
      <3>1. PICK k \in Keys : \E p \in 1 .. Len(waiting[k]) :
                /\ waiting' = remove_waiter(waiting, k, p)
                /\ deadlock_victims' \subseteq deadlock_victims \ {waiting[k][p].txn}
        BY <2>2 DEF WakeVictim, WakeCancelled, WakeGranted, WakeTimeout, Positions,
                    VictimTurn, CancelTurn, GrantTurn, TimeoutTurn
      <3>2. PICK p \in 1 .. Len(waiting[k]) :
                /\ waiting' = remove_waiter(waiting, k, p)
                /\ deadlock_victims' \subseteq deadlock_victims \ {waiting[k][p].txn}
        BY <3>1
      <3> QED BY <3>2, OtherVictimsStay DEF VictimsAreWaiting, IsWaiting, TypeOK
    <2>3. ASSUME waiting' = waiting, deadlock_victims' \subseteq deadlock_victims
          PROVE  VictimsAreWaiting'
      BY <2>3 DEF VictimsAreWaiting, IsWaiting
    <2>4. ASSUME NEW t \in Txns, NEW r \in Requests, AcquireImmediately(t, r) \/ AcquireRefused(t, r)
          PROVE  VictimsAreWaiting'
      BY <2>3, <2>4 DEF AcquireImmediately, AcquireRefused
    <2>5. ASSUME NEW t \in Txns, release_request(t) \/ release_transaction(t)
          PROVE  VictimsAreWaiting'
      BY <2>3, <2>5 DEF release_request, release_transaction
    <2>6. CASE UNCHANGED vars
      BY <2>3, <2>6 DEF vars
    <2> QED BY <2>1, <2>2, <2>4, <2>5, <2>6 DEF Next
  <1> QED BY <1>1, <1>2, TypeCorrect, PTL DEF Spec

-----------------------------------------------------------------------------
\* What one step of NoOvertaking says.
QueueOrderStep ==
    \A k \in Keys : \A p \in 1 .. Len(waiting[k]) : \A l \in granted'[k] \ granted[k] :
        \/ \E q \in 1 .. p : waiting[k][q] = l
        \/ l.txn = waiting[k][p].txn
        \/ ~Conflict(l.mode, waiting[k][p].mode)

\* A grant never overtakes a conflicting request queued before it.
THEOREM QueueOrder == Spec => NoOvertaking
  <1>1. TypeOK /\ [Next]_vars => QueueOrderStep
    <2> SUFFICES ASSUME TypeOK, [Next]_vars PROVE QueueOrderStep
      OBVIOUS
    <2>1. ASSUME NEW t \in Txns, NEW r \in Requests, AcquireImmediately(t, r)
          PROVE  QueueOrderStep
      <3>1. r.key \in Keys /\ waiting[r.key] = <<>>
        BY <2>1, NewLockType DEF AcquireImmediately, can_grant_immediately, TypeOK
      <3>2. \A k \in Keys : k # r.key => granted'[k] = granted[k]
        BY <2>1 DEF AcquireImmediately, grant, TypeOK
      <3> QED BY <3>1, <3>2 DEF QueueOrderStep
    <2>2. ASSUME NEW t \in Txns, NEW r \in Requests, AcquireQueued(t, r)
          PROVE  QueueOrderStep
      <3> DEFINE k  == r.key
                 l  == NewLock(t, r)
                 w1 == [waiting EXCEPT ![k] = Append(@, l)]
                 v1 == deadlock_victims \cup deadlock_victim(granted, w1)
                 n  == Len(w1[k])
      <3>1. l \in Lock /\ k \in Keys
        BY NewLockType DEF TypeOK
      <3>2. w1[k] = Append(waiting[k], l) /\ waiting[k] \in Seq(Lock)
        BY <3>1 DEF TypeOK
      <3>3. n = Len(waiting[k]) + 1 /\ w1[k][n] = l
        BY <3>1, <3>2
      <3>4. \A p \in 1 .. Len(waiting[k]) : p \in 1 .. n - 1 /\ w1[k][p] = waiting[k][p]
        BY <3>1, <3>2, <3>3
      <3> HIDE DEF w1, v1, n, k, l
      <3>5. granted' = granted \/ GrantTurn(k, n, granted, w1, v1)
        BY <2>2 DEF AcquireQueued, w1, v1, n, k, l, VictimTurn, CancelTurn, WaitTurn
      <3>6. CASE GrantTurn(k, n, granted, w1, v1)
        <4>1. \A j \in Keys : granted'[j] \ granted[j] \subseteq (IF j = k THEN {l} ELSE {})
          BY <3>1, <3>3, <3>6 DEF GrantTurn, grant, TypeOK
        <4>2. ASSUME NEW p \in 1 .. Len(waiting[k])
              PROVE  l.txn = waiting[k][p].txn \/ ~Conflict(l.mode, waiting[k][p].mode)
          <5>1. l.txn = waiting[k][p].txn \/ compatible(l.mode, waiting[k][p].mode)
            BY <3>3, <3>4, <3>6 DEF GrantTurn, waiter_can_run, earlier_compatible
          <5>a. waiting[k][p] \in Lock
            BY <3>2
          <5>2. l.mode \in Modes /\ waiting[k][p].mode \in Modes
            BY <3>1, <5>a DEF Lock
          <5> QED BY <5>1, <5>2, CompatibleModes
        <4> QED BY <4>1, <4>2 DEF QueueOrderStep
      <3> QED BY <3>5, <3>6 DEF QueueOrderStep
    <2>3. ASSUME NEW t \in Txns, WakeGranted(t)
          PROVE  QueueOrderStep
      <3>1. PICK k \in Keys : \E n \in 1 .. Len(waiting[k]) :
                GrantTurn(k, n, granted, waiting, deadlock_victims)
        BY <2>3 DEF WakeGranted, Positions
      <3>2. PICK n \in 1 .. Len(waiting[k]) : GrantTurn(k, n, granted, waiting, deadlock_victims)
        BY <3>1
      <3>3. \A j \in Keys : granted'[j] \ granted[j] \subseteq (IF j = k THEN {waiting[k][n]} ELSE {})
        BY <3>2 DEF GrantTurn, grant, TypeOK
      <3>4. ASSUME NEW p \in 1 .. Len(waiting[k])
            PROVE  \/ \E q \in 1 .. p : waiting[k][q] = waiting[k][n]
                   \/ waiting[k][n].txn = waiting[k][p].txn
                   \/ ~Conflict(waiting[k][n].mode, waiting[k][p].mode)
        <4>1. CASE n <= p
          BY <4>1
        <4>2. CASE p < n
          <5>1. \/ waiting[k][n].txn = waiting[k][p].txn
                \/ compatible(waiting[k][n].mode, waiting[k][p].mode)
            BY <3>2, <4>2 DEF GrantTurn, waiter_can_run, earlier_compatible
          <5>2. waiting[k][n] \in Lock /\ waiting[k][p] \in Lock
            BY DEF TypeOK
          <5>3. waiting[k][n].mode \in Modes /\ waiting[k][p].mode \in Modes
            BY <5>2 DEF Lock
          <5> QED BY <5>1, <5>3, CompatibleModes
        <4> QED BY <4>1, <4>2
      <3> QED BY <3>3, <3>4 DEF QueueOrderStep
    <2>4. ASSUME \A k \in Keys : granted'[k] \subseteq granted[k]
          PROVE  QueueOrderStep
      BY <2>4 DEF QueueOrderStep
    <2>5. ASSUME NEW t \in Txns,
                 \/ \E r \in Requests : AcquireRefused(t, r)
                 \/ WakeVictim(t) \/ WakeCancelled(t) \/ WakeTimeout(t)
                 \/ release_request(t) \/ release_transaction(t)
          PROVE  QueueOrderStep
      <3>1. \A k \in Keys : granted'[k] \subseteq granted[k]
        BY <2>5 DEF AcquireRefused, WakeVictim, WakeCancelled, WakeTimeout, VictimTurn, CancelTurn,
                    TimeoutTurn, release_request, release_transaction, TypeOK
      <3> QED BY <2>4, <3>1
    <2>6. CASE UNCHANGED vars
      BY <2>4, <2>6 DEF vars
    <2> QED BY <2>1, <2>2, <2>3, <2>5, <2>6 DEF Next
  <1>2. [][TypeOK /\ [Next]_vars]_vars => NoOvertaking
    BY <1>1, PTL DEF NoOvertaking, QueueOrderStep
  <1> QED BY <1>2, TypeCorrect, PTL DEF Spec
=============================================================================
