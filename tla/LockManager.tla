----------------------------- MODULE LockManager -----------------------------
(***************************************************************************)
(* The transaction lock manager of ordadb-transaction (locks.rs).          *)
(*                                                                         *)
(* Every operation runs under one mutex, so the part of an operation       *)
(* between taking the mutex and either returning or waiting on the         *)
(* condition variable is one atomic action.  A transaction is driven by    *)
(* one session thread, which is inside at most one call of acquire at a    *)
(* time.  Deadlines and cancellation flags are read from outside the       *)
(* manager: a waiting request may find either one raised at any wake-up.   *)
(***************************************************************************)
EXTENDS Naturals, Sequences, FiniteSetsExt

CONSTANTS
    Txns,         \* transaction ids (TransactionId is a u64; the order matters)
    Requests,     \* the (key, mode) pairs that statements ask for
    SkipHeldKeys, \* TRUE: callers never ask again for a key they hold (acquire_dml_locks)
    MaxWaiters,   \* LockManagerOptions.maximum_waiters
    MaxRequests   \* model bound on next_request_id (u64 in the code)

Modes == {"Shared", "Update", "Exclusive"}

ASSUME TxnsAssumption == Txns \subseteq Nat
ASSUME RequestsAssumption == \A r \in Requests : DOMAIN r = {"key", "mode"} /\ r.mode \in Modes
ASSUME BoundsAssumption == SkipHeldKeys \in BOOLEAN /\ MaxWaiters \in Nat \ {0} /\ MaxRequests \in Nat

Keys == {r.key : r \in Requests}

VARIABLES
    granted,           \* key -> set of granted locks (a Vec whose order is never used)
    waiting,           \* key -> queue of wait requests
    deadlock_victims,  \* transactions chosen to break a deadlock
    next_request_id

vars == <<granted, waiting, deadlock_victims, next_request_id>>

\* GrantedLock and WaitRequest have the same three fields.
Lock == [request_id : Nat, txn : Txns, mode : Modes]

-----------------------------------------------------------------------------
(* Helpers over an explicit lock state: g is granted, w is waiting.        *)

compatible_mutant(a, b) == <<a, b>> \in
    {<<"Shared", "Shared">>, <<"Shared", "Update">>, <<"Update", "Shared">>, <<"Update", "Update">>,
     <<"Shared", "Exclusive">>}

compatible(a, b) == <<a, b>> \in
    {<<"Shared", "Shared">>, <<"Shared", "Update">>, <<"Update", "Shared">>}

holders_compatible(g, t, k, m) ==
    \A l \in g[k] : l.txn = t \/ compatible(m, l.mode)

\* A bug that lets a new request overtake the queue of its key.
can_grant_barging(g, w, t, k, m) == holders_compatible(g, t, k, m)

can_grant_immediately(g, w, t, k, m) ==
    /\ w[k] = <<>>
    /\ holders_compatible(g, t, k, m)

earlier_compatible(w, k, p) ==
    \A q \in 1 .. p - 1 :
        w[k][q].txn = w[k][p].txn \/ compatible(w[k][p].mode, w[k][q].mode)

\* The request at position p of the queue of k may take its lock.
waiter_can_run(g, w, k, p) ==
    /\ earlier_compatible(w, k, p)
    /\ holders_compatible(g, w[k][p].txn, k, w[k][p].mode)

grant(g, k, l) == [g EXCEPT ![k] = @ \cup {l}]

\* Request ids are unique, so the retain of the code drops one position.
DropAt(s, p) == [i \in 1 .. Len(s) - 1 |-> IF i < p THEN s[i] ELSE s[i + 1]]

remove_waiter(w, k, p) == [w EXCEPT ![k] = DropAt(@, p)]

waiter_count(w) == MapThenSumSet(LAMBDA k : Len(w[k]), Keys)

\* The transactions t waits for: incompatible holders and incompatible
\* earlier waiters of the keys it is queued on.
Blocks(x, r) == x.txn # r.txn /\ ~compatible(r.mode, x.mode)

wait_for_graph(g, w, t) ==
    {u \in Txns : \E k \in Keys : \E p \in 1 .. Len(w[k]) :
        /\ w[k][p].txn = t
        /\ \/ \E h \in g[k] : h.txn = u /\ Blocks(h, w[k][p])
           \/ \E q \in 1 .. p - 1 : w[k][q].txn = u /\ Blocks(w[k][q], w[k][p])}

\* The code unions every simple path from a transaction back to itself; that
\* union is the set of transactions that reach themselves, and t reaches
\* itself iff t is in every set that holds its successors and is closed.
cycle_members(g, w) ==
    LET succ == [t \in Txns |-> wait_for_graph(g, w, t)]
        Closed(S) == \A u \in S : succ[u] \subseteq S
    IN  {t \in Txns : \A S \in SUBSET Txns : succ[t] \subseteq S /\ Closed(S) => t \in S}

\* A bug that encodes "no victim" as transaction 0.
deadlock_victim_zero(g, w) ==
    LET members == cycle_members(g, w)
    IN  IF members = {} THEN {0} ELSE {t \in members : \A u \in members : u <= t}

\* A bug that never looks for cycles.
deadlock_victim_off(g, w) == {}

\* At most one victim: the highest id on any cycle.
deadlock_victim(g, w) ==
    LET members == cycle_members(g, w)
    IN  {t \in members : \A u \in members : u <= t}

IsWaiting(t) == \E k \in Keys : \E p \in 1 .. Len(waiting[k]) : waiting[k][p].txn = t

-----------------------------------------------------------------------------
(* One turn of the loop of acquire for the request at position p of the    *)
(* queue of k, from the lock state (g, w, v): checks in the code's order.  *)

VictimTurn(k, p, g, w, v) ==
    /\ w[k][p].txn \in v
    /\ granted' = g
    /\ waiting' = remove_waiter(w, k, p)
    /\ deadlock_victims' = v \ {w[k][p].txn}

\* A bug that tests the cancellation flag before the victim flag.
CancelTurn_early(k, p, g, w, v) ==
    /\ granted' = g
    /\ waiting' = remove_waiter(w, k, p)
    /\ deadlock_victims' = v

CancelTurn(k, p, g, w, v) ==
    /\ w[k][p].txn \notin v
    /\ granted' = g
    /\ waiting' = remove_waiter(w, k, p)
    /\ deadlock_victims' = v

GrantTurn(k, p, g, w, v) ==
    /\ w[k][p].txn \notin v
    /\ waiter_can_run(g, w, k, p)
    /\ granted' = grant(g, k, w[k][p])
    /\ waiting' = remove_waiter(w, k, p)
    /\ deadlock_victims' = v

TimeoutTurn(k, p, g, w, v) ==
    /\ w[k][p].txn \notin v
    /\ ~waiter_can_run(g, w, k, p)
    /\ granted' = g
    /\ waiting' = remove_waiter(w, k, p)
    /\ deadlock_victims' = v

WaitTurn(k, p, g, w, v) ==
    /\ w[k][p].txn \notin v
    /\ ~waiter_can_run(g, w, k, p)
    /\ granted' = g /\ waiting' = w /\ deadlock_victims' = v

\* The calls a session thread makes: it is not inside another call, and
\* acquire_dml_locks skips the keys of the guards the transaction holds.
MayAsk(t, r) ==
    /\ ~IsWaiting(t)
    /\ SkipHeldKeys => \A l \in granted[r.key] : l.txn # t
    /\ next_request_id < MaxRequests

NewLock(t, r) == [request_id |-> next_request_id, txn |-> t, mode |-> r.mode]

\* acquire: the uncontended path.
AcquireImmediately(t, r) ==
    /\ MayAsk(t, r)
    /\ can_grant_immediately(granted, waiting, t, r.key, r.mode)
    /\ granted' = grant(granted, r.key, NewLock(t, r))
    /\ next_request_id' = next_request_id + 1
    /\ UNCHANGED <<waiting, deadlock_victims>>

\* acquire: the wait queue is full, error 54000.
AcquireRefused(t, r) ==
    /\ MayAsk(t, r)
    /\ ~can_grant_immediately(granted, waiting, t, r.key, r.mode)
    /\ waiter_count(waiting) >= MaxWaiters
    /\ next_request_id' = next_request_id + 1
    /\ UNCHANGED <<granted, waiting, deadlock_victims>>

\* acquire: join the queue, look for a deadlock, take the first turn of the
\* loop, all without releasing the mutex.
AcquireQueued(t, r) ==
    LET k  == r.key
        w1 == [waiting EXCEPT ![k] = Append(@, NewLock(t, r))]
        v1 == deadlock_victims \cup deadlock_victim(granted, w1)
        p  == Len(w1[k])
    IN  /\ MayAsk(t, r)
        /\ ~can_grant_immediately(granted, waiting, t, k, r.mode)
        /\ waiter_count(waiting) < MaxWaiters
        /\ next_request_id' = next_request_id + 1
        /\ \/ VictimTurn(k, p, granted, w1, v1)
           \/ CancelTurn(k, p, granted, w1, v1)
           \/ GrantTurn(k, p, granted, w1, v1)
           \/ WaitTurn(k, p, granted, w1, v1)

\* Later turns of the loop, after a notification or the poll interval.
Positions(t, k) == {p \in 1 .. Len(waiting[k]) : waiting[k][p].txn = t}

WakeVictim(t) ==
    /\ \E k \in Keys : \E p \in Positions(t, k) : VictimTurn(k, p, granted, waiting, deadlock_victims)
    /\ UNCHANGED next_request_id

WakeCancelled(t) ==
    /\ \E k \in Keys : \E p \in Positions(t, k) : CancelTurn(k, p, granted, waiting, deadlock_victims)
    /\ UNCHANGED next_request_id

WakeGranted(t) ==
    /\ \E k \in Keys : \E p \in Positions(t, k) : GrantTurn(k, p, granted, waiting, deadlock_victims)
    /\ UNCHANGED next_request_id

WakeTimeout(t) ==
    /\ \E k \in Keys : \E p \in Positions(t, k) : TimeoutTurn(k, p, granted, waiting, deadlock_victims)
    /\ UNCHANGED next_request_id

\* Dropping a LockGuard (commit, rollback, a truncated savepoint, a failed
\* statement): release_request.
release_request(t) ==
    /\ ~IsWaiting(t)
    /\ \E k \in Keys : \E l \in granted[k] :
           l.txn = t /\ granted' = [granted EXCEPT ![k] = @ \ {l}]
    /\ UNCHANGED <<waiting, deadlock_victims, next_request_id>>

\* Called by the owner, which is not queued: dropping its wait requests and
\* its victim flag with its locks changes nothing else.
release_transaction(t) ==
    /\ ~IsWaiting(t)
    /\ granted' = [k \in Keys |-> {l \in granted[k] : l.txn # t}]
    /\ deadlock_victims' = deadlock_victims \ {t}
    /\ UNCHANGED <<waiting, next_request_id>>

-----------------------------------------------------------------------------

Init ==
    /\ granted = [k \in Keys |-> {}]
    /\ waiting = [k \in Keys |-> <<>>]
    /\ deadlock_victims = {}
    /\ next_request_id = 1

Next == \E t \in Txns :
    \/ \E r \in Requests : AcquireImmediately(t, r) \/ AcquireRefused(t, r) \/ AcquireQueued(t, r)
    \/ WakeVictim(t) \/ WakeCancelled(t) \/ WakeGranted(t) \/ WakeTimeout(t)
    \/ release_request(t) \/ release_transaction(t)

Spec == Init /\ [][Next]_vars

\* Scheduling: every waiter polls (poll_interval), so a turn that stays
\* enabled is taken; a transaction that is not waiting for a lock ends and
\* drops its guards.  Deadlines and cancellations are not assumed.
Fairness == \A t \in Txns :
    WF_vars(WakeVictim(t)) /\ WF_vars(WakeGranted(t)) /\ WF_vars(release_transaction(t))

FairSpec == Spec /\ Fairness

-----------------------------------------------------------------------------
(* Properties.                                                             *)

Conflict(a, b) == "Exclusive" \in {a, b} \/ (a = "Update" /\ b = "Update")

\* Every key maps to locks and queued requests of known transactions, and the
\* victims are transactions.
TypeOK ==
    /\ granted \in [Keys -> SUBSET Lock]
    /\ waiting \in [Keys -> Seq(Lock)]
    /\ deadlock_victims \subseteq Txns
    /\ next_request_id \in Nat

\* Two transactions never hold conflicting locks on one key, whichever path of
\* acquire granted them: the exclusion that LockMode::compatible promises.
NoConflictingGrants ==
    \A k \in Keys : \A a, b \in granted[k] : a.txn # b.txn => ~Conflict(a.mode, b.mode)

\* A victim flag always belongs to a transaction that is still queued, so no
\* later acquire of that transaction fails with 40P01 for an old deadlock.
VictimsAreWaiting == \A t \in deadlock_victims : IsWaiting(t)

\* A request granted in a step never overtakes a conflicting request of
\* another transaction that was queued on the same key before it.
NoOvertaking ==
    [][\A k \in Keys : \A p \in 1 .. Len(waiting[k]) : \A l \in granted'[k] \ granted[k] :
          \/ \E q \in 1 .. p : waiting[k][q] = l
          \/ l.txn = waiting[k][p].txn
          \/ ~Conflict(l.mode, waiting[k][p].mode)]_vars

\* Whenever transactions wait for each other in a cycle, one of them has been
\* chosen as victim: a deadlock never has to wait for a lock timeout.
DeadlockHasVictim ==
    LET members == cycle_members(granted, waiting)
    IN  members # {} => members \cap deadlock_victims # {}

\* Every lock wait ends, without help from a deadline or a cancellation, when
\* transactions that do not wait eventually release their locks.
WaitsEnd == \A t \in Txns : IsWaiting(t) ~> ~IsWaiting(t)
=============================================================================
