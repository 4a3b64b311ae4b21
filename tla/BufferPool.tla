------------------------------ MODULE BufferPool ------------------------------
(***************************************************************************)
(* BufferPool and PageGuard (ordadb-storage, buffer.rs) over the data file *)
(* (DiskManager, disk.rs) and the write-ahead log, which is the barrier    *)
(* every dirty page has to pass.  A page's content is the LSN of its last  *)
(* change.  Every operation holds the pool's mutex and is one step; what   *)
(* its callers do between two of them (keep guards, change pages, resize   *)
(* the file) comes in any order.                                           *)
(***************************************************************************)
EXTENDS Naturals, Sequences, FiniteSets

CONSTANTS
    PageIds,   \* the pages that callers ask for, 0, 1, ...
    capacity,
    MaxGuards, MaxClock, MaxLsn   \* bounds

ASSUME PoolAssumption == 0 \in PageIds /\ PageIds \subseteq Nat

VARIABLES
    frames,      \* Frame by resident page
    clock,
    disk,        \* the pages of the file, by number
    flushed,     \* the log is durable through this LSN
    next_lsn,
    \* ghosts
    guards,      \* how many PageGuards of a page are alive
    latest       \* what was last stored as the page's content

poolVars == <<frames, clock, disk, flushed, next_lsn, guards, latest>>

k == 2
Unreadable == 0   \* a page whose write was cut short, or that was never written

resident == DOMAIN frames
page_count == Cardinality(DOMAIN disk)
pinned(p) == p \in resident /\ frames[p].pin_count > 0

PoolInit ==
    /\ frames = [p \in {} |-> {}]
    /\ clock = 0
    /\ disk = [p \in {0} |-> 1]
    /\ flushed = 1
    /\ next_lsn = 2
    /\ guards = [p \in PageIds |-> 0]
    /\ latest = disk

Put(f, p, v) == [q \in DOMAIN f \union {p} |-> IF q = p THEN v ELSE f[q]]
Without(f, ps) == [q \in DOMAIN f \ ps |-> f[q]]

-----------------------------------------------------------------------------
(***************************************************************************)
(* Replacement: LRU-K.                                                     *)
(***************************************************************************)
\* A page that was accessed less than k times goes first, the one whose first
\* retained access is oldest before the others.
Rank(p) == <<IF Len(frames[p].history) < k THEN 0 ELSE 1, Head(frames[p].history)>>

Before(a, b) == a[1] < b[1] \/ (a[1] = b[1] /\ a[2] < b[2])

Evictable == {p \in resident : frames[p].pin_count = 0}

\* Mutant: a pinned frame can be chosen.
Victims_pinned == {p \in resident : \A q \in resident : ~Before(Rank(q), Rank(p))}

\* choose_victim; accesses have different times, so there is at most one.
Victims == {p \in Evictable : \A q \in Evictable : ~Before(Rank(q), Rank(p))}

record_access(history) ==
    IF Len(history) < k THEN Append(history, clock + 1)
    ELSE Append(Tail(history), clock + 1)

\* DiskManager::write_page: it may write the next page of the file, not leave a gap.
CanWrite(p) == p <= page_count

\* The frame of a page reaches the file: first the log through the page's LSN,
\* then the page.
Written(p) ==
    /\ frames[p].dirty => CanWrite(p)
    /\ flushed' = IF frames[p].dirty /\ flushed < frames[p].page THEN frames[p].page ELSE flushed
    /\ disk' = IF frames[p].dirty THEN Put(disk, p, frames[p].page) ELSE disk

\* It fails: at the barrier, for a gap, or inside the write of the page.  (Part of
\* a page after the end of the file makes every later call fail: not modelled.)
WriteFails(p) ==
    /\ frames[p].dirty
    /\ \/ UNCHANGED <<flushed, disk>>
       \/ /\ flushed' = IF flushed < frames[p].page THEN frames[p].page ELSE flushed
          /\ disk' = IF CanWrite(p) /\ p \in DOMAIN disk THEN Put(disk, p, Unreadable) ELSE disk

\* ensure_capacity: the frames that are left when there is room for one more.
Room(left) ==
    IF Cardinality(resident) < capacity THEN left = frames /\ UNCHANGED <<flushed, disk>>
    ELSE \E v \in Victims : Written(v) /\ left = Without(frames, {v})

-----------------------------------------------------------------------------
(***************************************************************************)
(* Callers of the pool.                                                    *)
(***************************************************************************)
Frame(page, pins, dirty, history) ==
    [page |-> page, pin_count |-> pins, dirty |-> dirty, history |-> history]

Guarded(p) == guards' = [guards EXCEPT ![p] = @ + 1]

fetch_hit(p) ==
    /\ p \in resident
    /\ frames' = [frames EXCEPT ![p].pin_count = @ + 1, ![p].history = record_access(@)]
    /\ Guarded(p)
    /\ UNCHANGED <<disk, flushed, next_lsn, latest>>

fetch_miss(p) ==
    /\ p \notin resident
    /\ \E left \in {frames} \union {Without(frames, {v}) : v \in Victims} :
           /\ Room(left)
           /\ IF p \in DOMAIN disk' /\ disk'[p] # Unreadable
              THEN /\ frames' = Put(left, p, Frame(disk'[p], 1, FALSE, <<clock + 1>>))
                   /\ Guarded(p)
              ELSE frames' = left /\ UNCHANGED guards
    /\ UNCHANGED <<next_lsn, latest>>

fetch(p) ==
    /\ clock < MaxClock /\ guards[p] < MaxGuards
    /\ clock' = clock + 1
    /\ fetch_hit(p) \/ fetch_miss(p)

\* A fetch or an install finds no victim, or one that cannot be written, which
\* stays.  By then a fetch has moved the clock, an install has not.
refused(p) ==
    /\ p \notin resident /\ Cardinality(resident) >= capacity
    /\ clock' \in {clock, clock + 1} /\ clock' <= MaxClock
    /\ \/ Victims = {} /\ UNCHANGED <<flushed, disk>>
       \/ \E v \in Victims : WriteFails(v)
    /\ UNCHANGED <<frames, next_lsn, guards, latest>>

\* apply_prepared hands over a page image of a commit; the page must not be
\* resident.
install(p) ==
    /\ clock < MaxClock /\ next_lsn <= MaxLsn
    /\ p \notin resident
    /\ clock' = clock + 1
    /\ \E left \in {frames} \union {Without(frames, {v}) : v \in Victims} :
           Room(left) /\ frames' = Put(left, p, Frame(next_lsn, 0, TRUE, <<clock + 1>>))
    /\ latest' = Put(latest, p, next_lsn)
    /\ next_lsn' = next_lsn + 1
    /\ UNCHANGED guards

flush_page(p) ==
    /\ p \in resident
    /\ \/ Written(p) /\ frames' = [frames EXCEPT ![p].dirty = FALSE]
       \/ WriteFails(p) /\ UNCHANGED frames
    /\ UNCHANGED <<clock, next_lsn, guards, latest>>

\* PageGuard::replace, insert_record.
change(p) ==
    /\ guards[p] > 0 /\ p \in resident /\ next_lsn <= MaxLsn
    /\ frames' = [frames EXCEPT ![p].page = next_lsn, ![p].dirty = TRUE]
    /\ latest' = Put(latest, p, next_lsn)
    /\ next_lsn' = next_lsn + 1
    /\ UNCHANGED <<clock, disk, flushed, guards>>

drop_guard(p) ==
    /\ guards[p] > 0
    /\ guards' = [guards EXCEPT ![p] = @ - 1]
    /\ frames' = IF p \in resident
                 THEN [frames EXCEPT ![p].pin_count = IF @ = 0 THEN 0 ELSE @ - 1]
                 ELSE frames
    /\ UNCHANGED <<clock, disk, flushed, next_lsn, latest>>

\* apply_prepared gives up what the pool has of the pages it replaces, dirty
\* leftovers of a failed commit included.
invalidate_pages(ps) ==
    /\ \A p \in ps : ~pinned(p)
    /\ frames' = Without(frames, ps)
    /\ latest' = [p \in DOMAIN latest \ (ps \ DOMAIN disk) |->
                      IF p \in ps THEN disk[p] ELSE latest[p]]
    /\ UNCHANGED <<clock, disk, flushed, next_lsn, guards>>

\* resize_pages, or reset_storage, which also restarts the clock.
Beyond(count) == {p \in resident \union DOMAIN disk \union DOMAIN latest : p >= count}

Resized(count) == [p \in {q \in PageIds : q < count} |->
                       IF p \in DOMAIN disk THEN disk[p] ELSE Unreadable]

resize_pages(count) ==
    /\ \A p \in resident : p >= count => ~pinned(p)
    /\ frames' = Without(frames, Beyond(count))
    /\ disk' = Resized(count)
    /\ latest' = [p \in {q \in PageIds : q < count} |->
                      IF p \in DOMAIN latest THEN latest[p] ELSE Unreadable]
    /\ UNCHANGED <<clock, flushed, next_lsn, guards>>

reset_storage ==
    /\ \A p \in resident : ~pinned(p)
    /\ frames' = Without(frames, resident)
    /\ clock' = 0
    /\ disk' = Resized(0)
    /\ latest' = disk'
    /\ UNCHANGED <<flushed, next_lsn, guards>>

PoolNext ==
    \/ \E p \in PageIds :
           \/ fetch(p) \/ refused(p) \/ install(p) \/ flush_page(p)
           \/ change(p) \/ drop_guard(p)
    \/ \E ps \in SUBSET PageIds : invalidate_pages(ps)
    \/ \E count \in 0..Cardinality(PageIds) : resize_pages(count)
    \/ reset_storage

PoolSpec == PoolInit /\ [][PoolNext]_poolVars

-----------------------------------------------------------------------------
\* The frames, the file and the ghosts have their types.
PoolTypeOK ==
    /\ resident \subseteq PageIds
    /\ \A p \in resident :
           /\ frames[p].page \in Nat /\ frames[p].pin_count \in Nat /\ frames[p].dirty \in BOOLEAN
           /\ frames[p].history \in Seq(Nat) /\ Len(frames[p].history) \in 1..k
    /\ clock \in Nat /\ flushed \in Nat /\ next_lsn \in Nat
    /\ guards \in [PageIds -> Nat]

\* A guard's page stays in its frame until the guard is dropped: the pool counts
\* exactly the guards that are alive, whatever is evicted, invalidated, cut off
\* or reset in between.
GuardsArePinned ==
    /\ \A p \in resident : frames[p].pin_count = guards[p]
    /\ \A p \in PageIds : guards[p] > 0 => p \in resident

\* The pool and the file together hold the last content of every page: what is
\* evicted is in the file, a frame that is not dirty is a copy, and no write
\* that failed is taken for done.
NothingIsLost ==
    /\ \A p \in DOMAIN latest :
           latest[p] = IF p \in resident THEN frames[p].page ELSE disk[p]
    /\ \A p \in resident : ~frames[p].dirty => p \in DOMAIN disk /\ disk[p] = frames[p].page
    /\ resident \subseteq DOMAIN latest

\* A page is in the file only after the log is durable through its LSN.
LogBeforePage == \A p \in DOMAIN disk : disk[p] <= flushed

\* What the pool owes its callers and the log: the three together.
PagesAreKept == GuardsArePinned /\ NothingIsLost /\ LogBeforePage

=============================================================================
