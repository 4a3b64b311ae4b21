--------------------------- MODULE ComponentProofs ---------------------------
(***************************************************************************)
(* Proofs about four components that share no state: the buffer pool over  *)
(* the data file and the log (BufferPool), the runs of the assistant with  *)
(* their approvals (AiRuns), the versions of the connector helpers         *)
(* (PluginManager), and the data root under migrations (Migration).        *)
(***************************************************************************)
EXTENDS BufferPool, AiRuns, PluginManager, Migration, SequenceTheorems, FiniteSetTheorems, TLAPS

(***************************************************************************)
(* The buffer pool.  The proof needs three facts beside the property: a    *)
(* page that is not resident is in the file whenever the pool owes its     *)
(* content to somebody, the file holds no page nobody is owed, and what a  *)
(* frame or the file holds is an LSN.                                      *)
(***************************************************************************)
Frames == [page : Nat, pin_count : Nat, dirty : BOOLEAN, history : Seq(Nat)]

PoolTypes ==
    /\ resident \subseteq PageIds
    /\ frames \in [resident -> Frames]
    /\ \A p \in resident : Len(frames[p].history) \in 1..k
    /\ clock \in Nat /\ flushed \in Nat /\ next_lsn \in Nat
    /\ guards \in [PageIds -> Nat]
    /\ disk \in [DOMAIN disk -> Nat] /\ DOMAIN disk \subseteq PageIds
    /\ latest \in [DOMAIN latest -> Nat] /\ DOMAIN latest \subseteq PageIds

\* What is owed is in a frame or in the file.
Owed ==
    /\ DOMAIN disk \subseteq DOMAIN latest
    /\ DOMAIN latest \subseteq resident \union DOMAIN disk

PoolInv == PoolTypes /\ Owed /\ PagesAreKept

LEMMA PutFacts ==
    ASSUME NEW f, NEW p, NEW v
    PROVE  /\ DOMAIN Put(f, p, v) = DOMAIN f \union {p}
           /\ Put(f, p, v)[p] = v
           /\ \A q \in DOMAIN f \ {p} : Put(f, p, v)[q] = f[q]
BY DEF Put

LEMMA PutType ==
    ASSUME NEW S, NEW f, NEW p, NEW v \in S, f \in [DOMAIN f -> S]
    PROVE  Put(f, p, v) \in [DOMAIN f \union {p} -> S]
BY DEF Put

LEMMA WithoutFacts ==
    ASSUME NEW f, NEW ps
    PROVE  /\ DOMAIN Without(f, ps) = DOMAIN f \ ps
           /\ \A q \in DOMAIN f \ ps : Without(f, ps)[q] = f[q]
BY DEF Without

LEMMA WithoutType ==
    ASSUME NEW S, NEW f, NEW ps, f \in [DOMAIN f -> S]
    PROVE  Without(f, ps) \in [DOMAIN f \ ps -> S]
BY DEF Without

LEMMA History ==
    ASSUME clock \in Nat, NEW history \in Seq(Nat), Len(history) \in 1..k
    PROVE  record_access(history) \in Seq(Nat) /\ Len(record_access(history)) \in 1..k
<1>1. CASE Len(history) < k
  BY <1>1 DEF record_access, k
<1>2. CASE ~(Len(history) < k)
  <2>0. Len(history) \in 1..2 /\ ~(Len(history) < 2)
    BY <1>2 DEF k
  <2>1. Len(history) = 2
    <3>1. \A n \in Nat : n \in 1..2 /\ ~(n < 2) => n = 2
      OBVIOUS
    <3>2. Len(history) \in Nat
      BY LenProperties
    <3>3. QED
      BY <2>0, <3>1, <3>2
  <2>3. history # << >>
    BY <2>1
  <2>2. Tail(history) \in Seq(Nat) /\ Len(Tail(history)) = 1
    BY <2>1, <2>3
  <2>4. QED
    BY <1>2, <2>2 DEF record_access, k
<1>3. QED
  BY <1>1, <1>2

LEMMA PoolInitially == PoolInit => PoolInv
BY PoolAssumption DEF PoolInit, PoolInv, PoolTypes, Owed, PagesAreKept, GuardsArePinned, NothingIsLost,
   LogBeforePage, resident, Frames

\* What a write of page p's frame does to the file.
LEMMA WrittenFacts ==
    ASSUME PoolInv, NEW p \in resident, Written(p)
    PROVE  /\ flushed' \in Nat /\ disk' \in [DOMAIN disk' -> Nat] /\ DOMAIN disk' \subseteq DOMAIN latest
           /\ DOMAIN disk' = DOMAIN disk \union {p} /\ disk'[p] = latest[p]
           /\ disk'[p] = frames[p].page
           /\ \A q \in DOMAIN disk \ {p} : disk'[q] = disk[q]
           /\ \A q \in DOMAIN disk' : disk'[q] <= flushed'
<1>0. /\ frames[p] \in Frames /\ disk \in [DOMAIN disk -> Nat] /\ flushed \in Nat
      /\ p \in DOMAIN latest /\ latest[p] = frames[p].page
      /\ ~frames[p].dirty => p \in DOMAIN disk /\ disk[p] = frames[p].page
      /\ \A q \in DOMAIN disk : disk[q] <= flushed /\ disk[q] \in Nat
      /\ DOMAIN disk \subseteq DOMAIN latest
  BY DEF PoolInv, PoolTypes, Owed, PagesAreKept, NothingIsLost, LogBeforePage
<1>1. frames[p].page \in Nat
  BY <1>0 DEF Frames
<1>2. CASE frames[p].dirty
  <2>1. /\ disk' = Put(disk, p, frames[p].page)
        /\ flushed' = IF flushed < frames[p].page THEN frames[p].page ELSE flushed
    BY <1>2 DEF Written
  <2>2. /\ DOMAIN disk' = DOMAIN disk \union {p} /\ disk'[p] = frames[p].page
        /\ \A q \in DOMAIN disk \ {p} : disk'[q] = disk[q]
        /\ disk' \in [DOMAIN disk' -> Nat]
    <3>1. disk' \in [DOMAIN disk \union {p} -> Nat]
      BY <1>0, <1>1, <2>1, PutType
    <3>2. QED
      BY <2>1, <3>1 DEF Put
  <2>3. flushed' \in Nat /\ flushed <= flushed' /\ frames[p].page <= flushed'
    BY <1>0, <1>1, <2>1
  <2>4. \A q \in DOMAIN disk' : disk'[q] <= flushed'
    BY <1>0, <1>1, <2>2, <2>3
  <2>5. QED
    BY <1>0, <2>2, <2>3, <2>4
<1>3. CASE ~frames[p].dirty
  BY <1>0, <1>3 DEF Written
<1>4. QED
  BY <1>2, <1>3

\* A failed write leaves the page to its frame, which stays dirty.
LEMMA WriteFailsKeeps ==
    ASSUME PoolInv, NEW p \in resident, WriteFails(p),
           UNCHANGED <<frames, next_lsn, guards, latest>>, clock' \in Nat
    PROVE  PoolInv'
<1>0. /\ frames[p].dirty /\ frames[p] \in Frames /\ disk \in [DOMAIN disk -> Nat] /\ flushed \in Nat
      /\ \A q \in DOMAIN disk : disk[q] <= flushed /\ disk[q] \in Nat
  BY DEF PoolInv, PoolTypes, PagesAreKept, LogBeforePage, WriteFails
<1>1. /\ flushed' \in Nat /\ flushed <= flushed' /\ DOMAIN disk' = DOMAIN disk
      /\ disk' \in [DOMAIN disk -> Nat]
      /\ \A q \in DOMAIN disk \ {p} : disk'[q] = disk[q]
      /\ \A q \in DOMAIN disk : disk'[q] <= flushed'
  <2>1. frames[p].page \in Nat /\ Unreadable \in Nat
    BY <1>0 DEF Frames, Unreadable
  <2>2. flushed' \in Nat /\ flushed <= flushed'
    BY <1>0, <2>1 DEF WriteFails
  <2>3. CASE disk' = disk
    BY <1>0, <2>2, <2>3
  <2>4. CASE p \in DOMAIN disk /\ disk' = Put(disk, p, Unreadable)
    <3>1. /\ DOMAIN disk' = DOMAIN disk /\ disk'[p] = Unreadable
          /\ \A q \in DOMAIN disk \ {p} : disk'[q] = disk[q]
          /\ disk' \in [DOMAIN disk -> Nat]
      <4>1. DOMAIN disk \union {p} = DOMAIN disk
        BY <2>4
      <4>2. QED
        <5>1. disk' \in [DOMAIN disk \union {p} -> Nat]
          BY <1>0, <2>1, <2>4, PutType
        <5>2. QED
          BY <2>4, <4>1, <5>1 DEF Put
    <3>2. \A q \in DOMAIN disk : disk'[q] <= flushed'
      BY <1>0, <2>1, <2>2, <3>1 DEF Unreadable
    <3>3. QED
      BY <2>2, <3>1, <3>2
  <2>5. QED
    BY <2>3, <2>4 DEF WriteFails
<1>2. PoolTypes' /\ Owed'
  BY <1>1 DEF PoolInv, PoolTypes, Owed, resident
<1>3. PagesAreKept'
  <2>1. GuardsArePinned'
    BY DEF PoolInv, PagesAreKept, GuardsArePinned, resident
  <2>2. NothingIsLost'
    BY <1>0, <1>1 DEF PoolInv, Owed, PagesAreKept, NothingIsLost, resident
  <2>3. LogBeforePage'
    BY <1>1 DEF LogBeforePage
  <2>4. QED
    BY <2>1, <2>2, <2>3 DEF PagesAreKept
<1>4. QED
  BY <1>2, <1>3 DEF PoolInv

\* Room is made by a write and an eviction, or there is room.
LEMMA RoomFacts ==
    ASSUME PoolInv, NEW left, Room(left)
    PROVE  /\ DOMAIN left \subseteq resident /\ left \in [DOMAIN left -> Frames]
           /\ \A q \in DOMAIN left : left[q] = frames[q]
           /\ \A q \in resident \ DOMAIN left : guards[q] = 0
           /\ flushed' \in Nat /\ disk' \in [DOMAIN disk' -> Nat] /\ DOMAIN disk' \subseteq DOMAIN latest
           /\ DOMAIN disk \subseteq DOMAIN disk'
           /\ \A q \in DOMAIN left : q \in DOMAIN disk => disk'[q] = disk[q]
           /\ \A q \in DOMAIN latest \ DOMAIN left : q \in DOMAIN disk' /\ disk'[q] = latest[q]
           /\ \A q \in DOMAIN disk' : disk'[q] <= flushed'
<1>0. /\ frames \in [resident -> Frames] /\ DOMAIN disk \subseteq DOMAIN latest
      /\ disk \in [DOMAIN disk -> Nat] /\ flushed \in Nat
      /\ DOMAIN latest \subseteq resident \union DOMAIN disk
      /\ \A q \in DOMAIN latest : latest[q] = IF q \in resident THEN frames[q].page ELSE disk[q]
      /\ \A q \in DOMAIN disk : disk[q] <= flushed
      /\ \A q \in resident : frames[q].pin_count = guards[q]
  BY DEF PoolInv, PoolTypes, Owed, PagesAreKept, NothingIsLost, LogBeforePage, GuardsArePinned
<1>1. CASE left = frames /\ UNCHANGED <<flushed, disk>>
  <2>1. DOMAIN left = resident
    BY <1>1 DEF resident
  <2>2. QED
    BY <1>0, <1>1, <2>1
<1>2. ASSUME NEW v \in Victims, Written(v), left = Without(frames, {v})
      PROVE  /\ DOMAIN left \subseteq resident /\ left \in [DOMAIN left -> Frames]
             /\ \A q \in DOMAIN left : left[q] = frames[q]
             /\ \A q \in resident \ DOMAIN left : guards[q] = 0
             /\ flushed' \in Nat /\ disk' \in [DOMAIN disk' -> Nat] /\ DOMAIN disk' \subseteq DOMAIN latest
             /\ DOMAIN disk \subseteq DOMAIN disk'
             /\ \A q \in DOMAIN left : q \in DOMAIN disk => disk'[q] = disk[q]
             /\ \A q \in DOMAIN latest \ DOMAIN left : q \in DOMAIN disk' /\ disk'[q] = latest[q]
             /\ \A q \in DOMAIN disk' : disk'[q] <= flushed'
  <2>1. v \in resident /\ frames[v].pin_count = 0
    BY DEF Victims, Evictable
  <2>2. /\ DOMAIN left = resident \ {v} /\ left \in [DOMAIN left -> Frames]
        /\ \A q \in DOMAIN left : left[q] = frames[q]
    <3>1. frames \in [DOMAIN frames -> Frames]
      BY <1>0 DEF resident
    <3>2. left \in [DOMAIN frames \ {v} -> Frames]
      BY <1>2, <3>1, WithoutType
    <3>3. QED
      BY <1>2, <3>2, WithoutFacts DEF resident
  <2>3. /\ flushed' \in Nat /\ disk' \in [DOMAIN disk' -> Nat] /\ DOMAIN disk' \subseteq DOMAIN latest
        /\ DOMAIN disk' = DOMAIN disk \union {v} /\ disk'[v] = latest[v]
        /\ \A q \in DOMAIN disk \ {v} : disk'[q] = disk[q]
        /\ \A q \in DOMAIN disk' : disk'[q] <= flushed'
    BY <1>2, <2>1, WrittenFacts
  <2>4. QED
    BY <1>0, <2>1, <2>2, <2>3
<1>3. QED
  BY <1>1, <1>2 DEF Room

\* A page comes into the pool beside the frames that are left.
LEMMA EntersKeeps ==
    ASSUME PoolInv, NEW p \in PageIds \ resident, NEW left, Room(left), NEW frame \in Frames,
           Len(frame.history) \in 1..k,
           frames' = Put(left, p, frame), clock' \in Nat, next_lsn' \in Nat,
           guards' = [guards EXCEPT ![p] = frame.pin_count],
           latest' = Put(latest, p, frame.page),
           ~frame.dirty => p \in DOMAIN disk' /\ disk'[p] = frame.page
    PROVE  PoolInv'
<1>0. /\ DOMAIN left \subseteq resident /\ left \in [DOMAIN left -> Frames]
      /\ \A q \in DOMAIN left : left[q] = frames[q]
      /\ \A q \in resident \ DOMAIN left : guards[q] = 0
      /\ flushed' \in Nat /\ disk' \in [DOMAIN disk' -> Nat] /\ DOMAIN disk' \subseteq DOMAIN latest
      /\ DOMAIN disk \subseteq DOMAIN disk'
      /\ \A q \in DOMAIN left : q \in DOMAIN disk => disk'[q] = disk[q]
      /\ \A q \in DOMAIN latest \ DOMAIN left : q \in DOMAIN disk' /\ disk'[q] = latest[q]
      /\ \A q \in DOMAIN disk' : disk'[q] <= flushed'
  BY RoomFacts
<1>1. /\ resident' = DOMAIN left \union {p} /\ frames'[p] = frame
      /\ \A q \in DOMAIN left : frames'[q] = frames[q] /\ q # p /\ q \in resident
      /\ frames' \in [resident' -> Frames]
  <2>1. frames' \in [DOMAIN left \union {p} -> Frames]
    BY <1>0, PutType
  <2>2. QED
    BY <1>0, <2>1 DEF resident, Put
<1>2. /\ DOMAIN latest' = DOMAIN latest \union {p} /\ latest'[p] = frame.page
      /\ \A q \in DOMAIN latest \ {p} : latest'[q] = latest[q]
      /\ latest' \in [DOMAIN latest' -> Nat]
  <2>1. frame.page \in Nat /\ latest \in [DOMAIN latest -> Nat]
    BY DEF Frames, PoolInv, PoolTypes
  <2>2. QED
    <3>1. latest' \in [DOMAIN latest \union {p} -> Nat]
      BY <2>1, PutType
    <3>2. QED
      BY <3>1 DEF Put
<1>3. frame.pin_count \in Nat /\ guards \in [PageIds -> Nat]
  BY DEF Frames, PoolInv, PoolTypes
<1>4. PoolTypes'
  <2>1. \A q \in resident' : Len(frames'[q].history) \in 1..k
    BY <1>1 DEF PoolInv, PoolTypes
  <2>2. QED
    BY <1>0, <1>1, <1>2, <1>3, <2>1 DEF PoolInv, PoolTypes
<1>5. Owed'
  BY <1>0, <1>1, <1>2 DEF PoolInv, Owed
<1>6. GuardsArePinned'
  BY <1>0, <1>1, <1>3 DEF PoolInv, PagesAreKept, GuardsArePinned
<1>7. NothingIsLost'
  <2>1. /\ \A q \in DOMAIN latest : latest[q] = IF q \in resident THEN frames[q].page ELSE disk[q]
        /\ \A q \in resident : ~frames[q].dirty => q \in DOMAIN disk /\ disk[q] = frames[q].page
        /\ resident \subseteq DOMAIN latest
    BY DEF PoolInv, PagesAreKept, NothingIsLost
  <2>2. QED
    BY <1>0, <1>1, <1>2, <2>1 DEF NothingIsLost
<1>8. LogBeforePage'
  BY <1>0 DEF LogBeforePage
<1>9. QED
  BY <1>4, <1>5, <1>6, <1>7, <1>8 DEF PoolInv, PagesAreKept

\* Room was made, but the page that was asked for cannot be read.
LEMMA LeavesKeeps ==
    ASSUME PoolInv, NEW left, Room(left), frames' = left, clock' \in Nat,
           UNCHANGED <<next_lsn, guards, latest>>
    PROVE  PoolInv'
<1>0. /\ DOMAIN left \subseteq resident /\ left \in [DOMAIN left -> Frames]
      /\ \A q \in DOMAIN left : left[q] = frames[q]
      /\ \A q \in resident \ DOMAIN left : guards[q] = 0
      /\ flushed' \in Nat /\ disk' \in [DOMAIN disk' -> Nat] /\ DOMAIN disk' \subseteq DOMAIN latest
      /\ DOMAIN disk \subseteq DOMAIN disk'
      /\ \A q \in DOMAIN left : q \in DOMAIN disk => disk'[q] = disk[q]
      /\ \A q \in DOMAIN latest \ DOMAIN left : q \in DOMAIN disk' /\ disk'[q] = latest[q]
      /\ \A q \in DOMAIN disk' : disk'[q] <= flushed'
  BY RoomFacts
<1>1. resident' = DOMAIN left /\ frames' = left
  BY DEF resident
<1>2. PoolTypes' /\ Owed'
  BY <1>0, <1>1 DEF PoolInv, PoolTypes, Owed
<1>3. GuardsArePinned'
  BY <1>0, <1>1 DEF PoolInv, PagesAreKept, GuardsArePinned
<1>4. NothingIsLost'
  <2>1. /\ \A q \in DOMAIN latest : latest[q] = IF q \in resident THEN frames[q].page ELSE disk[q]
        /\ \A q \in resident : ~frames[q].dirty => q \in DOMAIN disk /\ disk[q] = frames[q].page
        /\ resident \subseteq DOMAIN latest
    BY DEF PoolInv, PagesAreKept, NothingIsLost
  <2>2. QED
    BY <1>0, <1>1, <2>1 DEF NothingIsLost
<1>5. LogBeforePage'
  BY <1>0 DEF LogBeforePage
<1>6. QED
  BY <1>2, <1>3, <1>4, <1>5 DEF PoolInv, PagesAreKept

LEMMA PoolFacts ==
    ASSUME PoolInv
    PROVE  /\ clock \in Nat /\ next_lsn \in Nat /\ flushed \in Nat /\ guards \in [PageIds -> Nat]
           /\ frames \in [resident -> Frames] /\ resident = DOMAIN frames /\ resident \subseteq PageIds
           /\ \A q \in resident : frames[q].pin_count = guards[q]
           /\ \A q \in PageIds : guards[q] > 0 => q \in resident
           /\ \A q \in resident : Len(frames[q].history) \in 1..k
           /\ latest \in [DOMAIN latest -> Nat] /\ DOMAIN latest \subseteq PageIds
           /\ disk \in [DOMAIN disk -> Nat] /\ DOMAIN disk \subseteq DOMAIN latest
           /\ DOMAIN latest \subseteq resident \union DOMAIN disk
           /\ \A q \in DOMAIN latest : latest[q] = IF q \in resident THEN frames[q].page ELSE disk[q]
           /\ \A q \in resident : ~frames[q].dirty => q \in DOMAIN disk /\ disk[q] = frames[q].page
           /\ resident \subseteq DOMAIN latest
           /\ \A q \in DOMAIN disk : disk[q] <= flushed
BY DEF PoolInv, PoolTypes, Owed, PagesAreKept, GuardsArePinned, NothingIsLost, LogBeforePage, resident

LEMMA FetchStep ==
    ASSUME PoolInv, NEW p \in PageIds, fetch(p)
    PROVE  PoolInv'
<1>0. /\ clock \in Nat /\ guards \in [PageIds -> Nat] /\ next_lsn \in Nat
      /\ frames \in [resident -> Frames]
      /\ clock' = clock + 1 /\ next_lsn' = next_lsn /\ latest' = latest
  BY PoolFacts DEF fetch, fetch_hit, fetch_miss
<1>1. CASE fetch_hit(p)
  <2>1. /\ p \in resident /\ resident' = resident
        /\ frames' = [frames EXCEPT ![p] = [frames[p] EXCEPT
                         !.pin_count = @ + 1, !.history = record_access(@)]]
        /\ guards' = [guards EXCEPT ![p] = @ + 1]
        /\ UNCHANGED <<disk, flushed>>
    BY <1>0, <1>1 DEF fetch_hit, Guarded, resident, Frames
  <2>2. /\ record_access(frames[p].history) \in Seq(Nat)
        /\ Len(record_access(frames[p].history)) \in 1..k
    <3>1. frames[p].history \in Seq(Nat) /\ Len(frames[p].history) \in 1..k
      BY <2>1, PoolFacts DEF Frames
    <3>2. QED
      BY <1>0, <3>1, History
  <2>3. /\ frames'[p] = [frames[p] EXCEPT !.pin_count = @ + 1, !.history = record_access(@)]
        /\ frames'[p] \in Frames
    <3>1. frames[p] \in Frames /\ frames[p].pin_count + 1 \in Nat
      BY <1>0, <2>1 DEF Frames
    <3>2. \A pins \in Nat, history \in Seq(Nat) :
            [frames[p] EXCEPT !.pin_count = pins, !.history = history] \in Frames
      BY <3>1 DEF Frames
    <3>3. QED
      BY <1>0, <2>1, <2>2, <3>1, <3>2
  <2>4. /\ frames'[p].page = frames[p].page /\ frames'[p].dirty = frames[p].dirty
        /\ frames'[p].pin_count = frames[p].pin_count + 1
        /\ frames'[p].history = record_access(frames[p].history)
    BY <1>0, <2>1, <2>3 DEF Frames
  <2>5. \A q \in resident \ {p} : frames'[q] = frames[q]
    BY <1>0, <2>1
  <2>6. frames' \in [resident -> Frames]
    BY <1>0, <2>1, <2>3
  <2>7. PoolTypes'
    BY <1>0, <2>1, <2>2, <2>4, <2>5, <2>6 DEF PoolInv, PoolTypes
  <2>8. Owed' /\ LogBeforePage'
    BY <1>0, <2>1 DEF PoolInv, Owed, PagesAreKept, LogBeforePage
  <2>9. GuardsArePinned'
    BY <1>0, <2>1, <2>4, <2>5 DEF PoolInv, PagesAreKept, GuardsArePinned
  <2>10. NothingIsLost'
    BY <1>0, <2>1, <2>4, <2>5 DEF PoolInv, PagesAreKept, NothingIsLost
  <2>11. QED
    BY <2>7, <2>8, <2>9, <2>10 DEF PoolInv, PagesAreKept
<1>2. CASE fetch_miss(p)
  <2>1. PICK left : /\ Room(left)
                    /\ IF p \in DOMAIN disk' /\ disk'[p] # Unreadable
                       THEN /\ frames' = Put(left, p, Frame(disk'[p], 1, FALSE, <<clock + 1>>))
                            /\ Guarded(p)
                       ELSE frames' = left /\ UNCHANGED guards
    BY <1>2 DEF fetch_miss
  <2>2. p \in PageIds \ resident
    BY <1>2 DEF fetch_miss
  <2>3. CASE p \in DOMAIN disk' /\ disk'[p] # Unreadable
    <3>. DEFINE frame == Frame(disk'[p], 1, FALSE, <<clock + 1>>)
    <3>0. /\ disk'[p] \in Nat /\ p \in DOMAIN latest /\ disk'[p] = latest[p]
      BY <2>1, <2>2, <2>3, RoomFacts
    <3>1. /\ frame \in Frames /\ Len(frame.history) \in 1..k /\ frame.page = disk'[p]
          /\ frame.pin_count = 1 /\ ~frame.dirty
      BY <1>0, <3>0 DEF Frame, Frames, k
    <3>2. frames' = Put(left, p, frame) /\ guards' = [guards EXCEPT ![p] = @ + 1]
      BY <2>1, <2>3 DEF Guarded
    <3>. HIDE DEF frame
    <3>3. guards' = [guards EXCEPT ![p] = frame.pin_count]
      <4>1. guards[p] = 0
        BY <1>0, <2>2, PoolFacts
      <4>2. QED
        BY <1>0, <3>1, <3>2, <4>1
    <3>4. latest' = Put(latest, p, frame.page)
      <4>1. latest \in [DOMAIN latest -> Nat]
        BY PoolFacts
      <4>2. QED
        BY <1>0, <3>0, <3>1, <4>1 DEF Put
    <3>5. /\ clock' \in Nat /\ next_lsn' \in Nat
          /\ ~frame.dirty => p \in DOMAIN disk' /\ disk'[p] = frame.page
      BY <1>0, <2>3, <3>1
    <3>6. QED
      BY <2>1, <2>2, <3>1, <3>2, <3>3, <3>4, <3>5, EntersKeeps
  <2>4. CASE ~(p \in DOMAIN disk' /\ disk'[p] # Unreadable)
    <3>1. Room(left) /\ frames' = left /\ UNCHANGED guards
      BY <2>1, <2>4
    <3>a. clock' \in Nat /\ UNCHANGED <<next_lsn, latest>>
      BY <1>0
    <3>2. QED
      BY <3>1, <3>a, LeavesKeeps
  <2>5. QED
    BY <2>3, <2>4
<1>3. QED
  BY <1>1, <1>2 DEF fetch

LEMMA RefusedStep ==
    ASSUME PoolInv, NEW p \in PageIds, refused(p)
    PROVE  PoolInv'
<1>1. clock' \in Nat /\ UNCHANGED <<frames, next_lsn, guards, latest>>
  BY PoolFacts DEF refused
<1>2. CASE UNCHANGED <<flushed, disk>>
  BY <1>1, <1>2 DEF PoolInv, PoolTypes, Owed, PagesAreKept, GuardsArePinned, NothingIsLost, LogBeforePage,
     resident
<1>3. ASSUME NEW v \in Victims, WriteFails(v) PROVE PoolInv'
  <2>1. v \in resident
    BY DEF Victims, Evictable
  <2>2. QED
    BY <1>1, <1>3, <2>1, WriteFailsKeeps
<1>4. QED
  BY <1>2, <1>3 DEF refused

LEMMA InstallStep ==
    ASSUME PoolInv, NEW p \in PageIds, install(p)
    PROVE  PoolInv'
<1>. DEFINE frame == Frame(next_lsn, 0, TRUE, <<clock + 1>>)
<1>1. PICK left : Room(left) /\ frames' = Put(left, p, frame)
  BY DEF install
<1>2. /\ p \in PageIds \ resident /\ clock' = clock + 1 /\ next_lsn' = next_lsn + 1
      /\ guards' = guards /\ latest' = Put(latest, p, next_lsn)
      /\ clock \in Nat /\ next_lsn \in Nat /\ guards \in [PageIds -> Nat]
  BY PoolFacts DEF install
<1>3. /\ frame \in Frames /\ Len(frame.history) \in 1..k /\ frame.page = next_lsn
      /\ frame.pin_count = 0 /\ frame.dirty
  BY <1>2 DEF Frame, Frames, k
<1>. HIDE DEF frame
<1>4. guards' = [guards EXCEPT ![p] = frame.pin_count]
  <2>1. guards[p] = 0
    BY <1>2, PoolFacts
  <2>2. QED
    BY <1>2, <1>3, <2>1
<1>5. /\ clock' \in Nat /\ next_lsn' \in Nat /\ latest' = Put(latest, p, frame.page)
      /\ frames' = Put(left, p, frame) /\ Room(left)
  BY <1>1, <1>2, <1>3
<1>6. QED
  BY <1>2, <1>3, <1>4, <1>5, EntersKeeps

\* A frame changes in place: its page, its dirty flag or its pins.
LEMMA FrameChanges ==
    ASSUME PoolInv, NEW p \in resident, NEW page \in Nat, NEW pins \in Nat, NEW dirty \in BOOLEAN,
           frames' = [frames EXCEPT ![p] = [frames[p] EXCEPT !.page = page, !.pin_count = pins,
                                                             !.dirty = dirty]],
           guards' = [guards EXCEPT ![p] = pins], latest' = Put(latest, p, page),
           clock' = clock, next_lsn' \in Nat,
           flushed' \in Nat, disk' \in [DOMAIN disk' -> Nat],
           DOMAIN disk \subseteq DOMAIN disk', DOMAIN disk' \subseteq DOMAIN disk \union {p},
           \A q \in DOMAIN disk \ {p} : disk'[q] = disk[q],
           \A q \in DOMAIN disk' : disk'[q] <= flushed',
           ~dirty => p \in DOMAIN disk' /\ disk'[p] = page
    PROVE  PoolInv'
<1>0. /\ clock \in Nat /\ guards \in [PageIds -> Nat] /\ frames \in [resident -> Frames]
      /\ resident' = resident /\ p \in PageIds /\ p \in DOMAIN latest
      /\ latest \in [DOMAIN latest -> Nat]
  BY PoolFacts DEF resident
<1>1. /\ frames'[p].page = page /\ frames'[p].pin_count = pins /\ frames'[p].dirty = dirty
      /\ frames'[p].history = frames[p].history
      /\ frames'[p] \in Frames
      /\ \A q \in resident \ {p} : frames'[q] = frames[q]
      /\ frames' \in [resident -> Frames]
  BY <1>0 DEF Frames
<1>2. /\ DOMAIN latest' = DOMAIN latest /\ latest'[p] = page /\ latest' \in [DOMAIN latest -> Nat]
      /\ \A q \in DOMAIN latest \ {p} : latest'[q] = latest[q]
  BY <1>0 DEF Put
<1>3. PoolTypes'
  BY <1>0, <1>1, <1>2 DEF PoolInv, PoolTypes, Owed
<1>4. Owed' /\ LogBeforePage'
  BY <1>0, <1>2 DEF PoolInv, Owed, LogBeforePage
<1>5. GuardsArePinned'
  BY <1>0, <1>1 DEF PoolInv, PagesAreKept, GuardsArePinned
<1>6. NothingIsLost'
  <2>1. /\ \A q \in DOMAIN latest : latest[q] = IF q \in resident THEN frames[q].page ELSE disk[q]
        /\ \A q \in resident : ~frames[q].dirty => q \in DOMAIN disk /\ disk[q] = frames[q].page
        /\ resident \subseteq DOMAIN latest /\ DOMAIN latest \subseteq resident \union DOMAIN disk
    BY PoolFacts
  <2>2. QED
    BY <1>0, <1>1, <1>2, <2>1 DEF NothingIsLost
<1>7. QED
  BY <1>3, <1>4, <1>5, <1>6 DEF PoolInv, PagesAreKept

LEMMA SamePage ==
    ASSUME PoolInv, NEW p \in resident
    PROVE  /\ latest = Put(latest, p, frames[p].page) /\ guards = [guards EXCEPT ![p] = frames[p].pin_count]
           /\ frames[p] \in Frames /\ frames[p].pin_count = guards[p]
           /\ \A dirty \in BOOLEAN :
                 [frames[p] EXCEPT !.dirty = dirty]
                     = [frames[p] EXCEPT !.page = frames[p].page, !.pin_count = frames[p].pin_count,
                                         !.dirty = dirty]
           /\ \A pins \in Nat :
                 [frames[p] EXCEPT !.pin_count = pins]
                     = [frames[p] EXCEPT !.page = frames[p].page, !.pin_count = pins,
                                         !.dirty = frames[p].dirty]
           /\ \A page \in Nat :
                 [frames[p] EXCEPT !.page = page, !.dirty = TRUE]
                     = [frames[p] EXCEPT !.page = page, !.pin_count = frames[p].pin_count,
                                         !.dirty = TRUE]
<1>1. /\ latest \in [DOMAIN latest -> Nat] /\ p \in DOMAIN latest /\ latest[p] = frames[p].page
      /\ guards \in [PageIds -> Nat] /\ p \in PageIds /\ frames[p].pin_count = guards[p]
      /\ frames[p] \in Frames
  BY PoolFacts
<1>2. latest = Put(latest, p, frames[p].page)
  BY <1>1 DEF Put
<1>3. guards = [guards EXCEPT ![p] = frames[p].pin_count]
  BY <1>1
<1>4. QED
  BY <1>1, <1>2, <1>3 DEF Frames

LEMMA FlushStep ==
    ASSUME PoolInv, NEW p \in PageIds, flush_page(p)
    PROVE  PoolInv'
<1>1. p \in resident /\ UNCHANGED <<clock, next_lsn, guards, latest>>
  BY DEF flush_page
<1>2. CASE WriteFails(p) /\ UNCHANGED frames
  <2>1. clock' \in Nat
    BY <1>1, PoolFacts
  <2>2. QED
    BY <1>1, <1>2, <2>1, WriteFailsKeeps
<1>3. CASE Written(p) /\ frames' = [frames EXCEPT ![p].dirty = FALSE]
  <2>1. frames[p] \in Frames /\ frames[p].page \in Nat /\ frames[p].pin_count \in Nat
    BY <1>1, PoolFacts DEF Frames
  <2>2. frames' = [frames EXCEPT ![p] = [frames[p] EXCEPT !.dirty = FALSE]]
    BY <1>3, <1>1, PoolFacts
  <2>3. frames' = [frames EXCEPT ![p] = [frames[p] EXCEPT !.page = frames[p].page,
                                  !.pin_count = frames[p].pin_count, !.dirty = FALSE]]
    BY <1>1, <2>2, SamePage
  <2>4. latest' = Put(latest, p, frames[p].page) /\ guards' = [guards EXCEPT ![p] = frames[p].pin_count]
    BY <1>1, SamePage
  <2>5. /\ flushed' \in Nat /\ disk' \in [DOMAIN disk' -> Nat] /\ DOMAIN disk' \subseteq DOMAIN latest
        /\ DOMAIN disk' = DOMAIN disk \union {p} /\ disk'[p] = latest[p]
        /\ disk'[p] = frames[p].page
        /\ \A q \in DOMAIN disk \ {p} : disk'[q] = disk[q]
        /\ \A q \in DOMAIN disk' : disk'[q] <= flushed'
    BY <1>1, <1>3, WrittenFacts
  <2>6. next_lsn' \in Nat /\ clock' = clock
    BY <1>1, PoolFacts
  <2>7. QED
    BY <1>1, <2>1, <2>3, <2>4, <2>5, <2>6, FrameChanges
<1>4. QED
  BY <1>2, <1>3 DEF flush_page

LEMMA ChangeStep ==
    ASSUME PoolInv, NEW p \in PageIds, change(p)
    PROVE  PoolInv'
<1>1. /\ p \in resident /\ UNCHANGED <<clock, disk, flushed, guards>>
      /\ next_lsn' = next_lsn + 1 /\ next_lsn \in Nat
      /\ frames' = [frames EXCEPT ![p].page = next_lsn, ![p].dirty = TRUE]
      /\ latest' = Put(latest, p, next_lsn)
  BY PoolFacts DEF change
<1>2. frames[p].pin_count \in Nat
  BY <1>1, PoolFacts DEF Frames
<1>3. frames' = [frames EXCEPT ![p] = [frames[p] EXCEPT !.page = next_lsn, !.dirty = TRUE]]
  BY <1>1, PoolFacts
<1>4. frames' = [frames EXCEPT ![p] = [frames[p] EXCEPT !.page = next_lsn,
                                !.pin_count = frames[p].pin_count, !.dirty = TRUE]]
  BY <1>1, <1>3, SamePage
<1>5. guards' = [guards EXCEPT ![p] = frames[p].pin_count]
  BY <1>1, SamePage
<1>6. /\ flushed' \in Nat /\ disk' \in [DOMAIN disk' -> Nat] /\ next_lsn' \in Nat
      /\ DOMAIN disk \subseteq DOMAIN disk' /\ DOMAIN disk' \subseteq DOMAIN disk \union {p}
      /\ \A q \in DOMAIN disk \ {p} : disk'[q] = disk[q]
      /\ \A q \in DOMAIN disk' : disk'[q] <= flushed'
  BY <1>1, PoolFacts
<1>7. QED
  BY <1>1, <1>2, <1>4, <1>5, <1>6, FrameChanges

LEMMA DropStep ==
    ASSUME PoolInv, NEW p \in PageIds, drop_guard(p)
    PROVE  PoolInv'
<1>1. /\ p \in resident /\ UNCHANGED <<clock, disk, flushed, next_lsn, latest>>
      /\ guards' = [guards EXCEPT ![p] = @ - 1]
      /\ frames' = [frames EXCEPT ![p].pin_count = IF @ = 0 THEN 0 ELSE @ - 1]
  BY PoolFacts DEF drop_guard
<1>. DEFINE pins == frames[p].pin_count - 1
<1>2. /\ frames[p].pin_count = guards[p] /\ guards[p] > 0 /\ guards[p] \in Nat /\ pins \in Nat
      /\ frames[p].page \in Nat /\ frames[p].dirty \in BOOLEAN
  BY <1>1, PoolFacts DEF Frames, drop_guard
<1>3. frames' = [frames EXCEPT ![p] = [frames[p] EXCEPT !.pin_count = pins]]
  <2>1. frames' = [frames EXCEPT ![p] = [frames[p] EXCEPT
                       !.pin_count = IF frames[p].pin_count = 0 THEN 0 ELSE frames[p].pin_count - 1]]
    BY <1>1
  <2>2. (IF frames[p].pin_count = 0 THEN 0 ELSE frames[p].pin_count - 1) = pins
    BY <1>2
  <2>3. QED
    BY <2>1, <2>2
<1>4. guards' = [guards EXCEPT ![p] = pins]
  <2>1. pins = guards[p] - 1
    BY <1>2
  <2>2. QED
    BY <1>1, <2>1
<1>. HIDE DEF pins
<1>5. frames' = [frames EXCEPT ![p] = [frames[p] EXCEPT !.page = frames[p].page,
                                !.pin_count = pins, !.dirty = frames[p].dirty]]
  BY <1>1, <1>2, <1>3, SamePage
<1>6. latest' = Put(latest, p, frames[p].page)
  BY <1>1, SamePage
<1>7. /\ flushed' \in Nat /\ disk' \in [DOMAIN disk' -> Nat] /\ next_lsn' \in Nat
      /\ DOMAIN disk \subseteq DOMAIN disk' /\ DOMAIN disk' \subseteq DOMAIN disk \union {p}
      /\ \A q \in DOMAIN disk \ {p} : disk'[q] = disk[q]
      /\ \A q \in DOMAIN disk' : disk'[q] <= flushed'
      /\ ~frames[p].dirty => p \in DOMAIN disk' /\ disk'[p] = frames[p].page
  BY <1>1, PoolFacts
<1>a. p \in resident /\ clock' = clock /\ frames[p].page \in Nat /\ pins \in Nat
  BY <1>1, <1>2
<1>8. CASE frames[p].dirty
  <2>1. frames' = [frames EXCEPT ![p] = [frames[p] EXCEPT !.page = frames[p].page,
                                  !.pin_count = pins, !.dirty = TRUE]]
    BY <1>2, <1>5, <1>8
  <2>2. QED
    BY <1>a, <1>4, <1>6, <1>7, <2>1, FrameChanges
<1>9. CASE ~frames[p].dirty
  <2>1. frames' = [frames EXCEPT ![p] = [frames[p] EXCEPT !.page = frames[p].page,
                                  !.pin_count = pins, !.dirty = FALSE]]
    BY <1>2, <1>5, <1>9
  <2>2. QED
    BY <1>a, <1>4, <1>6, <1>7, <1>9, <2>1, FrameChanges
<1>10. QED
  BY <1>8, <1>9

LEMMA InvalidateStep ==
    ASSUME PoolInv, NEW ps \in SUBSET PageIds, invalidate_pages(ps)
    PROVE  PoolInv'
<1>1. /\ \A p \in ps : p \in resident => ~(frames[p].pin_count > 0)
      /\ frames' = Without(frames, ps)
      /\ latest' = [p \in DOMAIN latest \ (ps \ DOMAIN disk) |->
                        IF p \in ps THEN disk[p] ELSE latest[p]]
      /\ UNCHANGED <<clock, disk, flushed, next_lsn, guards>>
  BY DEF invalidate_pages, pinned
<1>2. /\ resident' = resident \ ps /\ frames' \in [resident' -> Frames]
      /\ \A q \in resident \ ps : frames'[q] = frames[q]
  BY <1>1, PoolFacts DEF Without, resident
<1>3. /\ DOMAIN latest' = DOMAIN latest \ (ps \ DOMAIN disk) /\ latest' \in [DOMAIN latest' -> Nat]
      /\ \A q \in DOMAIN latest' : latest'[q] = IF q \in ps THEN disk[q] ELSE latest[q]
  BY <1>1, PoolFacts
<1>4. PoolTypes'
  BY <1>1, <1>2, <1>3 DEF PoolInv, PoolTypes
<1>5. Owed' /\ LogBeforePage'
  BY <1>1, <1>2, <1>3 DEF PoolInv, Owed, PagesAreKept, LogBeforePage
<1>6. GuardsArePinned'
  <2>1. \A q \in ps \cap resident : frames[q].pin_count = 0
    <3>1. ASSUME NEW q \in ps \cap resident PROVE frames[q].pin_count = 0
      <4>1. frames[q].pin_count \in Nat /\ ~(frames[q].pin_count > 0)
        BY <1>1, PoolFacts DEF Frames
      <4>2. QED
        BY <4>1
    <3>2. QED
      BY <3>1
  <2>2. \A q \in ps \cap resident : guards[q] = 0
    BY <2>1, PoolFacts
  <2>3. QED
    BY <1>1, <1>2, <2>2 DEF PoolInv, PagesAreKept, GuardsArePinned
<1>7. NothingIsLost'
  <2>1. /\ \A q \in DOMAIN latest : latest[q] = IF q \in resident THEN frames[q].page ELSE disk[q]
        /\ \A q \in resident : ~frames[q].dirty => q \in DOMAIN disk /\ disk[q] = frames[q].page
        /\ resident \subseteq DOMAIN latest
    BY PoolFacts
  <2>2. QED
    BY <1>1, <1>2, <1>3, <2>1 DEF NothingIsLost
<1>8. QED
  BY <1>4, <1>5, <1>6, <1>7 DEF PoolInv, PagesAreKept

LEMMA ResizeStep ==
    ASSUME PoolInv, NEW count \in Nat, resize_pages(count)
    PROVE  PoolInv'
<1>. DEFINE kept == {q \in PageIds : q < count}
<1>1. /\ \A p \in resident : p >= count => ~(frames[p].pin_count > 0)
      /\ frames' = Without(frames, Beyond(count))
      /\ disk' = [p \in kept |-> IF p \in DOMAIN disk THEN disk[p] ELSE Unreadable]
      /\ latest' = [p \in kept |-> IF p \in DOMAIN latest THEN latest[p] ELSE Unreadable]
      /\ UNCHANGED <<clock, flushed, next_lsn, guards>>
  BY DEF resize_pages, pinned, Resized
<1>0. \A q \in PageIds : q \in kept \/ q >= count
  BY PoolAssumption
<1>2. /\ resident' = resident \cap kept /\ frames' \in [resident' -> Frames]
      /\ \A q \in resident' : frames'[q] = frames[q]
  <2>1. resident \ Beyond(count) = resident \cap kept
    BY PoolFacts, PoolAssumption DEF Beyond
  <2>2. QED
    BY <1>1, <2>1, PoolFacts DEF Without, resident
<1>. HIDE DEF kept
<1>3. /\ DOMAIN latest' = kept /\ latest' \in [kept -> Nat] /\ DOMAIN disk' = kept /\ disk' \in [kept -> Nat]
      /\ \A q \in kept : q \in DOMAIN latest => latest'[q] = latest[q]
      /\ \A q \in kept : q \in DOMAIN disk => disk'[q] = disk[q]
      /\ \A q \in kept \ DOMAIN latest : latest'[q] = Unreadable
      /\ \A q \in kept \ DOMAIN disk : disk'[q] = Unreadable
  BY <1>1, PoolFacts DEF Unreadable
<1>a. kept \subseteq PageIds
  BY DEF kept
<1>4. PoolTypes'
  BY <1>1, <1>2, <1>3, <1>a DEF PoolInv, PoolTypes
<1>5. Owed'
  BY <1>3 DEF Owed
<1>6. GuardsArePinned'
  <2>1. ASSUME NEW q \in resident, q \notin kept PROVE guards[q] = 0
    <3>1. frames[q].pin_count \in Nat /\ frames[q].pin_count = guards[q] /\ q \in PageIds
      BY PoolFacts DEF Frames
    <3>2. ~(frames[q].pin_count > 0)
      BY <1>0, <1>1, <2>1, <3>1
    <3>3. QED
      BY <3>1, <3>2
  <2>2. guards \in [PageIds -> Nat]
    BY PoolFacts
  <2>3. ASSUME NEW q \in PageIds, guards[q] > 0 PROVE q \in resident'
    <3>1. q \in resident
      BY <2>3, PoolFacts
    <3>2. guards[q] # 0
      BY <2>2, <2>3
    <3>3. QED
      BY <1>2, <2>1, <3>1, <3>2
  <2>4. \A q \in resident' : frames'[q].pin_count = guards[q]
    BY <1>2, PoolFacts
  <2>5. QED
    BY <1>1, <2>3, <2>4 DEF GuardsArePinned
<1>7. NothingIsLost'
  <2>1. /\ \A q \in DOMAIN latest : latest[q] = IF q \in resident THEN frames[q].page ELSE disk[q]
        /\ \A q \in resident : ~frames[q].dirty => q \in DOMAIN disk /\ disk[q] = frames[q].page
        /\ resident \subseteq DOMAIN latest
        /\ DOMAIN disk \subseteq DOMAIN latest /\ DOMAIN latest \subseteq resident \union DOMAIN disk
    BY PoolFacts
  <2>2. QED
    BY <1>1, <1>2, <1>3, <2>1 DEF NothingIsLost
<1>8. LogBeforePage'
  BY <1>1, <1>3, PoolFacts DEF LogBeforePage, Unreadable
<1>9. QED
  BY <1>4, <1>5, <1>6, <1>7, <1>8 DEF PoolInv, PagesAreKept

LEMMA ResetStep == ASSUME PoolInv, reset_storage PROVE PoolInv'
<1>1. \A q \in PageIds : ~(q < 0)
  BY PoolAssumption
<1>2. /\ DOMAIN disk' = {} /\ disk' \in [{} -> Nat] /\ latest' = disk'
  BY <1>1 DEF reset_storage, Resized
<1>3. /\ resident' = {} /\ frames' \in [{} -> Frames] /\ clock' = 0
      /\ UNCHANGED <<flushed, next_lsn, guards>>
  BY DEF reset_storage, Without, resident
<1>4. \A q \in PageIds : ~(guards[q] > 0)
  <2>1. ASSUME NEW q \in PageIds, guards[q] > 0 PROVE FALSE
    <3>1. q \in resident /\ frames[q].pin_count = guards[q]
      BY <2>1, PoolFacts
    <3>2. QED
      BY <2>1, <3>1 DEF reset_storage, pinned
  <2>2. QED
    BY <2>1
<1>5. PoolTypes' /\ Owed'
  BY <1>2, <1>3 DEF PoolInv, PoolTypes, Owed
<1>6. PagesAreKept'
  BY <1>2, <1>3, <1>4 DEF PagesAreKept, GuardsArePinned, NothingIsLost, LogBeforePage
<1>7. QED
  BY <1>5, <1>6 DEF PoolInv

LEMMA PoolStep == PoolInv /\ [PoolNext]_poolVars => PoolInv'
<1>. SUFFICES ASSUME PoolInv, [PoolNext]_poolVars PROVE PoolInv'
  OBVIOUS
<1>1. CASE UNCHANGED poolVars
  BY <1>1 DEF poolVars, PoolInv, PoolTypes, Owed, PagesAreKept, GuardsArePinned, NothingIsLost,
     LogBeforePage, resident
<1>2. ASSUME NEW p \in PageIds,
             fetch(p) \/ refused(p) \/ install(p) \/ flush_page(p) \/ change(p) \/ drop_guard(p)
      PROVE  PoolInv'
  BY <1>2, FetchStep, RefusedStep, InstallStep, FlushStep, ChangeStep, DropStep
<1>3. ASSUME NEW ps \in SUBSET PageIds, invalidate_pages(ps) PROVE PoolInv'
  BY <1>3, InvalidateStep
<1>4. ASSUME NEW count \in 0..Cardinality(PageIds), resize_pages(count) PROVE PoolInv'
  <2>1. count \in Nat
    OBVIOUS
  <2>2. QED
    BY <1>4, <2>1, ResizeStep
<1>5. CASE reset_storage
  BY <1>5, ResetStep
<1>6. QED
  BY <1>1, <1>2, <1>3, <1>4, <1>5 DEF PoolNext

LEMMA PoolInvariant == PoolSpec => []PoolInv
<1>1. QED
  BY PoolInitially, PoolStep, PTL DEF PoolSpec

\* The frames, the file and the ghosts keep their types (buffer.rs).
THEOREM PoolTypeCorrect == PoolSpec => []PoolTypeOK
<1>1. PoolInv => PoolTypeOK
  BY DEF PoolInv, PoolTypes, PoolTypeOK, Frames
<1>2. QED
  BY <1>1, PoolInvariant, PTL

\* BufferPool keeps the promises of its guards and of the log: a guard's page is
\* pinned as often as it is guarded, the pool and the file together hold the last
\* content of every page through evictions, failed writes, invalidations, resizes
\* and resets, and no page is in the file before its log.
THEOREM PoolKeepsPages == PoolSpec => []PagesAreKept
<1>1. PoolInv => PagesAreKept
  BY DEF PoolInv
<1>2. QED
  BY <1>1, PoolInvariant, PTL

-----------------------------------------------------------------------------
(***************************************************************************)
(* The runs of the assistant.  The invariant says where each phase of a    *)
(* call comes from: what is on record of it, whose run is under way, and   *)
(* that only what the user has said yes to goes on to the database.        *)
(***************************************************************************)
InFlight == {"read", "reading", "mutation", "waiting", "approved", "mutating"}
Decisions == {"undecided", "yes", "no", "expired"}
Statuses == {"Proposed", "ApprovalRequired", "Approved", "Started", "Completed", "Error"}

AiTypes ==
    /\ run \in [Runs -> {"none", "asking", "executing", "ended"}]
    /\ call \in [Calls -> InFlight \union {"none", "ok", "denied", "failed"}]
    /\ approvals \in [DOMAIN approvals -> Decisions] /\ DOMAIN approvals \subseteq Calls
    /\ audit \in [Calls -> SUBSET Statuses]
    /\ executed \subseteq Calls

CallsFollowTheRun ==
    \A c \in Calls :
        /\ call[c] \in {"none", "read", "reading"} => "ApprovalRequired" \notin audit[c]
        /\ call[c] \in {"mutation", "waiting", "approved", "mutating"} =>
               {"Proposed", "ApprovalRequired"} \subseteq audit[c]
        /\ call[c] \in {"approved", "mutating"} => c \in said_yes
        /\ call[c] = "mutating" => c \in executed
        /\ call[c] \in InFlight => c[1] \in Runs /\ run[c[1]] = "executing"

DecisionsAreTheUsers == \A c \in DOMAIN approvals : approvals[c] = "yes" => c \in said_yes

AiInv == AiTypes /\ CallsFollowTheRun /\ DecisionsAreTheUsers /\ ApprovalsAreKept

LEMMA AiInitially == AiInit => AiInv
BY DEF Statuses, AiInit, AiInv, AiTypes, CallsFollowTheRun, DecisionsAreTheUsers, ApprovalsAreKept,
   MutationsAreApproved, NoApprovalIsLeft, InFlight

LEMMA RemovedFacts ==
    ASSUME approvals \in [DOMAIN approvals -> Decisions], NEW cs
    PROVE  /\ DOMAIN Removed(cs) = DOMAIN approvals \ cs
           /\ Removed(cs) \in [DOMAIN approvals \ cs -> Decisions]
           /\ \A c \in DOMAIN approvals \ cs : Removed(cs)[c] = approvals[c]
BY DEF Removed

\* A run whose calls have all returned may go on or end.
LEMMA RunMovesKeep ==
    ASSUME AiInv, NEW r \in Runs, NEW pc \in {"asking", "ended"},
           run' = [run EXCEPT ![r] = pc],
           \A c \in Calls : c[1] = r => call[c] \notin InFlight,
           approvals' = approvals \/ approvals' = Removed(Of(r)),
           UNCHANGED <<call, audit, said_yes, executed>>
    PROVE  AiInv'
<1>1. /\ DOMAIN approvals' \subseteq DOMAIN approvals
      /\ approvals' \in [DOMAIN approvals' -> Decisions]
      /\ \A c \in DOMAIN approvals' : approvals'[c] = approvals[c]
  <2>1. approvals \in [DOMAIN approvals -> Decisions]
    BY DEF AiInv, AiTypes
  <2>2. CASE approvals' = approvals
    BY <2>1, <2>2
  <2>3. CASE approvals' = Removed(Of(r))
    BY <2>1, <2>3, RemovedFacts
  <2>4. QED
    BY <2>2, <2>3
<1>2. \A s \in Runs : s # r => run'[s] = run[s]
  BY DEF AiInv, AiTypes
<1>3. AiTypes' /\ DecisionsAreTheUsers'
  BY <1>1 DEF AiInv, AiTypes, DecisionsAreTheUsers
<1>4. CallsFollowTheRun'
  BY <1>2 DEF AiInv, CallsFollowTheRun
<1>5. NoApprovalIsLeft'
  BY <1>1, <1>2, <1>4 DEF AiInv, AiTypes, ApprovalsAreKept, NoApprovalIsLeft, CallsFollowTheRun, InFlight
<1>6. MutationsAreApproved'
  BY DEF AiInv, ApprovalsAreKept, MutationsAreApproved
<1>7. QED
  BY <1>3, <1>4, <1>5, <1>6 DEF AiInv, ApprovalsAreKept

\* Where a call may go from where it is.
MayGo(c, pc) ==
    /\ call[c] \in InFlight /\ pc \in InFlight \union {"ok", "denied", "failed"}
    /\ pc \in {"read", "reading"} => call[c] \in {"read", "reading"}
    /\ pc \in {"mutation", "waiting", "approved", "mutating"} =>
           call[c] \in {"mutation", "waiting", "approved", "mutating"}
    /\ pc \in {"approved", "mutating"} => c \in said_yes
    /\ pc = "mutating" => c \in executed'
    /\ pc = "ok" => call[c] \in {"reading", "mutating"}

\* Nobody's approval but its own changes, if it is not to be removed for its age.
OthersApprovalsStay(c, pc) ==
    /\ DOMAIN approvals' \subseteq DOMAIN approvals \union {c}
    /\ approvals' \in [DOMAIN approvals' -> Decisions]
    /\ \A x \in DOMAIN approvals' \ {c} : approvals'[x] = approvals[x]
    /\ c \in DOMAIN approvals' => pc = "waiting" /\ approvals'[c] = "undecided"

MayExecute(c, more) ==
    \/ executed' = executed
    \/ /\ executed' = executed \union {c} /\ c \in said_yes
       /\ {"Proposed", "ApprovalRequired", "Approved", "Started"} \subseteq audit[c] \union more

\* One call takes a step.
LEMMA CallMovesKeep ==
    ASSUME AiInv, NEW c \in Calls, NEW pc, MayGo(c, pc), call' = [call EXCEPT ![c] = pc],
           NEW more \in SUBSET (Statuses \ {"ApprovalRequired"}),
           audit' = [audit EXCEPT ![c] = @ \union more],
           OthersApprovalsStay(c, pc), MayExecute(c, more),
           run' = run, said_yes' = said_yes
    PROVE  AiInv'
<1>0. /\ call[c] \in InFlight /\ pc \in InFlight \union {"ok", "denied", "failed"}
      /\ pc \in {"read", "reading"} => call[c] \in {"read", "reading"}
      /\ pc \in {"mutation", "waiting", "approved", "mutating"} =>
             call[c] \in {"mutation", "waiting", "approved", "mutating"}
      /\ pc \in {"approved", "mutating"} => c \in said_yes
      /\ pc = "mutating" => c \in executed'
      /\ pc = "ok" => call[c] \in {"reading", "mutating"}
      /\ DOMAIN approvals' \subseteq DOMAIN approvals \union {c}
      /\ approvals' \in [DOMAIN approvals' -> Decisions]
      /\ \A x \in DOMAIN approvals' \ {c} : approvals'[x] = approvals[x]
      /\ c \in DOMAIN approvals' => pc = "waiting" /\ approvals'[c] = "undecided"
      /\ \/ executed' = executed
         \/ /\ executed' = executed \union {c} /\ c \in said_yes
            /\ {"Proposed", "ApprovalRequired", "Approved", "Started"} \subseteq audit[c] \union more
      /\ more \in SUBSET Statuses /\ "ApprovalRequired" \notin more
  BY DEF MayGo, OthersApprovalsStay, MayExecute
<1>1. /\ call'[c] = pc /\ audit'[c] = audit[c] \union more
      /\ \A x \in Calls \ {c} : call'[x] = call[x] /\ audit'[x] = audit[x]
  BY <1>0 DEF AiInv, AiTypes
<1>2. AiTypes'
  <2>1. audit' \in [Calls -> SUBSET Statuses]
    BY <1>0 DEF AiInv, AiTypes
  <2>2. call' \in [Calls -> InFlight \union {"none", "ok", "denied", "failed"}]
    BY <1>0 DEF AiInv, AiTypes
  <2>3. executed' \subseteq Calls
    BY <1>0 DEF AiInv, AiTypes
  <2>4. QED
    BY <1>0, <2>1, <2>2, <2>3 DEF AiInv, AiTypes
<1>3. DecisionsAreTheUsers'
  BY <1>0 DEF AiInv, DecisionsAreTheUsers
<1>4. CallsFollowTheRun'
  <2>1. SUFFICES ASSUME NEW x \in Calls
        PROVE  /\ call'[x] \in {"none", "read", "reading"} => "ApprovalRequired" \notin audit'[x]
               /\ call'[x] \in {"mutation", "waiting", "approved", "mutating"} =>
                      {"Proposed", "ApprovalRequired"} \subseteq audit'[x]
               /\ call'[x] \in {"approved", "mutating"} => x \in said_yes'
               /\ call'[x] = "mutating" => x \in executed'
               /\ call'[x] \in InFlight => x[1] \in Runs /\ run'[x[1]] = "executing"
    BY <1>0 DEF CallsFollowTheRun
  <2>2. CASE x = c
    BY <1>0, <1>1, <2>2 DEF AiInv, CallsFollowTheRun, InFlight
  <2>3. CASE x # c
    BY <1>0, <1>1, <2>3 DEF AiInv, CallsFollowTheRun
  <2>4. QED
    BY <1>0, <2>2, <2>3
<1>5. NoApprovalIsLeft'
  BY <1>0, <1>1 DEF AiInv, AiTypes, ApprovalsAreKept, NoApprovalIsLeft, CallsFollowTheRun, InFlight
<1>6. MutationsAreApproved'
  <2>1. executed' \subseteq said_yes'
    BY <1>0 DEF AiInv, ApprovalsAreKept, MutationsAreApproved
  <2>2. \A x \in executed' : {"Proposed", "ApprovalRequired", "Approved", "Started"} \subseteq audit'[x]
    BY <1>0, <1>1 DEF AiInv, AiTypes, ApprovalsAreKept, MutationsAreApproved
  <2>3. \A x \in Calls : call'[x] = "ok" /\ "ApprovalRequired" \in audit'[x] => x \in executed'
    BY <1>0, <1>1 DEF AiInv, ApprovalsAreKept, MutationsAreApproved, CallsFollowTheRun
  <2>4. QED
    BY <1>0, <2>1, <2>2, <2>3 DEF MutationsAreApproved
<1>7. QED
  BY <1>0, <1>2, <1>3, <1>4, <1>5, <1>6 DEF AiInv, ApprovalsAreKept

LEMMA AuthorizeKeeps ==
    ASSUME AiInv, NEW r \in Runs, authorize(r) PROVE AiInv'
<1>1. PICK reads \in SUBSET In(r, "none"), mutations \in SUBSET In(r, "none") :
           /\ reads \cap mutations = {}
           /\ call' = [c \in Calls |-> IF c \in reads THEN "read"
                                       ELSE IF c \in mutations THEN "mutation" ELSE call[c]]
           /\ audit' = [c \in Calls |->
                            audit[c] \union (IF c \in reads THEN {"Proposed"}
                                             ELSE IF c \in mutations THEN {"Proposed", "ApprovalRequired"}
                                             ELSE {})]
  BY DEF authorize
<1>2. /\ run[r] = "asking" /\ run' = [run EXCEPT ![r] = "executing"]
      /\ approvals' = approvals /\ said_yes' = said_yes /\ executed' = executed
  BY DEF authorize
<1>3. /\ \A c \in reads \union mutations : c \in Calls /\ c[1] = r /\ call[c] = "none"
      /\ \A c \in reads : call'[c] = "read" /\ audit'[c] = audit[c] \union {"Proposed"}
      /\ \A c \in mutations : /\ call'[c] = "mutation"
                              /\ audit'[c] = audit[c] \union {"Proposed", "ApprovalRequired"}
      /\ \A c \in Calls \ (reads \union mutations) : call'[c] = call[c] /\ audit'[c] = audit[c]
  BY <1>1 DEF In, Of
<1>4. run'[r] = "executing" /\ \A s \in Runs : s # r => run'[s] = run[s]
  BY <1>2 DEF AiInv, AiTypes
<1>5. AiTypes'
  <2>1. audit' \in [Calls -> SUBSET Statuses]
    BY <1>1 DEF AiInv, AiTypes, Statuses
  <2>2. call' \in [Calls -> InFlight \union {"none", "ok", "denied", "failed"}]
    BY <1>1 DEF AiInv, AiTypes, InFlight
  <2>3. QED
    BY <1>2, <2>1, <2>2 DEF AiInv, AiTypes
<1>6. DecisionsAreTheUsers'
  BY <1>2 DEF AiInv, DecisionsAreTheUsers
<1>7. CallsFollowTheRun'
  <2>1. \A c \in Calls : audit[c] \subseteq audit'[c]
    BY <1>3
  <2>2. QED
    BY <1>2, <1>3, <1>4, <2>1 DEF AiInv, CallsFollowTheRun, InFlight
<1>8. NoApprovalIsLeft'
  BY <1>2, <1>3, <1>4 DEF AiInv, AiTypes, ApprovalsAreKept, NoApprovalIsLeft
<1>9. MutationsAreApproved'
  BY <1>2, <1>3 DEF AiInv, AiTypes, ApprovalsAreKept, MutationsAreApproved
<1>10. QED
  BY <1>5, <1>6, <1>7, <1>8, <1>9 DEF AiInv, ApprovalsAreKept

\* The user and the clock change what an approval says and nothing else.
LEMMA ApprovalsChange ==
    ASSUME AiInv, DOMAIN approvals' \subseteq DOMAIN approvals,
           approvals' \in [DOMAIN approvals' -> Decisions],
           said_yes \subseteq said_yes',
           \A c \in DOMAIN approvals' : approvals'[c] = "yes" => c \in said_yes',
           UNCHANGED <<run, call, audit, executed>>
    PROVE  AiInv'
<1>1. AiTypes' /\ DecisionsAreTheUsers' /\ CallsFollowTheRun'
  BY DEF AiInv, AiTypes, DecisionsAreTheUsers, CallsFollowTheRun
<1>2. NoApprovalIsLeft' /\ MutationsAreApproved'
  BY DEF AiInv, ApprovalsAreKept, NoApprovalIsLeft, MutationsAreApproved
<1>3. QED
  BY <1>1, <1>2 DEF AiInv, ApprovalsAreKept

LEMMA AiKeeps == ASSUME AiInv, AiNext PROVE AiInv'
<1>0. /\ DOMAIN approvals \subseteq Calls /\ approvals \in [DOMAIN approvals -> Decisions]
      /\ \A c \in DOMAIN approvals : call[c] = "waiting"
      /\ \A c \in DOMAIN approvals : approvals[c] = "yes" => c \in said_yes
      /\ audit \in [Calls -> SUBSET Statuses] /\ run \in [Runs -> {"none", "asking", "executing", "ended"}]
  BY DEF AiInv, AiTypes, ApprovalsAreKept, NoApprovalIsLeft, DecisionsAreTheUsers
<1>a. \A c \in Calls : /\ call[c] \in InFlight => c[1] \in Runs /\ run[c[1]] = "executing"
                       /\ call[c] \in {"approved", "mutating"} => c \in said_yes
                       /\ call[c] \in {"mutation", "waiting", "approved", "mutating"} =>
                              {"Proposed", "ApprovalRequired"} \subseteq audit[c]
                       /\ call[c] = "mutating" => c \in executed
  BY DEF AiInv, CallsFollowTheRun
<1>b. \A c \in Calls, more \in SUBSET Statuses :
          Audited(c, more) <=> audit' = [audit EXCEPT ![c] = @ \union more]
  BY DEF Audited
<1>c. \A c \in Calls : audit = [audit EXCEPT ![c] = @ \union {}]
  BY <1>0
<1>1. ASSUME NEW r \in Runs, start_run(r) PROVE AiInv'
  <2>1. \A c \in Calls : c[1] = r => call[c] \notin InFlight
    BY <1>1, <1>a DEF start_run
  <2>2. run' = [run EXCEPT ![r] = "asking"] /\ approvals' = approvals
        /\ UNCHANGED <<call, audit, said_yes, executed>>
    BY <1>1 DEF start_run
  <2>3. QED
    BY <2>1, <2>2, RunMovesKeep
<1>2. ASSUME NEW r \in Runs, cancel_run(r) \/ cancel_approvals(r) PROVE AiInv'
  <2>1. /\ DOMAIN approvals' \subseteq DOMAIN approvals
        /\ approvals' \in [DOMAIN approvals' -> Decisions]
        /\ \A c \in DOMAIN approvals' : approvals'[c] = approvals[c]
    <3>1. CASE cancel_run(r)
      BY <1>0, <3>1 DEF cancel_run
    <3>2. CASE cancel_approvals(r)
      <4>1. approvals' = Removed(Of(r))
        BY <3>2 DEF cancel_approvals
      <4>2. /\ DOMAIN Removed(Of(r)) = DOMAIN approvals \ Of(r)
            /\ Removed(Of(r)) \in [DOMAIN approvals \ Of(r) -> Decisions]
            /\ \A c \in DOMAIN approvals \ Of(r) : Removed(Of(r))[c] = approvals[c]
        BY <1>0, RemovedFacts
      <4>3. QED
        BY <4>1, <4>2
    <3>3. QED
      BY <1>2, <3>1, <3>2
  <2>2. UNCHANGED <<run, call, audit, said_yes, executed>>
    BY <1>2 DEF cancel_run, cancel_approvals
  <2>3. QED
    BY <1>0, <2>1, <2>2, ApprovalsChange
<1>3. ASSUME NEW r \in Runs, next_round(r) \/ end_run(r) PROVE AiInv'
  <2>1. \A c \in Calls : c[1] = r => call[c] \notin InFlight
    BY <1>3, <1>a DEF next_round, end_run, Returned, Of, InFlight
  <2>2. PICK pc \in {"asking", "ended"} : run' = [run EXCEPT ![r] = pc]
    BY <1>3 DEF next_round, end_run
  <2>3. /\ approvals' = approvals \/ approvals' = Removed(Of(r))
        /\ UNCHANGED <<call, audit, said_yes, executed>>
    BY <1>3 DEF next_round, end_run
  <2>4. QED
    BY <2>1, <2>2, <2>3, RunMovesKeep
<1>e. ASSUME NEW c \in Calls, c \notin DOMAIN approvals, approvals' = approvals, NEW pc
      PROVE  OthersApprovalsStay(c, pc)
  BY <1>0, <1>e DEF OthersApprovalsStay
<1>f. ASSUME NEW c \in Calls, approvals' = Removed({c}), NEW pc PROVE OthersApprovalsStay(c, pc)
  <2>1. /\ DOMAIN approvals' = DOMAIN approvals \ {c} /\ approvals' \in [DOMAIN approvals' -> Decisions]
        /\ \A x \in DOMAIN approvals' : approvals'[x] = approvals[x]
    <3>1. /\ DOMAIN Removed({c}) = DOMAIN approvals \ {c}
          /\ Removed({c}) \in [DOMAIN approvals \ {c} -> Decisions]
          /\ \A x \in DOMAIN approvals \ {c} : Removed({c})[x] = approvals[x]
      BY <1>0, RemovedFacts
    <3>2. QED
      BY <1>f, <3>1
  <2>2. QED
    BY <2>1 DEF OthersApprovalsStay
<1>4. ASSUME NEW c \in Calls, give_up(c) PROVE AiInv'
  <2>1. /\ call' = [call EXCEPT ![c] = "failed"] /\ audit' = [audit EXCEPT ![c] = @ \union {}]
        /\ run' = run /\ said_yes' = said_yes
    BY <1>4, <1>c DEF give_up, GoesTo
  <2>2. MayGo(c, "failed") /\ MayExecute(c, {})
    BY <1>4 DEF give_up, MayGo, MayExecute, InFlight
  <2>3. OthersApprovalsStay(c, "failed")
    <3>1. CASE call[c] = "waiting"
      <4>1. approvals' = Removed({c})
        BY <1>4, <3>1 DEF give_up
      <4>2. QED
        BY <1>f, <4>1
    <3>2. CASE call[c] # "waiting"
      <4>1. approvals' = approvals /\ c \notin DOMAIN approvals
        BY <1>0, <1>4, <3>2 DEF give_up
      <4>2. QED
        BY <1>e, <4>1
    <3>3. QED
      BY <3>1, <3>2
  <2>4. {} \in SUBSET (Statuses \ {"ApprovalRequired"})
    OBVIOUS
  <2>5. QED
    BY <2>1, <2>2, <2>3, <2>4, CallMovesKeep
<1>5. ASSUME NEW c \in Calls, inspect(c) PROVE AiInv'
  <2>1. /\ call' = [call EXCEPT ![c] = "reading"] /\ audit' = [audit EXCEPT ![c] = @ \union {"Started"}]
        /\ run' = run /\ said_yes' = said_yes
    BY <1>5 DEF inspect, GoesTo, Audited
  <2>2. MayGo(c, "reading") /\ MayExecute(c, {"Started"})
    BY <1>5 DEF inspect, MayGo, MayExecute, InFlight
  <2>3. OthersApprovalsStay(c, "reading")
    <3>1. approvals' = approvals /\ c \notin DOMAIN approvals
      BY <1>0, <1>5 DEF inspect
    <3>2. QED
      BY <1>e, <3>1
  <2>4. {"Started"} \in SUBSET (Statuses \ {"ApprovalRequired"})
    BY DEF Statuses
  <2>5. QED
    BY <2>1, <2>2, <2>3, <2>4, CallMovesKeep
<1>6. ASSUME NEW c \in Calls, tool_ends(c) PROVE AiInv'
  <2>1. PICK pc \in {"ok", "failed"}, more \in {{"Completed"}, {"Error"}, {}} :
            call' = [call EXCEPT ![c] = pc] /\ audit' = [audit EXCEPT ![c] = @ \union more]
    BY <1>6, <1>c DEF tool_ends, GoesTo, Audited
  <2>2. run' = run /\ said_yes' = said_yes
    BY <1>6 DEF tool_ends
  <2>3. MayGo(c, pc) /\ MayExecute(c, more)
    BY <1>6 DEF tool_ends, MayGo, MayExecute, InFlight
  <2>4. OthersApprovalsStay(c, pc)
    <3>1. approvals' = approvals /\ c \notin DOMAIN approvals
      BY <1>0, <1>6 DEF tool_ends
    <3>2. QED
      BY <1>e, <3>1
  <2>5. more \in SUBSET (Statuses \ {"ApprovalRequired"})
    BY DEF Statuses
  <2>6. QED
    BY <2>1, <2>2, <2>3, <2>4, <2>5, CallMovesKeep
<1>7. ASSUME NEW c \in Calls, issue(c) PROVE AiInv'
  <2> DEFINE left == Removed({x \in DOMAIN approvals : approvals[x] = "expired"})
  <2>1. /\ DOMAIN left \subseteq DOMAIN approvals
        /\ left \in [DOMAIN left -> Decisions]
        /\ \A x \in DOMAIN left : left[x] = approvals[x]
    <3> DEFINE old == {x \in DOMAIN approvals : approvals[x] = "expired"}
    <3> HIDE DEF old
    <3>1. /\ DOMAIN Removed(old) = DOMAIN approvals \ old
          /\ Removed(old) \in [DOMAIN approvals \ old -> Decisions]
          /\ \A x \in DOMAIN approvals \ old : Removed(old)[x] = approvals[x]
      BY <1>0, RemovedFacts
    <3>2. QED
      BY <3>1 DEF old
  <2>2. /\ audit' = [audit EXCEPT ![c] = @ \union {}]
        /\ run' = run /\ said_yes' = said_yes
    BY <1>7, <1>c DEF issue
  <2>3. c \notin DOMAIN left
    BY <1>0, <1>7, <2>1 DEF issue
  <2>s. {} \in SUBSET (Statuses \ {"ApprovalRequired"})
    OBVIOUS
  <2>m. MayGo(c, "waiting") /\ MayGo(c, "failed") /\ MayExecute(c, {})
    BY <1>7 DEF issue, MayGo, MayExecute, InFlight
  <2> HIDE DEF left
  <2>4. CASE /\ approvals' = [x \in DOMAIN left \union {c} |-> IF x = c THEN "undecided" ELSE left[x]]
             /\ call' = [call EXCEPT ![c] = "waiting"]
    <3>1. /\ DOMAIN approvals' = DOMAIN left \union {c}
          /\ approvals' \in [DOMAIN approvals' -> Decisions]
          /\ approvals'[c] = "undecided"
          /\ \A x \in DOMAIN approvals' \ {c} : approvals'[x] = approvals[x]
      BY <2>1, <2>3, <2>4 DEF Decisions
    <3>2. OthersApprovalsStay(c, "waiting")
      BY <2>1, <3>1 DEF OthersApprovalsStay
    <3>3. QED
      BY <2>2, <2>4, <2>s, <2>m, <3>2, CallMovesKeep
  <2>5. CASE approvals' = left /\ call' = [call EXCEPT ![c] = "failed"]
    <3>1. OthersApprovalsStay(c, "failed")
      BY <2>1, <2>3, <2>5 DEF OthersApprovalsStay
    <3>2. QED
      BY <2>2, <2>5, <2>s, <2>m, <3>1, CallMovesKeep
  <2>6. QED
    BY <1>7, <2>4, <2>5 DEF issue, GoesTo, left
<1>8. ASSUME NEW c \in Calls, take_decided(c) PROVE AiInv'
  <2>1. /\ audit' = [audit EXCEPT ![c] = @ \union {}] /\ approvals' = Removed({c})
        /\ run' = run /\ said_yes' = said_yes
    BY <1>8, <1>c DEF take_decided
  <2>2. PICK pc \in {"approved", "denied", "failed"} :
            call' = [call EXCEPT ![c] = pc] /\ (pc = "approved" => c \in said_yes)
    BY <1>0, <1>8 DEF take_decided, GoesTo
  <2>3. MayGo(c, pc) /\ MayExecute(c, {})
    BY <1>8, <2>2 DEF take_decided, MayGo, MayExecute, InFlight
  <2>4. OthersApprovalsStay(c, pc)
    BY <1>f, <2>1
  <2>5. {} \in SUBSET (Statuses \ {"ApprovalRequired"})
    OBVIOUS
  <2>6. QED
    BY <2>1, <2>2, <2>3, <2>4, <2>5, CallMovesKeep
<1>9. ASSUME NEW c \in Calls, mutate(c) PROVE AiInv'
  <2>1. run' = run /\ said_yes' = said_yes
    BY <1>9 DEF mutate
  <2>2. c \in said_yes /\ {"Proposed", "ApprovalRequired"} \subseteq audit[c]
    BY <1>9, <1>a DEF mutate
  <2>3. \A pc : OthersApprovalsStay(c, pc)
    <3>1. approvals' = approvals /\ c \notin DOMAIN approvals
      BY <1>0, <1>9 DEF mutate
    <3>2. QED
      BY <1>e, <3>1
  <2>4. CASE /\ audit' = [audit EXCEPT ![c] = @ \union {"Approved", "Started"}]
             /\ call' = [call EXCEPT ![c] = "mutating"] /\ executed' = executed \union {c}
    <3>1. MayExecute(c, {"Approved", "Started"})
      BY <2>2, <2>4 DEF MayExecute
    <3>2. MayGo(c, "mutating")
      BY <1>9, <2>2, <2>4 DEF mutate, MayGo, InFlight
    <3>3. {"Approved", "Started"} \in SUBSET (Statuses \ {"ApprovalRequired"})
      BY DEF Statuses
    <3>4. QED
      BY <2>1, <2>3, <2>4, <3>1, <3>2, <3>3, CallMovesKeep
  <2>5. ASSUME NEW written \in {{}, {"Approved"}}, audit' = [audit EXCEPT ![c] = @ \union written],
               call' = [call EXCEPT ![c] = "failed"], executed' = executed
        PROVE  AiInv'
    <3>1. MayExecute(c, written) /\ MayGo(c, "failed")
      BY <1>9, <2>5 DEF mutate, MayExecute, MayGo, InFlight
    <3>2. written \in SUBSET (Statuses \ {"ApprovalRequired"})
      BY DEF Statuses
    <3>3. QED
      BY <2>1, <2>3, <2>5, <3>1, <3>2, CallMovesKeep
  <2>6. QED
    BY <1>9, <2>4, <2>5 DEF mutate, GoesTo, Audited
<1>10. ASSUME NEW c \in Calls, decide(c) \/ expire(c) PROVE AiInv'
  <2>1. /\ DOMAIN approvals' \subseteq DOMAIN approvals
        /\ approvals' \in [DOMAIN approvals' -> Decisions]
        /\ said_yes \subseteq said_yes'
        /\ \A x \in DOMAIN approvals' : approvals'[x] = "yes" => x \in said_yes'
    <3>1. CASE approvals' = Removed({c}) /\ said_yes' = said_yes
      <4>1. /\ DOMAIN Removed({c}) = DOMAIN approvals \ {c}
            /\ Removed({c}) \in [DOMAIN approvals \ {c} -> Decisions]
            /\ \A x \in DOMAIN approvals \ {c} : Removed({c})[x] = approvals[x]
        BY <1>0, RemovedFacts
      <4>2. QED
        BY <1>0, <3>1, <4>1
    <3>2. CASE /\ \E d \in {"no", "expired"} : approvals' = [approvals EXCEPT ![c] = d]
               /\ said_yes' = said_yes
      BY <1>0, <3>2 DEF Decisions
    <3>3. CASE approvals' = [approvals EXCEPT ![c] = "yes"] /\ said_yes' = said_yes \union {c}
      BY <1>0, <3>3 DEF Decisions
    <3>4. QED
      BY <1>10, <3>1, <3>2, <3>3 DEF decide, expire
  <2>2. UNCHANGED <<run, call, audit, executed>>
    BY <1>10 DEF decide, expire
  <2>3. QED
    BY <2>1, <2>2, ApprovalsChange
<1>11. QED
  BY <1>1, <1>2, <1>3, <1>4, <1>5, <1>6, <1>7, <1>8, <1>9, <1>10, AuthorizeKeeps
  DEF AiNext, Advance, Execute

\* Nothing the assistant does changes a database without the user's approval of this very
\* call, however calls, decisions, expiries and cancellations of any number of runs
\* interleave; and no approval is left behind by a run that has ended.
THEOREM ApprovalsAreAsked == AiSpec => []ApprovalsAreKept
<1>1. ASSUME AiInv, [AiNext]_aiVars PROVE AiInv'
  <2>1. CASE AiNext
    BY <1>1, <2>1, AiKeeps
  <2>2. CASE UNCHANGED aiVars
    BY <1>1, <2>2 DEF aiVars, AiInv, AiTypes, CallsFollowTheRun, DecisionsAreTheUsers, ApprovalsAreKept,
       MutationsAreApproved, NoApprovalIsLeft
  <2>3. QED
    BY <1>1, <2>1, <2>2
<1>2. AiInv => ApprovalsAreKept
  BY DEF AiInv
<1>3. QED
  BY <1>1, <1>2, AiInitially, PTL DEF AiSpec

-----------------------------------------------------------------------------
(***************************************************************************)
(* The plugin manager.  Every state document, the copies under way         *)
(* included, names only versions that are on disk, where nothing is ever   *)
(* removed; and while no two copies were under way at once, the only one   *)
(* there is differs from what was promised in its own plugin only.         *)
(***************************************************************************)
Installs == [active_version : Nat, previous_version : Nat, versions : SUBSET Nat]

\* A plugin of a state document that validate_persisted_state accepts, when the
\* versions vs of the plugin are on disk.
Fits(plugin, vs) ==
    /\ plugin \in Installs
    /\ plugin.versions = {} => plugin = NotInstalled
    /\ plugin.versions # {} =>
           /\ plugin.active_version \in plugin.versions
           /\ plugin.previous_version \in plugin.versions \union {NoVersion}
           /\ plugin.versions \subseteq vs

Document(s) ==
    /\ s \in [Plugins -> Installs]
    /\ \A p \in Plugins : Fits(s[p], artifacts[p])

OperationStates ==
    [pc : {"resolve", "download", "install", "copy", "persist", "replace"},
     kind : {"Install", "Update"}, version : Nat,
     copy : {NotInstalled} \union [Plugins -> Installs], cancelled : BOOLEAN]
        \union {NoOperation}

RollbackStates ==
    [pc : {"persist", "replace"}, plugin : Plugins, copy : [Plugins -> Installs]]
        \union {NoOperation}

ManagerTypes ==
    /\ artifacts \in [Plugins -> SUBSET Nat]
    /\ registry \in [Plugins -> Nat] /\ bundled \in [Plugins -> Nat]
    /\ promised \in [Plugins -> Nat]
    /\ operations \in [Plugins -> OperationStates]
    /\ rollback \in RollbackStates
    /\ activation \subseteq Plugins
    /\ raced \in BOOLEAN

Documents ==
    /\ Document(file)
    /\ Open => Document(state)
    /\ \A p \in Copies : Document(operations[p].copy)
    /\ rollback # NoOperation => Document(rollback.copy)
    /\ \A p \in Plugins :
           operations[p].pc = "copy" => operations[p].version \in artifacts[p]

\* Nothing runs before the program has opened the manager.
Opening ==
    /\ ~Open => /\ rollback = NoOperation
                /\ \A p \in Plugins : operations[p] = NoOperation
    /\ activation # {} =>
           /\ ~Open
           /\ \A p \in Plugins \ activation : bundled[p] \in artifacts[p]

\* One copy at a time, which leaves the other plugins as they were promised.
OneCopy ==
    /\ \A p \in Copies : Copies = {p} /\ rollback = NoOperation
    /\ \A p \in Copies :
           /\ operations[p].copy[p].active_version = operations[p].version
           /\ \A q \in Plugins \ {p} : operations[p].copy[q].active_version = promised[q]
           /\ operations[p].pc = "replace" =>
                  file[p].active_version = operations[p].version
    /\ rollback # NoOperation =>
           /\ \A q \in Plugins \ {rollback.plugin} :
                  rollback.copy[q].active_version = promised[q]
           /\ rollback.pc = "replace" =>
                  file[rollback.plugin].active_version =
                      rollback.copy[rollback.plugin].active_version

ManagerInv ==
    /\ ManagerTypes /\ Documents /\ Opening
    /\ ReportedIsActive
    /\ ~raced => OneCopy

\* A version directory stays, so what fitted fits.
LEMMA FitsMore ==
    ASSUME NEW plugin, NEW vs, NEW ws, Fits(plugin, vs), vs \subseteq ws
    PROVE  Fits(plugin, ws)
BY DEF Fits

\* download_and_activate: what it makes of a plugin fits once the version is on disk.
LEMMA ActiveFits ==
    ASSUME NEW plugin, NEW vs, NEW v \in vs, v \in Nat, Fits(plugin, vs)
    PROVE  Fits(WithActive(plugin, v), vs) /\ WithActive(plugin, v).active_version = v
BY DEF Fits, WithActive, Installed, NotInstalled, NoVersion, Installs

\* The same of the bundled version of a plugin.
LEMMA BundledFits ==
    ASSUME NEW plugin, NEW vs, NEW v \in vs, v \in Nat, Fits(plugin, vs)
    PROVE  Fits(WithBundled(plugin, v), vs)
<1>1. CASE plugin = NotInstalled
  BY <1>1 DEF Fits, WithBundled, Installed, NoVersion, Installs
<1>2. CASE plugin # NotInstalled /\ v > plugin.active_version
  BY <1>2 DEF Fits, WithBundled, Installed, NoVersion, Installs
<1>3. CASE plugin # NotInstalled /\ ~(v > plugin.active_version)
  <2>1. WithBundled(plugin, v) = [plugin EXCEPT !.versions = @ \union {v}]
    BY <1>3 DEF WithBundled
  <2> QED BY <2>1, <1>3 DEF Fits, Installs
<1> QED BY <1>1, <1>2, <1>3

\* rollback exchanges two versions that are both on disk.
LEMMA RollbackFits ==
    ASSUME NEW plugin, NEW vs, Fits(plugin, vs), plugin.previous_version # NoVersion,
           plugin.versions # {}
    PROVE  Fits([plugin EXCEPT !.active_version = plugin.previous_version,
                               !.previous_version = plugin.active_version], vs)
BY DEF Fits, Installs

LEMMA ManagerInitially == PluginInit => ManagerInv
<1> SUFFICES ASSUME PluginInit PROVE ManagerInv
  OBVIOUS
<1>1. Fits(NotInstalled, {})
  BY DEF Fits, NotInstalled, Installed, Installs, NoVersion
<1>2. NotInstalled \in Installs /\ NotInstalled.active_version = NoVersion
  BY DEF NotInstalled, Installed, Installs, NoVersion
<1>3. NoOperation.pc = "none"
  BY DEF NoOperation
<1>4. ManagerTypes
  BY DEF PluginInit, ManagerTypes, OperationStates, RollbackStates, NoVersion
<1>5. Documents
  BY <1>1, <1>2, <1>3 DEF PluginInit, Documents, Document, Open, Copies
<1>6. Opening
  BY DEF PluginInit, Opening
<1>7. ReportedIsActive
  BY <1>2 DEF PluginInit, ReportedIsActive, Open
<1>8. OneCopy
  BY <1>3 DEF PluginInit, OneCopy, Copies
<1> QED BY <1>4, <1>5, <1>6, <1>7, <1>8 DEF ManagerInv

\* A task that moves on or ends without having changed the document leaves
\* everything as it was.
LEMMA OperationMoves ==
    ASSUME ManagerInv, NEW p \in Plugins, NEW o \in OperationStates,
           o.pc \notin {"persist", "replace"}, operations[p].pc # "replace",
           o # NoOperation => Open,
           operations' = [operations EXCEPT ![p] = o],
           artifacts' \in [Plugins -> SUBSET Nat],
           \A q \in Plugins : artifacts[q] \subseteq artifacts'[q],
           o.pc = "copy" => o.version \in artifacts'[p],
           UNCHANGED <<file, state, rollback, activation, registry, bundled, raced, promised>>
    PROVE  ManagerInv'
<1>1. ManagerTypes'
  BY DEF ManagerInv, ManagerTypes
<1>2. /\ \A q \in Plugins : operations'[q] = IF q = p THEN o ELSE operations[q]
      /\ Copies' = Copies \ {p}
  BY DEF ManagerInv, ManagerTypes, Copies
<1>3. \A s : Document(s) => s \in [Plugins -> Installs] /\ \A q \in Plugins : Fits(s[q], artifacts'[q])
  BY FitsMore DEF Document
<1>4. Documents'
  BY <1>2, <1>3 DEF ManagerInv, Documents, Document, Open, Copies
<1>5. Opening'
  BY <1>2 DEF ManagerInv, Opening, Open
<1>6. ReportedIsActive'
  BY <1>2 DEF ManagerInv, ReportedIsActive, Open
<1>7. ASSUME ~raced' PROVE OneCopy'
  <2>1. OneCopy
    BY <1>7 DEF ManagerInv
  <2>2. \A q \in Copies' : q \in Copies /\ q # p /\ operations'[q] = operations[q]
    BY <1>2 DEF Copies
  <2>3. \A q \in Copies' : Copies' = {q} /\ rollback' = NoOperation
    BY <2>1, <2>2, <1>2 DEF OneCopy
  <2> QED BY <2>1, <2>2, <2>3 DEF OneCopy
<1> QED BY <1>1, <1>4, <1>5, <1>6, <1>7 DEF ManagerInv

\* The steps that change only the operation of one plugin.
LEMMA OperationSteps ==
    ASSUME ManagerInv, NEW p \in Plugins,
           \/ \E kind \in {"Install", "Update"} : start_operation(p, kind)
           \/ cancel(p) \/ resolve(p) \/ download(p) \/ install_version(p) \/ fail(p)
    PROVE  ManagerInv'
<1> DEFINE op == operations[p]
<1>1. /\ op \in OperationStates /\ NoOperation \in OperationStates
      /\ operations \in [Plugins -> OperationStates]
      /\ NoOperation.pc = "none"
      /\ artifacts \in [Plugins -> SUBSET Nat]
  BY DEF ManagerInv, ManagerTypes, OperationStates, NoOperation
<1>2. op # NoOperation => Open
  BY DEF ManagerInv, Opening
<1>3. ASSUME NEW kind \in {"Install", "Update"}, start_operation(p, kind) PROVE ManagerInv'
  <2> DEFINE o == [pc |-> "resolve", kind |-> kind, version |-> 0,
                   copy |-> NotInstalled, cancelled |-> FALSE]
  <2>1. o \in OperationStates /\ o.pc = "resolve"
    BY DEF OperationStates
  <2>2. op.pc = "none" /\ operations' = [operations EXCEPT ![p] = o] /\ Open
    BY <1>3, <1>1 DEF start_operation
  <2> HIDE DEF o
  <2> QED BY <1>3, <2>1, <2>2, <1>1, OperationMoves DEF start_operation
<1>4. CASE cancel(p)
  <2> DEFINE o == [op EXCEPT !.cancelled = TRUE]
  <2>1. op # NoOperation
    BY <1>4, <1>1 DEF cancel
  <2>2. o \in OperationStates /\ o.pc = op.pc
    BY <2>1, <1>1 DEF OperationStates
  <2>3. operations' = [operations EXCEPT ![p] = o]
    BY <1>4 DEF cancel
  <2> HIDE DEF o
  <2> QED BY <1>4, <2>1, <2>2, <2>3, <1>1, <1>2, OperationMoves DEF cancel
<1>5. CASE resolve(p)
  <2>1. PICK v \in 1..registry[p] :
            operations' = [operations EXCEPT ![p].pc = "download", ![p].version = v]
    BY <1>5 DEF resolve
  <2> DEFINE o == [op EXCEPT !.pc = "download", !.version = v]
  <2>2. v \in Nat /\ op # NoOperation
    <3>1. registry[p] \in Nat
      BY DEF ManagerInv, ManagerTypes
    <3>2. op.pc = "resolve"
      BY <1>5 DEF resolve
    <3> QED BY <1>1, <3>1, <3>2
  <2>3. o \in OperationStates /\ o.pc = "download"
    BY <2>2, <1>1 DEF OperationStates
  <2>4. operations' = [operations EXCEPT ![p] = o]
    BY <2>1
  <2> HIDE DEF o
  <2> QED BY <1>5, <2>2, <2>3, <2>4, <1>1, <1>2, OperationMoves DEF resolve
<1>6. CASE download(p)
  <2> DEFINE o == [op EXCEPT !.pc = "install"]
  <2>1. op # NoOperation
    BY <1>6, <1>1 DEF download
  <2>2. o \in OperationStates /\ o.pc = "install"
    BY <2>1, <1>1 DEF OperationStates
  <2>3. operations' = [operations EXCEPT ![p] = o]
    BY <1>6 DEF download, Task
  <2> HIDE DEF o
  <2> QED BY <1>6, <2>1, <2>2, <2>3, <1>1, <1>2, OperationMoves DEF download
<1>7. CASE install_version(p)
  <2> DEFINE o == [op EXCEPT !.pc = "copy"]
  <2>1. op # NoOperation
    BY <1>7, <1>1 DEF install_version
  <2>2. o \in OperationStates /\ o.pc = "copy" /\ o.version = op.version /\ op.version \in Nat
    BY <2>1, <1>1 DEF OperationStates
  <2>3. operations' = [operations EXCEPT ![p] = o]
    BY <1>7 DEF install_version, Task
  <2>4. /\ artifacts' \in [Plugins -> SUBSET Nat]
        /\ \A q \in Plugins : artifacts[q] \subseteq artifacts'[q]
        /\ op.version \in artifacts'[p]
    BY <1>7, <1>1, <2>2 DEF install_version
  <2> HIDE DEF o
  <2> QED BY <1>7, <2>1, <2>2, <2>3, <2>4, <1>1, <1>2, OperationMoves DEF install_version
<1>8. CASE fail(p)
  BY <1>8, <1>1, OperationMoves DEF fail, Ended
<1> QED BY <1>3, <1>4, <1>5, <1>6, <1>7, <1>8

\* open and its two steps over the bundled helpers: nothing else runs.
LEMMA OpeningSteps ==
    ASSUME ManagerInv,
           open \/ \E p \in Plugins :
                       stage_and_activate_bundled(p) \/ activate_bundled_connectors(p)
    PROVE  ManagerInv'
<1>1. CASE open
  <2>1. Copies' = Copies
    BY <1>1 DEF open, Copies
  <2>2. ManagerTypes' /\ Documents' /\ Opening' /\ ReportedIsActive'
    BY <1>1, <2>1 DEF ManagerInv, ManagerTypes, Documents, Document, Opening, ReportedIsActive,
                      open, Open
  <2>3. ~raced' => OneCopy'
    BY <1>1, <2>1 DEF ManagerInv, OneCopy, open
  <2> QED BY <2>2, <2>3 DEF ManagerInv
<1>2. ASSUME NEW p \in Plugins, stage_and_activate_bundled(p) PROVE ManagerInv'
  <2> USE <1>2 DEF stage_and_activate_bundled
  <2>1. Copies' = Copies
    BY DEF Copies
  <2>2. /\ artifacts' \in [Plugins -> SUBSET Nat]
        /\ \A q \in Plugins : artifacts[q] \subseteq artifacts'[q]
        /\ bundled[p] \in artifacts'[p]
    BY DEF ManagerInv, ManagerTypes
  <2>3. \A s : Document(s) =>
              s \in [Plugins -> Installs] /\ \A q \in Plugins : Fits(s[q], artifacts'[q])
    BY <2>2, FitsMore DEF Document
  <2>4. ManagerTypes' /\ ReportedIsActive' /\ (~raced' => OneCopy')
    BY <2>1, <2>2 DEF ManagerInv, ManagerTypes, ReportedIsActive, OneCopy, Open
  <2>5. Documents'
    BY <2>1, <2>2, <2>3 DEF ManagerInv, ManagerTypes, Documents, Document, Open
  <2>6. Opening'
    BY <2>2 DEF ManagerInv, Opening, Open
  <2> QED BY <2>4, <2>5, <2>6 DEF ManagerInv
<1>3. ASSUME NEW p \in Plugins, activate_bundled_connectors(p) PROVE ManagerInv'
  <2> USE <1>3 DEF activate_bundled_connectors
  <2>1. /\ artifacts' \in [Plugins -> SUBSET Nat]
        /\ \A q \in Plugins : artifacts[q] \subseteq artifacts'[q]
        /\ \A q \in Plugins : bundled[q] \in artifacts'[q] /\ bundled[q] \in Nat
    BY DEF ManagerInv, ManagerTypes, Opening
  <2>2. \A q \in Plugins : Fits(file[q], artifacts'[q])
    BY <2>1, FitsMore DEF ManagerInv, Documents, Document
  <2>3. \A q \in Plugins : Fits(file'[q], artifacts'[q])
    BY <2>1, <2>2, BundledFits
  <2>4. file' \in [Plugins -> Installs]
    BY <2>3 DEF Fits
  <2>5. Document(file)' /\ Document(state)'
    BY <2>3, <2>4 DEF Document
  <2>6. /\ ~Open /\ rollback = NoOperation /\ rollback' = NoOperation
        /\ \A q \in Plugins : operations[q] = NoOperation /\ operations'[q] = NoOperation
    BY DEF ManagerInv, Opening
  <2>7. Copies' = {} /\ NoOperation.pc = "none"
    BY <2>6 DEF Copies, NoOperation
  <2>8. \A q \in Plugins : file'[q].active_version \in Nat
    BY <2>4 DEF Installs
  <2>9. ManagerTypes'
    BY <2>1, <2>8 DEF ManagerInv, ManagerTypes
  <2>10. Documents'
    BY <2>5, <2>6, <2>7 DEF Documents
  <2>11. Opening'
    BY <2>6 DEF Opening
  <2>12. ReportedIsActive'
    BY DEF ReportedIsActive
  <2>13. OneCopy'
    BY <2>6, <2>7 DEF OneCopy
  <2> QED BY <2>9, <2>10, <2>11, <2>12, <2>13 DEF ManagerInv
<1> QED BY <1>1, <1>2, <1>3

\* The three steps of download_and_activate.
LEMMA CopySteps ==
    ASSUME ManagerInv, NEW p \in Plugins, copy(p) \/ persist(p) \/ replace(p)
    PROVE  ManagerInv'
<1> DEFINE op == operations[p]
<1>1. /\ op \in OperationStates /\ NoOperation \in OperationStates
      /\ operations \in [Plugins -> OperationStates]
      /\ NoOperation.pc = "none" /\ op # NoOperation
      /\ artifacts \in [Plugins -> SUBSET Nat] /\ op.version \in Nat
  BY DEF ManagerInv, ManagerTypes, OperationStates, NoOperation, copy, persist, replace
<1>2. Open /\ activation = {} /\ Document(file) /\ Document(state)
  BY <1>1 DEF ManagerInv, Opening, Documents
<1>3. CASE copy(p)
  <2> DEFINE s == [state EXCEPT ![p] = WithActive(@, op.version)]
  <2> DEFINE o == [op EXCEPT !.pc = "persist", !.copy = s]
  <2>1. op.pc = "copy" /\ op.version \in artifacts[p]
    BY <1>3 DEF ManagerInv, Documents, copy
  <2>2. Fits(WithActive(state[p], op.version), artifacts[p])
        /\ WithActive(state[p], op.version).active_version = op.version
    BY <1>1, <1>2, <2>1, ActiveFits DEF Document
  <2>3. WithActive(state[p], op.version) \in Installs
    BY <2>2 DEF Fits
  <2>4. s \in [Plugins -> Installs] /\ s[p] = WithActive(state[p], op.version)
        /\ \A q \in Plugins \ {p} : s[q] = state[q]
    BY <1>2, <2>3 DEF Document
  <2>5. Document(s)
    BY <1>2, <2>2, <2>4 DEF Document
  <2> HIDE DEF s
  <2>6. o \in OperationStates /\ o.pc = "persist" /\ o.copy = s /\ o.version = op.version
    BY <1>1, <2>4 DEF OperationStates
  <2>7. operations' = [operations EXCEPT ![p] = o]
    BY <1>3 DEF copy, s
  <2> HIDE DEF o
  <2>8. /\ \A q \in Plugins : operations'[q] = IF q = p THEN o ELSE operations[q]
        /\ Copies' = Copies \union {p}
    BY <1>1, <2>6, <2>7 DEF Copies
  <2>9. ManagerTypes'
    BY <1>1, <1>3, <2>6, <2>7 DEF ManagerInv, ManagerTypes, copy
  <2>10. Documents'
    <3>1. UNCHANGED <<artifacts, file, state, rollback>>
      BY <1>3 DEF copy
    <3>2. \A t : Document(t) =>
                t \in [Plugins -> Installs] /\ \A q \in Plugins : Fits(t[q], artifacts'[q])
      BY <3>1 DEF Document
    <3>3. \A q \in Copies' : /\ operations'[q].copy \in [Plugins -> Installs]
                             /\ \A r \in Plugins : Fits(operations'[q].copy[r], artifacts'[r])
      BY <2>5, <2>6, <2>8, <3>2 DEF ManagerInv, Documents, Copies
    <3>4. \A q \in Plugins :
              operations'[q].pc = "copy" => operations'[q].version \in artifacts'[q]
      BY <2>6, <2>8, <3>1 DEF ManagerInv, Documents
    <3>5. /\ Document(file)' /\ (Open' => Document(state)')
          /\ rollback' # NoOperation => Document(rollback.copy)'
      BY <3>1 DEF ManagerInv, Documents, Document, Open
    <3> QED BY <3>3, <3>4, <3>5 DEF Documents, Document
  <2>11. Opening'
    BY <1>2, <1>3 DEF Opening, Open, copy
  <2>12. ReportedIsActive'
    <3>1. ~raced' => ~raced
      BY <1>3 DEF ManagerInv, ManagerTypes, copy
    <3>2. UNCHANGED <<file, state, rollback, promised>>
      BY <1>3 DEF copy
    <3> QED BY <2>1, <2>6, <2>8, <3>1, <3>2 DEF ManagerInv, ReportedIsActive, Open
  <2>13. ASSUME ~raced' PROVE OneCopy'
    <3>1. ~raced /\ Copies \ {p} = {} /\ rollback = NoOperation /\ rollback' = NoOperation
      BY <1>3, <2>13 DEF copy, Racing
    <3>2. \A q \in Plugins : state[q].active_version = promised[q]
      BY <1>2, <3>1 DEF ManagerInv, ReportedIsActive
    <3>3. Copies' = {p}
      BY <2>8, <3>1
    <3>4. operations'[p] = o /\ promised' = promised
      BY <1>3, <2>8 DEF copy
    <3>5. \A q \in Plugins \ {p} : o.copy[q].active_version = promised[q]
      BY <2>4, <2>6, <3>2
    <3>6. o.copy[p].active_version = o.version
      BY <2>2, <2>4, <2>6
    <3> QED BY <2>6, <3>1, <3>3, <3>4, <3>5, <3>6 DEF OneCopy
  <2> QED BY <2>9, <2>10, <2>11, <2>12, <2>13 DEF ManagerInv
<1>4. CASE persist(p)
  <2> DEFINE o == [op EXCEPT !.pc = "replace"]
  <2>1. op.pc = "persist" /\ p \in Copies
    BY <1>4 DEF persist, Copies
  <2>2. /\ o \in OperationStates /\ o.pc = "replace" /\ o.copy = op.copy
        /\ o.version = op.version
    BY <1>1 DEF OperationStates
  <2>3. operations' = [operations EXCEPT ![p] = o] /\ file' = op.copy
    BY <1>4 DEF persist, Task
  <2> HIDE DEF o
  <2>4. /\ \A q \in Plugins : operations'[q] = IF q = p THEN o ELSE operations[q]
        /\ Copies' = Copies
    BY <1>1, <2>1, <2>2, <2>3 DEF Copies
  <2>5. ManagerTypes'
    BY <1>1, <1>4, <2>2, <2>3 DEF ManagerInv, ManagerTypes, persist
  <2>6. Documents'
    BY <1>4, <2>1, <2>2, <2>3, <2>4 DEF ManagerInv, Documents, Document, Open, persist
  <2>7. Opening'
    BY <1>2, <1>4 DEF Opening, Open, persist
  <2>8. ASSUME ~raced' PROVE OneCopy' /\ ReportedIsActive'
    <3>1. OneCopy /\ ReportedIsActive /\ ~raced
      BY <1>4, <2>8 DEF ManagerInv, persist
    <3>2. Copies = {p} /\ rollback = NoOperation /\ rollback' = NoOperation
      BY <1>4, <2>1, <3>1 DEF OneCopy, persist
    <3>3. /\ op.copy[p].active_version = op.version
          /\ \A q \in Plugins \ {p} : op.copy[q].active_version = promised[q]
      BY <2>1, <3>1 DEF OneCopy
    <3>4. OneCopy'
      BY <1>4, <2>2, <2>3, <2>4, <3>2, <3>3 DEF OneCopy, persist
    <3>5. ReportedIsActive'
      BY <1>4, <2>2, <2>3, <2>4, <3>1, <3>3 DEF ReportedIsActive, Open, persist
    <3> QED BY <3>4, <3>5
  <2>9. ReportedIsActive'
    BY <2>8 DEF ReportedIsActive
  <2> QED BY <2>5, <2>6, <2>7, <2>8, <2>9 DEF ManagerInv
<1>5. CASE replace(p)
  <2>1. /\ op.pc = "replace" /\ p \in Copies
        /\ operations' = [operations EXCEPT ![p] = NoOperation]
        /\ state' = op.copy /\ promised' = [promised EXCEPT ![p] = op.version]
        /\ UNCHANGED <<artifacts, file, rollback, activation, registry, bundled, raced>>
    BY <1>5 DEF replace, Copies, Ended
  <2>2. /\ \A q \in Plugins : operations'[q] = IF q = p THEN NoOperation ELSE operations[q]
        /\ Copies' = Copies \ {p}
    BY <1>1, <2>1 DEF Copies
  <2>3. Document(op.copy)
    BY <2>1 DEF ManagerInv, Documents
  <2>4. Open'
    <3>1. DOMAIN state' = Plugins
      BY <2>1, <2>3 DEF Document
    <3> QED BY <3>1 DEF Open, Closed
  <2>5. ManagerTypes'
    BY <1>1, <2>1 DEF ManagerInv, ManagerTypes
  <2>6. Documents'
    BY <1>1, <2>1, <2>2, <2>3 DEF ManagerInv, Documents, Document
  <2>7. Opening'
    BY <1>2, <2>1, <2>4 DEF Opening
  <2>8. ASSUME ~raced' PROVE OneCopy' /\ ReportedIsActive'
    <3>1. OneCopy /\ ReportedIsActive /\ ~raced
      BY <2>1, <2>8 DEF ManagerInv
    <3>2. Copies = {p} /\ rollback = NoOperation /\ rollback' = NoOperation /\ Copies' = {}
      BY <2>1, <2>2, <3>1 DEF OneCopy
    <3>3. /\ op.copy[p].active_version = op.version
          /\ file[p].active_version = op.version
          /\ \A q \in Plugins \ {p} : op.copy[q].active_version = promised[q]
      BY <2>1, <3>1 DEF OneCopy
    <3>4. OneCopy'
      BY <3>2 DEF OneCopy
    <3>5. \A q \in Plugins : promised'[q] = IF q = p THEN op.version ELSE promised[q]
      BY <2>1 DEF ManagerInv, ManagerTypes
    <3>6. NoOperation.pc = "none" /\ \A q \in Plugins \ {p} : operations[q].pc # "replace"
      BY <1>1, <3>2 DEF Copies
    <3>7. ReportedIsActive'
      BY <2>1, <3>1, <3>2, <3>3, <3>5, <3>6 DEF ReportedIsActive
    <3> QED BY <3>4, <3>7
  <2>9. ReportedIsActive'
    BY <2>8 DEF ReportedIsActive
  <2> QED BY <2>5, <2>6, <2>7, <2>8, <2>9 DEF ManagerInv
<1> QED BY <1>3, <1>4, <1>5

\* The three steps of rollback.
LEMMA RollbackSteps ==
    ASSUME ManagerInv,
           rollback_persist \/ rollback_replace \/ \E p \in Plugins : rollback_copy(p)
    PROVE  ManagerInv'
<1>1. /\ rollback \in RollbackStates /\ NoOperation \in RollbackStates
      /\ NoOperation.pc = "none"
      /\ rollback # NoOperation =>
             rollback.plugin \in Plugins /\ Open /\ activation = {} /\ Document(rollback.copy)
  BY DEF ManagerInv, ManagerTypes, RollbackStates, NoOperation, Opening, Documents
<1>2. ASSUME NEW p \in Plugins, rollback_copy(p) PROVE ManagerInv'
  <2> DEFINE t == [state[p] EXCEPT !.active_version = state[p].previous_version,
                                  !.previous_version = state[p].active_version]
  <2> DEFINE s == [state EXCEPT ![p] = t]
  <2>1. /\ Open /\ rollback = NoOperation /\ activation = {}
        /\ state[p].versions # {} /\ state[p].previous_version # NoVersion
        /\ raced' = (raced \/ Copies # {})
        /\ UNCHANGED <<artifacts, file, state, operations, activation, registry, bundled,
                       promised>>
    BY <1>2 DEF rollback_copy, IsInstalled, ManagerInv, Opening
  <2>2. Document(state) /\ Fits(state[p], artifacts[p])
    BY <2>1 DEF ManagerInv, Documents, Document
  <2>3. Fits(t, artifacts[p])
    BY <2>1, <2>2, RollbackFits
  <2> HIDE DEF t
  <2>4. s \in [Plugins -> Installs] /\ s[p] = t /\ \A q \in Plugins \ {p} : s[q] = state[q]
    BY <2>2, <2>3 DEF Fits, Document
  <2>5. Document(s)
    BY <2>2, <2>3, <2>4 DEF Document
  <2>6. rollback' = [pc |-> "persist", plugin |-> p, copy |-> s]
    <3>1. s = [state EXCEPT ![p].active_version = state[p].previous_version,
                            ![p].previous_version = state[p].active_version]
      BY DEF t
    <3> QED BY <1>2, <3>1 DEF rollback_copy
  <2> HIDE DEF s
  <2>7. /\ rollback' \in RollbackStates /\ rollback'.copy = s /\ rollback'.plugin = p
        /\ rollback'.pc = "persist"
    BY <2>4, <2>6 DEF RollbackStates
  <2>8. Copies' = Copies
    BY <2>1 DEF Copies
  <2>9. ManagerTypes'
    BY <2>1, <2>7 DEF ManagerInv, ManagerTypes
  <2>10. Documents'
    BY <2>1, <2>5, <2>7, <2>8 DEF ManagerInv, Documents, Document, Open
  <2>11. Opening'
    BY <2>1 DEF Opening, Open
  <2>12. ReportedIsActive'
    BY <1>1, <2>1, <2>7 DEF ManagerInv, ReportedIsActive, Open
  <2>13. ASSUME ~raced' PROVE OneCopy'
    <3>1. ~raced /\ Copies = {}
      BY <2>1, <2>13
    <3>2. \A q \in Plugins : state[q].active_version = promised[q]
      BY <2>1, <3>1 DEF ManagerInv, ReportedIsActive
    <3> QED BY <2>1, <2>4, <2>7, <2>8, <3>1, <3>2 DEF OneCopy
  <2> QED BY <2>9, <2>10, <2>11, <2>12, <2>13 DEF ManagerInv
<1>3. CASE rollback_persist /\ file' = rollback.copy
           /\ rollback' = [rollback EXCEPT !.pc = "replace"]
  <2>1. /\ rollback # NoOperation /\ rollback.pc = "persist"
        /\ UNCHANGED <<artifacts, state, operations, activation, registry, bundled, raced,
                       promised>>
    BY <1>1, <1>3 DEF rollback_persist
  <2>2. /\ rollback' \in RollbackStates /\ rollback'.copy = rollback.copy
        /\ rollback'.plugin = rollback.plugin /\ rollback'.pc = "replace"
    BY <1>1, <1>3, <2>1 DEF RollbackStates
  <2>3. Copies' = Copies
    BY <2>1 DEF Copies
  <2>4. ManagerTypes'
    BY <2>1, <2>2 DEF ManagerInv, ManagerTypes
  <2>5. Documents'
    BY <1>1, <1>3, <2>1, <2>2, <2>3 DEF ManagerInv, Documents, Document, Open
  <2>6. Opening'
    BY <1>1, <2>1 DEF Opening, Open
  <2>7. ReportedIsActive'
    <3>1. ASSUME ~raced PROVE \A q \in Plugins \ {rollback.plugin} :
                                  file'[q].active_version = promised[q]
      BY <1>3, <2>1, <3>1 DEF ManagerInv, OneCopy
    <3> QED BY <2>1, <2>2, <3>1 DEF ManagerInv, ReportedIsActive, Open
  <2>8. ASSUME ~raced' PROVE OneCopy'
    <3>1. OneCopy
      BY <2>1, <2>8 DEF ManagerInv
    <3>2. Copies = {}
      BY <2>1, <3>1 DEF OneCopy
    <3> QED BY <1>3, <2>1, <2>2, <2>3, <3>1, <3>2 DEF OneCopy
  <2> QED BY <2>4, <2>5, <2>6, <2>7, <2>8 DEF ManagerInv
<1>4. CASE rollback_persist /\ rollback' = NoOperation /\ UNCHANGED file
  <2>1. /\ rollback # NoOperation /\ rollback.pc = "persist"
        /\ UNCHANGED <<artifacts, state, operations, activation, registry, bundled, raced,
                       promised>>
    BY <1>1, <1>4 DEF rollback_persist
  <2>2. Copies' = Copies
    BY <2>1 DEF Copies
  <2>3. ManagerTypes' /\ Opening' /\ ReportedIsActive'
    BY <1>1, <1>4, <2>1 DEF ManagerInv, ManagerTypes, Opening, ReportedIsActive, Open
  <2>4. Documents'
    BY <1>4, <2>1, <2>2 DEF ManagerInv, Documents, Document, Open
  <2>5. ~raced' => OneCopy'
    BY <1>4, <2>1, <2>2 DEF ManagerInv, OneCopy
  <2> QED BY <2>3, <2>4, <2>5 DEF ManagerInv
<1>5. CASE rollback_replace
  <2> DEFINE p == rollback.plugin
  <2>1. /\ rollback # NoOperation /\ rollback.pc = "replace" /\ p \in Plugins
        /\ state' = rollback.copy /\ rollback' = NoOperation
        /\ promised' = [promised EXCEPT ![p] = rollback.copy[p].active_version]
        /\ UNCHANGED <<artifacts, file, operations, activation, registry, bundled, raced>>
    BY <1>1, <1>5 DEF rollback_replace
  <2>2. Copies' = Copies
    BY <2>1 DEF Copies
  <2>3. Document(rollback.copy) /\ rollback.copy[p].active_version \in Nat
    BY <1>1, <2>1 DEF Document, Installs
  <2>4. Open'
    <3>1. DOMAIN state' = Plugins
      BY <2>1, <2>3 DEF Document
    <3> QED BY <2>1, <3>1 DEF Open, Closed
  <2>5. ManagerTypes'
    BY <1>1, <2>1, <2>3 DEF ManagerInv, ManagerTypes
  <2>6. Documents'
    BY <2>1, <2>2, <2>3 DEF ManagerInv, Documents, Document
  <2>7. Opening'
    BY <1>1, <2>1, <2>4 DEF Opening
  <2>8. ASSUME ~raced' PROVE OneCopy' /\ ReportedIsActive'
    <3>1. OneCopy /\ ReportedIsActive /\ ~raced
      BY <2>1, <2>8 DEF ManagerInv
    <3>2. Copies = {}
      BY <2>1, <3>1 DEF OneCopy
    <3>3. \A q \in Plugins :
              promised'[q] = IF q = p THEN rollback.copy[p].active_version ELSE promised[q]
      BY <2>1 DEF ManagerInv, ManagerTypes
    <3>4. OneCopy'
      BY <2>1, <2>2, <3>2 DEF OneCopy
    <3>5. \A q \in Plugins : operations[q].pc # "replace"
      BY <3>2 DEF Copies
    <3>6. ReportedIsActive'
      BY <2>1, <3>1, <3>3, <3>5 DEF ReportedIsActive, OneCopy
    <3> QED BY <3>4, <3>6
  <2>9. ReportedIsActive'
    BY <2>8 DEF ReportedIsActive
  <2> QED BY <2>5, <2>6, <2>7, <2>8, <2>9 DEF ManagerInv
<1> QED BY <1>2, <1>3, <1>4, <1>5 DEF rollback_persist

\* The program ends and the next one starts; the Registry offers more.
LEMMA OutsideSteps ==
    ASSUME ManagerInv, restart \/ \E p \in Plugins : publish(p)
    PROVE  ManagerInv'
<1>1. CASE restart
  <2>1. /\ state' = Closed /\ rollback' = NoOperation /\ activation' = {} /\ raced' = FALSE
        /\ operations' = [p \in Plugins |-> NoOperation]
        /\ UNCHANGED <<artifacts, file, registry>>
    BY <1>1 DEF restart
  <2>2. PICK p \in Plugins :
            bundled' = [bundled EXCEPT ![p] = IF @ < MaxVersion THEN @ + 1 ELSE @]
    BY <1>1 DEF restart
  <2>3. NoOperation.pc = "none" /\ ~Open' /\ Copies' = {}
    BY <2>1 DEF NoOperation, Open, Copies
  <2>4. bundled' \in [Plugins -> Nat]
    BY <2>2 DEF ManagerInv, ManagerTypes
  <2>5. \A q \in Plugins : file[q].active_version \in Nat
    BY DEF ManagerInv, Documents, Document, Installs
  <2>6. \A q \in Plugins :
            /\ promised'[q] \in Nat
            /\ promised'[q] = IF raced \/ q \in Copies
                                    \/ (rollback # NoOperation /\ rollback.plugin = q)
                              THEN file[q].active_version ELSE promised[q]
    BY <1>1, <2>5 DEF ManagerInv, ManagerTypes, restart
  <2>7. promised' \in [Plugins -> Nat]
    BY <1>1, <2>6 DEF restart
  <2>8. ManagerTypes'
    BY <2>1, <2>4, <2>7 DEF ManagerInv, ManagerTypes, OperationStates, RollbackStates
  <2>9. Documents'
    BY <2>1, <2>3 DEF ManagerInv, Documents, Document
  <2>10. Opening'
    BY <2>1 DEF Opening
  <2>11. ReportedIsActive'
    <3>1. \A q \in Plugins : file[q].active_version = promised'[q]
      <4>1. SUFFICES ASSUME NEW q \in Plugins, ~raced, q \notin Copies,
                            ~(rollback # NoOperation /\ rollback.plugin = q)
                     PROVE  file[q].active_version = promised[q]
        BY <2>6
      <4>2. operations[q].pc # "replace"
        BY <4>1 DEF Copies
      <4>3. ~(rollback.pc = "replace" /\ rollback.plugin = q)
        BY <2>3, <4>1
      <4> QED BY <4>1, <4>2, <4>3 DEF ManagerInv, ReportedIsActive
    <3> QED BY <2>1, <2>3, <3>1 DEF ReportedIsActive
  <2>12. OneCopy'
    BY <2>1, <2>3 DEF OneCopy
  <2> QED BY <2>8, <2>9, <2>10, <2>11, <2>12 DEF ManagerInv
<1>2. ASSUME NEW p \in Plugins, publish(p) PROVE ManagerInv'
  <2>1. /\ registry' = [registry EXCEPT ![p] = @ + 1]
        /\ UNCHANGED <<artifacts, file, state, operations, rollback, activation, bundled, raced,
                       promised>>
    BY <1>2 DEF publish
  <2>2. Copies' = Copies
    BY <2>1 DEF Copies
  <2>3. ManagerTypes'
    BY <2>1 DEF ManagerInv, ManagerTypes
  <2>4. Documents' /\ Opening' /\ ReportedIsActive' /\ (~raced' => OneCopy')
    BY <2>1, <2>2 DEF ManagerInv, Documents, Document, Opening, ReportedIsActive, OneCopy, Open
  <2> QED BY <2>3, <2>4 DEF ManagerInv
<1> QED BY <1>1, <1>2

LEMMA ManagerStep == ManagerInv /\ [PluginNext]_pluginVars => ManagerInv'
<1> SUFFICES ASSUME ManagerInv, [PluginNext]_pluginVars PROVE ManagerInv'
  OBVIOUS
<1>1. CASE UNCHANGED pluginVars
  BY <1>1 DEF pluginVars, ManagerInv, ManagerTypes, Documents, Document, Opening,
              ReportedIsActive, OneCopy, Open, Copies
<1>2. CASE PluginNext
  BY <1>2, OperationSteps, OpeningSteps, CopySteps, RollbackSteps, OutsideSteps DEF PluginNext
<1> QED BY <1>1, <1>2

\* Whatever is interrupted where, the state document names only versions that are
\* complete on disk (open refuses another); and unless two copies of the state were
\* under way at once, what install, update and rollback reported active is active,
\* in memory and after a restart: manager_parts, for any number of helpers,
\* versions, calls and restarts.
THEOREM HelpersStay == PluginSpec => []HelpersAreKept
<1>1. PluginInit => ManagerInv
  BY ManagerInitially
<1>2. ManagerInv /\ [PluginNext]_pluginVars => ManagerInv'
  BY ManagerStep
<1>3. ManagerInv => HelpersAreKept
  <2>1. \A p \in Plugins : Fits(file[p], artifacts[p]) =>
            (IsInstalled(file, p) =>
                /\ file[p].active_version \in file[p].versions
                /\ file[p].previous_version \in file[p].versions \union {NoVersion}
                /\ \A v \in file[p].versions : Verified(p, v))
    BY DEF Fits, IsInstalled, Verified
  <2> QED BY <2>1 DEF ManagerInv, Documents, Document, HelpersAreKept, StartsAgain, Usable
<1> QED BY <1>1, <1>2, <1>3, PTL DEF PluginSpec

-----------------------------------------------------------------------------
(***************************************************************************)
(* The data root.  Without a pointer the v1 file holds every acknowledged  *)
(* write, with one the cluster it names does; what the tool that runs has  *)
(* read, built and retained makes the switch of the pointer safe, and a    *)
(* generation that has not moved makes the way back safe.                  *)
(***************************************************************************)
Ids == Nat \ {NoId}

ClusterStates ==
    [writes : SUBSET Nat, generation : Nat, activation : Nat,
     place : {"candidate", "initializing", "published"}]

ToolStates ==
    {NoTool}
    \union [op : {"migrate"}, id : Ids, phase : 0..8, done : BOOLEAN, source : SUBSET Nat,
            read : SUBSET Nat]
    \union [op : {"initialize"}, id : Ids, phase : 0..1, done : {FALSE}]

RootTypes ==
    /\ legacy \in SUBSET Nat /\ acked \in SUBSET Nat /\ IsFiniteSet(acked)
    /\ next_plan \in Ids
    /\ clusters \in [DOMAIN clusters -> ClusterStates]
    /\ \A id \in DOMAIN clusters : id \in Ids /\ id < next_plan
    /\ pointer \in Nat
    /\ tool \in ToolStates
    /\ tool # NoTool => tool.id < next_plan
    /\ receipt # NoReceipt =>
           receipt.id \in Ids /\ receipt.id < next_plan /\ receipt.source \in SUBSET Nat
    /\ server \in BOOLEAN

\* Where the authority lies, there the writes are, and behind a generation that has
\* not moved since the migration as well.
Kept ==
    /\ pointer = NoId => acked \subseteq legacy
    /\ pointer # NoId => /\ Published(pointer)
                         /\ acked \subseteq clusters[pointer].writes
                         /\ /\ clusters[pointer].activation # NoId
                            /\ clusters[pointer].generation = clusters[pointer].activation
                            => acked \subseteq legacy
    /\ \A id \in DOMAIN clusters : clusters[id].generation >= clusters[id].activation
    /\ server => tool = NoTool /\ pointer # NoId

\* The migration has done its work up to and including that of a phase.
Past(phase) == tool.phase > phase \/ (tool.phase = phase /\ tool.done)

Migrating ==
    tool.op = "migrate" =>
        /\ ~Past(7) => pointer = NoId
        /\ Past(0) => tool.read = tool.source
        /\ Past(2) => tool.id \in DOMAIN clusters /\ clusters[tool.id].writes = tool.read
        /\ Past(5) => legacy = tool.source
        /\ Past(6) => Published(tool.id)

Initializing ==
    tool.op = "initialize" =>
        /\ pointer = NoId /\ legacy = NoFile
        /\ tool.id \in DOMAIN clusters /\ clusters[tool.id].activation = NoId
        /\ tool.phase = 1 => Published(tool.id)

RootInv == RootTypes /\ Kept /\ Migrating /\ Initializing

LEMMA RootInitially == RootInit => RootInv
<1> SUFFICES ASSUME RootInit PROVE RootInv
  OBVIOUS
<1>1. DOMAIN clusters = {} /\ clusters \in [DOMAIN clusters -> ClusterStates]
  BY DEF RootInit
<1>2. NoReceipt.id = NoId /\ NoTool.op = "idle" /\ tool = NoTool
  BY DEF RootInit, NoReceipt, NoTool
<1>3. RootTypes
  <2>1. tool \in ToolStates
    BY <1>2 DEF ToolStates
  <2>2. legacy \in SUBSET Nat /\ acked \in SUBSET Nat /\ next_plan \in Ids /\ pointer \in Nat
    BY DEF RootInit, Ids, NoId, NoFile
  <2>3. IsFiniteSet(acked)
    <3>1. acked = {} \/ acked = {0}
      BY DEF RootInit, NoFile
    <3>2. IsFiniteSet({}) /\ IsFiniteSet({0})
      BY FS_EmptySet, FS_Singleton
    <3> QED BY <3>1, <3>2
  <2> QED BY <1>1, <1>2, <2>1, <2>2, <2>3 DEF RootInit, RootTypes
<1>4. Kept
  BY <1>1 DEF RootInit, Kept
<1> QED BY <1>2, <1>3, <1>4 DEF RootInv, Migrating, Initializing

\* Every tool that runs has a phase and an id; NoTool has neither.
LEMMA ToolFacts ==
    ASSUME RootTypes
    PROVE  /\ NoTool.op = "idle"
           /\ tool # NoTool => tool.op \in {"migrate", "initialize"} /\ tool.id \in Ids
           /\ tool.op = "migrate" =>
                  tool \in [op : {"migrate"}, id : Ids, phase : 0..8, done : BOOLEAN,
                            source : SUBSET Nat, read : SUBSET Nat]
           /\ tool.op = "initialize" =>
                  tool \in [op : {"initialize"}, id : Ids, phase : 0..1, done : {FALSE}]
<1> DEFINE Migrators == [op : {"migrate"}, id : Ids, phase : 0..8, done : BOOLEAN,
                         source : SUBSET Nat, read : SUBSET Nat]
           Initializers == [op : {"initialize"}, id : Ids, phase : 0..1, done : {FALSE}]
<1>1. NoTool.op = "idle"
  BY DEF NoTool
<1>2. \A t \in Migrators : t.op = "migrate" /\ t.id \in Ids
  OBVIOUS
<1>3. \A t \in Initializers : t.op = "initialize" /\ t.id \in Ids
  OBVIOUS
<1>4. tool = NoTool \/ tool \in Migrators \/ tool \in Initializers
  BY DEF RootTypes, ToolStates
<1> HIDE DEF Migrators, Initializers
<1>5. /\ tool.op = "migrate" => tool \in Migrators
      /\ tool.op = "initialize" => tool \in Initializers
      /\ tool # NoTool => tool.op \in {"migrate", "initialize"} /\ tool.id \in Ids
  BY <1>1, <1>2, <1>3, <1>4
<1> QED BY <1>1, <1>5 DEF Migrators, Initializers

LEMMA Inspected ==
    /\ inspect_root = "V2" <=> pointer # NoId /\ Published(pointer)
    /\ inspect_root = "LegacyV1" <=> pointer = NoId /\ legacy # NoFile
    /\ inspect_root = "Empty" => pointer = NoId /\ legacy = NoFile
BY DEF inspect_root

LEMMA Classified ==
    classify_installer_storage = "LegacyV1" => pointer = NoId /\ legacy # NoFile
BY DEF classify_installer_storage

\* One cluster is put beside the others.
LEMMA ClusterAdded ==
    ASSUME NEW id, NEW c, id \notin DOMAIN clusters
    PROVE  /\ DOMAIN With(id, c) = DOMAIN clusters \union {id}
           /\ With(id, c)[id] = c
           /\ \A i \in DOMAIN clusters : With(id, c)[i] = clusters[i]
BY DEF With

\* The tool that migrates, while no server runs.
LEMMA Migrator ==
    ASSUME RootInv, tool.op = "migrate"
    PROVE  /\ RootTypes /\ tool # NoTool /\ NoTool.op = "idle" /\ NoTool \in ToolStates
           /\ tool \in [op : {"migrate"}, id : Ids, phase : 0..8, done : BOOLEAN,
                        source : SUBSET Nat, read : SUBSET Nat]
           /\ next_plan \in Ids /\ next_plan <= next_plan /\ server \in BOOLEAN
           /\ ~server /\ tool.id < next_plan
<1>1. RootTypes
  BY DEF RootInv
<1>2. NoTool.op = "idle" /\ NoTool \in ToolStates
  BY DEF NoTool, ToolStates
<1>3. tool # NoTool
  BY <1>2
<1>4. ~server /\ server \in BOOLEAN /\ tool.id < next_plan /\ next_plan \in Ids
  BY <1>1, <1>3 DEF RootInv, RootTypes, Kept
<1>5. next_plan <= next_plan
  BY <1>4 DEF Ids
<1> QED BY <1>1, <1>2, <1>3, <1>4, <1>5, ToolFacts

\* A step that touches no file that carries authority.
LEMMA ToolMoves ==
    ASSUME RootInv, UNCHANGED <<legacy, clusters, pointer, acked>>,
           receipt' = receipt \/ /\ receipt'.id \in Ids /\ receipt'.id < next_plan'
                                 /\ receipt'.source \in SUBSET Nat,
           next_plan' \in Ids, next_plan <= next_plan',
           tool' \in ToolStates,
           tool' # NoTool => tool'.id < next_plan' /\ tool'.op = "migrate" /\ ~server',
           server' \in BOOLEAN, server' => pointer # NoId, Migrating'
    PROVE  RootInv'
<1>1. RootTypes'
  BY DEF RootInv, RootTypes, Ids
<1>2. Kept'
  BY DEF RootInv, Kept, Published
<1>3. NoTool.op = "idle"
  BY DEF NoTool
<1>4. Initializing'
  BY <1>3 DEF Initializing
<1> QED BY <1>1, <1>2, <1>4 DEF RootInv

\* The work before a phase of the journal that leaves the clusters alone.
LEMMA WorkKeeps ==
    ASSUME RootInv,
           \/ validate_source_unchanged \/ write_snapshot_archive \/ check_candidate
           \/ retain_rollback
    PROVE  RootInv'
<1> USE DEF Rest
<1>1. /\ tool.op = "migrate" /\ ~tool.done
      /\ UNCHANGED <<legacy, clusters, pointer, server, receipt, next_plan, acked>>
  BY DEF validate_source_unchanged, write_snapshot_archive, check_candidate, retain_rollback,
         Working, files
<1>2. /\ RootTypes /\ tool # NoTool /\ NoTool.op = "idle" /\ NoTool \in ToolStates
      /\ tool \in [op : {"migrate"}, id : Ids, phase : 0..8, done : BOOLEAN,
                   source : SUBSET Nat, read : SUBSET Nat]
      /\ next_plan \in Ids /\ next_plan <= next_plan /\ server \in BOOLEAN
      /\ ~server /\ tool.id < next_plan
  BY <1>1, Migrator
<1>3. CASE tool' = NoTool
  BY <1>1, <1>2, <1>3, ToolMoves DEF Migrating
<1>4. CASE tool' = [tool EXCEPT !.done = TRUE] /\ tool.phase # 0 /\
               (tool.phase = 5 => legacy = tool.source) /\ tool.phase \in {1, 3, 4, 5, 8}
  <2>1. /\ tool' \in ToolStates /\ tool'.op = "migrate" /\ tool'.phase = tool.phase
        /\ tool'.id = tool.id /\ tool'.source = tool.source /\ tool'.read = tool.read
    BY <1>2, <1>4 DEF ToolStates
  <2>2. \A phase \in {0, 2, 6, 7} : Past(phase)' <=> Past(phase)
    BY <1>1, <1>2, <1>4, <2>1 DEF Past
  <2>3. Past(5)' => legacy = tool.source
    BY <1>1, <1>2, <1>4, <2>1 DEF RootInv, Migrating, Past
  <2>4. Migrating'
    BY <1>1, <2>1, <2>2, <2>3 DEF RootInv, Migrating, Published
  <2> QED BY <1>1, <1>2, <2>1, <2>4, ToolMoves
<1>5. CASE validate_source_unchanged
  <2>1. /\ tool.phase = 0 /\ pointer = NoId /\ legacy = tool.source
        /\ tool' = [tool EXCEPT !.done = TRUE, !.read = legacy]
    BY <1>5, Inspected DEF validate_source_unchanged, Working
  <2>2. /\ tool' \in ToolStates /\ tool'.op = "migrate" /\ tool'.phase = 0
        /\ tool'.id = tool.id /\ tool'.source = tool.source /\ tool'.read = tool.source
    BY <1>2, <2>1 DEF ToolStates, RootTypes
  <2>3. Migrating'
    BY <1>1, <2>1, <2>2 DEF Migrating, Past
  <2> QED BY <1>1, <1>2, <2>2, <2>3, ToolMoves
<1>6. CASE write_snapshot_archive
  BY <1>4, <1>6 DEF write_snapshot_archive, Done, Working
<1>7. CASE check_candidate
  BY <1>4, <1>7 DEF check_candidate, Done, Working
<1>8. CASE retain_rollback
  BY <1>3, <1>4, <1>8 DEF retain_rollback, Done, Working
<1> QED BY <1>5, <1>6, <1>7, <1>8

\* The entry in the journal.
LEMMA PhaseKeeps == ASSUME RootInv, persist_phase PROVE RootInv'
<1>1. /\ tool.op = "migrate" /\ tool.done
      /\ UNCHANGED <<legacy, clusters, pointer, server, receipt, next_plan, acked>>
      /\ tool' = IF tool.phase + 1 = 9 THEN NoTool
                 ELSE [tool EXCEPT !.phase = @ + 1, !.done = FALSE]
  <2>1. Len(Phases) = 9
    BY DEF Phases
  <2> QED BY <2>1 DEF persist_phase, Rest
<1>2. /\ RootTypes /\ tool # NoTool /\ NoTool.op = "idle" /\ NoTool \in ToolStates
      /\ tool \in [op : {"migrate"}, id : Ids, phase : 0..8, done : BOOLEAN,
                   source : SUBSET Nat, read : SUBSET Nat]
      /\ next_plan \in Ids /\ next_plan <= next_plan /\ server \in BOOLEAN
      /\ ~server /\ tool.id < next_plan
  BY <1>1, Migrator
<1>3. CASE tool' = NoTool
  BY <1>1, <1>2, <1>3, ToolMoves DEF Migrating
<1>4. CASE tool.phase + 1 # 9
  <2>1. /\ tool' \in ToolStates /\ tool'.op = "migrate" /\ tool'.phase = tool.phase + 1
        /\ tool'.id = tool.id /\ tool'.source = tool.source /\ tool'.read = tool.read
        /\ tool'.done = FALSE
    <3>1. tool.phase + 1 \in 0..8 /\ tool' = [tool EXCEPT !.phase = tool.phase + 1, !.done = FALSE]
      BY <1>1, <1>2, <1>4
    <3> QED BY <1>2, <3>1 DEF ToolStates
  <2>2. \A phase \in 0..8 : Past(phase)' <=> Past(phase)
    BY <1>1, <1>2, <2>1 DEF Past
  <2>3. Migrating'
    BY <1>1, <2>1, <2>2 DEF RootInv, Migrating, Published
  <2> QED BY <1>1, <1>2, <2>1, <2>3, ToolMoves
<1> QED BY <1>1, <1>3, <1>4

\* Plans, receipts, refusals, crashes, and the server's start and stop.
LEMMA OtherKeeps ==
    ASSUME RootInv,
           \/ plan_v1_to_v2 \/ installer_storage_preflight \/ apply_installer_storage_receipt
           \/ Refuse \/ start_server \/ stop_server \/ Crash
    PROVE  RootInv'
<1>1. /\ UNCHANGED <<legacy, clusters, pointer, acked>>
      /\ next_plan' = next_plan \/ next_plan' = next_plan + 1
  BY DEF plan_v1_to_v2, installer_storage_preflight, apply_installer_storage_receipt, Refuse,
         start_server, stop_server, Crash, files, Rest
<1>2. /\ RootTypes /\ Kept /\ next_plan \in Ids /\ next_plan' \in Ids /\ next_plan <= next_plan'
      /\ legacy \in SUBSET Nat
  BY <1>1 DEF RootInv, RootTypes, Ids, NoId
<1>3. NoTool.op = "idle" /\ NoTool \in ToolStates
  BY DEF NoTool, ToolStates
<1>4. tool \in ToolStates /\ server \in BOOLEAN /\ (server => pointer # NoId)
  BY <1>2 DEF RootTypes, Kept
<1>5. ASSUME tool' = NoTool, server' \in {server, FALSE}, receipt' = receipt PROVE RootInv'
  <2>1. Migrating'
    BY <1>3, <1>5 DEF Migrating
  <2>2. server' \in BOOLEAN /\ (server' => pointer # NoId)
    <3>1. CASE server' = server
      BY <1>4, <3>1
    <3>2. CASE server' = FALSE
      BY <3>2
    <3> QED BY <1>5, <3>1, <3>2
  <2> QED BY <1>1, <1>2, <1>3, <1>5, <2>1, <2>2, ToolMoves
<1>6. ASSUME NEW id \in Ids, id < next_plan', NEW source \in SUBSET Nat,
             tool' = Planned(id, source), server' = FALSE, receipt' = receipt, pointer = NoId
      PROVE  RootInv'
  <2>1. tool' \in ToolStates /\ tool'.op = "migrate" /\ tool'.id = id /\ tool'.phase = 0
        /\ tool'.done = FALSE
    <3>1. Planned(id, source) \in [op : {"migrate"}, id : Ids, phase : 0..8, done : BOOLEAN,
                                   source : SUBSET Nat, read : SUBSET Nat]
      <4>1. 0 \in 0..8 /\ {} \in SUBSET Nat /\ FALSE \in BOOLEAN
        OBVIOUS
      <4> QED BY <1>6, <4>1 DEF Planned
    <3>2. Planned(id, source).op = "migrate" /\ Planned(id, source).id = id
          /\ Planned(id, source).phase = 0 /\ Planned(id, source).done = FALSE
      BY DEF Planned
    <3> QED BY <1>6, <3>1, <3>2 DEF ToolStates
  <2>2. ~Past(0)' /\ ~Past(2)' /\ ~Past(5)' /\ ~Past(6)'
    BY <2>1 DEF Past
  <2>3. Migrating'
    BY <1>1, <1>6, <2>2 DEF Migrating
  <2> QED BY <1>1, <1>2, <1>6, <2>1, <2>3, ToolMoves
<1>7. CASE plan_v1_to_v2
  <2>1. pointer = NoId /\ next_plan < next_plan'
    BY <1>2, <1>7, Inspected DEF plan_v1_to_v2, Ids
  <2> QED BY <1>2, <1>4, <1>6, <1>7, <2>1 DEF plan_v1_to_v2, Offline
<1>8. CASE apply_installer_storage_receipt
  <2>1. pointer = NoId
    BY <1>8, Classified DEF apply_installer_storage_receipt, Fingerprint
  <2>2. receipt.id \in Ids /\ receipt.id < next_plan /\ receipt.source \in SUBSET Nat
    BY <1>2, <1>8 DEF RootTypes, apply_installer_storage_receipt
  <2> QED BY <1>4, <1>6, <1>8, <2>1, <2>2 DEF apply_installer_storage_receipt, Offline
<1>9. CASE installer_storage_preflight
  <2>1. /\ tool' = NoTool /\ ~server' /\ server' \in BOOLEAN /\ next_plan' = next_plan + 1
        /\ receipt' = [id |-> next_plan, source |-> Served, fingerprint |-> Fingerprint]
    BY <1>4, <1>9 DEF installer_storage_preflight, Offline
  <2>2. Served \in SUBSET Nat
    <3>1. ASSUME pointer \in DOMAIN clusters PROVE clusters[pointer].writes \in SUBSET Nat
      BY <1>2, <3>1 DEF RootTypes, ClusterStates
    <3>2. Served = legacy \/ Served = {}
          \/ (pointer \in DOMAIN clusters /\ Served = clusters[pointer].writes)
      BY Inspected DEF Served, Published
    <3> QED BY <1>2, <3>1, <3>2
  <2>3. receipt'.id = next_plan /\ receipt'.source = Served
    BY <2>1
  <2>4. next_plan < next_plan'
    BY <1>2, <2>1 DEF Ids
  <2>5. Migrating'
    BY <1>3, <2>1 DEF Migrating
  <2> QED BY <1>1, <1>2, <1>3, <2>1, <2>2, <2>3, <2>4, <2>5, ToolMoves
<1>10. CASE start_server
  <2>1. tool' = NoTool /\ server' = TRUE /\ receipt' = receipt /\ pointer # NoId
    BY <1>10, Inspected DEF start_server, Offline
  <2>2. Migrating'
    BY <1>3, <2>1 DEF Migrating
  <2> QED BY <1>1, <1>2, <1>3, <2>1, <2>2, ToolMoves
<1>11. CASE stop_server
  BY <1>2, <1>5, <1>11 DEF stop_server, Kept
<1>12. CASE Refuse
  BY <1>5, <1>12 DEF Refuse, Rest
<1>13. CASE Crash
  BY <1>5, <1>13 DEF Crash
<1> QED BY <1>7, <1>8, <1>9, <1>10, <1>11, <1>12, <1>13

\* The candidate, its publication and the switch of the pointer.
LEMMA CandidateKeeps ==
    ASSUME RootInv,
           prepare_candidate \/ publish_cluster_directory \/ activate_published_cluster
    PROVE  RootInv'
<1> DEFINE t == [tool EXCEPT !.done = TRUE]
<1>1. /\ tool.op = "migrate" /\ ~tool.done /\ tool.phase \in {2, 6, 7} /\ tool' = t
      /\ UNCHANGED <<legacy, server, receipt, next_plan, acked>>
  BY DEF prepare_candidate, publish_cluster_directory, activate_published_cluster, Working,
         Done, Rest
<1>2. /\ RootTypes /\ tool # NoTool /\ NoTool.op = "idle" /\ NoTool \in ToolStates
      /\ tool \in [op : {"migrate"}, id : Ids, phase : 0..8, done : BOOLEAN,
                   source : SUBSET Nat, read : SUBSET Nat]
      /\ next_plan \in Ids /\ next_plan <= next_plan /\ server \in BOOLEAN
      /\ ~server /\ tool.id < next_plan
  BY <1>1, Migrator
<1>3. /\ tool' \in ToolStates /\ tool'.op = "migrate" /\ tool'.phase = tool.phase
      /\ tool'.id = tool.id /\ tool'.source = tool.source /\ tool'.read = tool.read
      /\ tool'.done = TRUE
  BY <1>1, <1>2 DEF ToolStates
<1> HIDE DEF t
<1>4. \A phase \in 0..8 : phase # tool.phase => (Past(phase)' <=> Past(phase))
  BY <1>1, <1>2, <1>3 DEF Past
<1>5. ~Past(7) /\ pointer = NoId /\ acked \subseteq legacy /\ tool.id \in Ids
      /\ tool.read \in SUBSET Nat
  BY <1>1, <1>2 DEF RootInv, Migrating, Kept, Past
<1>6. Initializing'
  BY <1>3 DEF Initializing
<1>7. Past(0) /\ tool.read = tool.source
  BY <1>1, <1>2 DEF RootInv, Migrating, Past
<1>8. CASE prepare_candidate
  <2> DEFINE c == Built(tool.read, 1, "candidate")
  <2>1. /\ tool.phase = 2 /\ tool.id \notin DOMAIN clusters /\ clusters' = With(tool.id, c)
        /\ pointer' = pointer
    BY <1>8 DEF prepare_candidate, Working
  <2>2. c \in ClusterStates /\ c.writes = tool.read /\ c.generation >= c.activation
    BY <1>5 DEF Built, ClusterStates
  <2> HIDE DEF c
  <2>3. /\ DOMAIN clusters' = DOMAIN clusters \union {tool.id} /\ clusters'[tool.id] = c
        /\ \A i \in DOMAIN clusters : clusters'[i] = clusters[i]
    BY <2>1, ClusterAdded
  <2>4. clusters' \in [DOMAIN clusters' -> ClusterStates]
    <3>1. clusters' = [i \in DOMAIN clusters' |-> clusters'[i]]
      BY <2>1 DEF With
    <3>2. \A i \in DOMAIN clusters' : clusters'[i] \in ClusterStates
      BY <1>2, <2>2, <2>3 DEF RootTypes
    <3> QED BY <3>1, <3>2
  <2>5. RootTypes'
    BY <1>1, <1>2, <1>3, <1>5, <2>1, <2>3, <2>4 DEF RootTypes
  <2>6. Kept'
    BY <1>1, <1>2, <1>5, <2>1, <2>2, <2>3 DEF RootInv, Kept
  <2>7. ~Past(5)' /\ ~Past(6)' /\ ~Past(7)'
    BY <1>3, <2>1 DEF Past
  <2>8. Migrating'
    BY <1>3, <1>5, <1>7, <2>1, <2>2, <2>3, <2>7 DEF Migrating
  <2> QED BY <1>6, <2>5, <2>6, <2>8 DEF RootInv
<1>9. CASE publish_cluster_directory
  <2>1. /\ tool.phase = 6 /\ pointer' = pointer
        /\ clusters' = [clusters EXCEPT ![tool.id].place = "published"]
    BY <1>9 DEF publish_cluster_directory, Working, PublishDirectory
  <2>2. Past(2) /\ Past(5) /\ tool.id \in DOMAIN clusters /\ clusters[tool.id].writes = tool.read
        /\ legacy = tool.source
    BY <1>1, <2>1 DEF RootInv, Migrating, Past
  <2>3. clusters[tool.id] \in ClusterStates
    BY <1>2, <2>2 DEF RootTypes
  <2>4. /\ clusters' \in [DOMAIN clusters -> ClusterStates] /\ DOMAIN clusters' = DOMAIN clusters
        /\ clusters'[tool.id].place = "published"
        /\ \A i \in DOMAIN clusters : /\ clusters'[i].writes = clusters[i].writes
                                      /\ clusters'[i].generation = clusters[i].generation
                                      /\ clusters'[i].activation = clusters[i].activation
    BY <1>2, <2>1, <2>2, <2>3 DEF RootTypes, ClusterStates
  <2>5. RootTypes'
    BY <1>1, <1>2, <1>3, <2>1, <2>4 DEF RootTypes
  <2>6. Kept'
    BY <1>1, <1>2, <1>5, <2>1, <2>4 DEF RootInv, Kept
  <2>7. ~Past(7)'
    BY <1>3, <2>1 DEF Past
  <2>8. Migrating'
    BY <1>1, <1>3, <1>5, <1>7, <2>1, <2>2, <2>4, <2>7 DEF Migrating, Published
  <2> QED BY <1>6, <2>5, <2>6, <2>8 DEF RootInv
<1>10. CASE activate_published_cluster
  <2>1. tool.phase = 7 /\ pointer' = tool.id /\ clusters' = clusters
    BY <1>10 DEF activate_published_cluster, Working
  <2>2. /\ tool.id \in DOMAIN clusters /\ clusters[tool.id].writes = tool.read
        /\ legacy = tool.source /\ Published(tool.id)
    BY <1>1, <2>1 DEF RootInv, Migrating, Past
  <2>3. RootTypes'
    BY <1>1, <1>2, <1>3, <1>5, <2>1 DEF RootTypes, Ids
  <2>4. Kept'
    BY <1>1, <1>2, <1>5, <1>7, <2>1, <2>2 DEF RootInv, Kept, Published, Ids
  <2>5. Past(7)'
    BY <1>3, <2>1 DEF Past
  <2>6. Migrating'
    BY <1>1, <1>3, <1>7, <2>1, <2>2, <2>5 DEF Migrating, Published
  <2> QED BY <1>6, <2>3, <2>4, <2>6 DEF RootInv
<1> QED BY <1>8, <1>9, <1>10

\* The first start on an empty root.
LEMMA InitializeKeeps ==
    ASSUME RootInv, initialize_empty_v2 \/ initialized_published \/ initialized_activated
    PROVE  RootInv'
<1>1. RootTypes /\ Kept /\ NoTool.op = "idle"
  BY DEF RootInv, NoTool
<1>2. CASE initialize_empty_v2
  <2> DEFINE c == Built({}, NoId, "initializing")
             t == [op |-> "initialize", id |-> next_plan, phase |-> 0, done |-> FALSE]
  <2>1. /\ ~server /\ pointer = NoId /\ legacy = NoFile /\ tool' = t
        /\ clusters' = With(next_plan, c) /\ next_plan' = next_plan + 1
        /\ UNCHANGED <<legacy, pointer, server, receipt, acked>>
    BY <1>2, Inspected DEF initialize_empty_v2, Offline
  <2>2. /\ t \in [op : {"initialize"}, id : Ids, phase : 0..1, done : {FALSE}]
        /\ t.op = "initialize" /\ t.id = next_plan /\ t.phase = 0
    BY <1>1 DEF RootTypes
  <2>3. t \in ToolStates
    BY <2>2 DEF ToolStates
  <2>4. c \in ClusterStates /\ c.writes = {} /\ c.generation >= c.activation /\ c.activation = NoId
    BY DEF Built, ClusterStates, NoId
  <2> HIDE DEF c, t
  <2>5. next_plan \in Ids /\ next_plan' \in Ids /\ next_plan < next_plan' /\ next_plan \notin DOMAIN clusters
    BY <1>1, <2>1 DEF RootTypes, Ids, NoId
  <2>6. /\ DOMAIN clusters' = DOMAIN clusters \union {next_plan} /\ clusters'[next_plan] = c
        /\ \A i \in DOMAIN clusters : clusters'[i] = clusters[i]
    <3>1. next_plan \notin DOMAIN clusters /\ clusters' = With(next_plan, c)
      BY <2>1, <2>5
    <3> QED BY <3>1 DEF With
  <2>7. clusters' \in [DOMAIN clusters' -> ClusterStates]
    <3>1. clusters' = [i \in DOMAIN clusters' |-> clusters'[i]]
      BY <2>1 DEF With
    <3>2. \A i \in DOMAIN clusters' : clusters'[i] \in ClusterStates
      BY <1>1, <2>4, <2>6 DEF RootTypes
    <3> QED BY <3>1, <3>2
  <2>8. \A i \in DOMAIN clusters' : i \in Ids /\ i < next_plan'
    BY <1>1, <2>1, <2>5, <2>6 DEF RootTypes, Ids
  <2>9. receipt' # NoReceipt =>
            receipt'.id \in Ids /\ receipt'.id < next_plan' /\ receipt'.source \in SUBSET Nat
    BY <1>1, <2>1, <2>5 DEF RootTypes, Ids
  <2>10. RootTypes'
    BY <1>1, <2>1, <2>2, <2>3, <2>5, <2>7, <2>8, <2>9 DEF RootTypes
  <2>11. Kept'
    BY <1>1, <2>1, <2>4, <2>6 DEF Kept
  <2>12. Migrating' /\ Initializing'
    BY <2>1, <2>2, <2>4, <2>6 DEF Migrating, Initializing
  <2> QED BY <2>10, <2>11, <2>12 DEF RootInv
<1>3. CASE initialized_published
  <2>1. /\ tool.op = "initialize" /\ tool.phase = 0
        /\ clusters' = [clusters EXCEPT ![tool.id].place = "published"]
        /\ tool' = [tool EXCEPT !.phase = @ + 1]
        /\ UNCHANGED <<legacy, pointer, server, receipt, next_plan, acked>>
    BY <1>3 DEF initialized_published, Starting, Working, PublishDirectory, Continue, Rest
  <2>2. tool \in [op : {"initialize"}, id : Ids, phase : 0..1, done : {FALSE}]
    BY <1>1, <2>1, ToolFacts
  <2>3. /\ pointer = NoId /\ legacy = NoFile /\ tool.id \in DOMAIN clusters
        /\ clusters[tool.id].activation = NoId /\ clusters[tool.id] \in ClusterStates
        /\ tool # NoTool /\ ~server
    BY <1>1, <2>1 DEF RootInv, Initializing, RootTypes, Kept
  <2>4. /\ tool' \in [op : {"initialize"}, id : Ids, phase : 0..1, done : {FALSE}]
        /\ tool'.op = "initialize" /\ tool'.id = tool.id /\ tool'.phase = 1
    <3>1. tool' = [tool EXCEPT !.phase = 1] /\ 1 \in 0..1
      BY <2>1
    <3> QED BY <2>1, <2>2, <3>1
  <2>5. tool' \in ToolStates
    BY <2>4 DEF ToolStates
  <2>6. /\ clusters' \in [DOMAIN clusters -> ClusterStates] /\ DOMAIN clusters' = DOMAIN clusters
        /\ clusters'[tool.id].place = "published"
        /\ \A i \in DOMAIN clusters : /\ clusters'[i].writes = clusters[i].writes
                                      /\ clusters'[i].generation = clusters[i].generation
                                      /\ clusters'[i].activation = clusters[i].activation
    BY <1>1, <2>1, <2>3 DEF RootTypes, ClusterStates
  <2>7. RootTypes'
    BY <1>1, <2>1, <2>3, <2>4, <2>5, <2>6 DEF RootTypes
  <2>8. Kept'
    BY <1>1, <2>1, <2>3, <2>6 DEF Kept
  <2>9. Migrating' /\ Initializing'
    BY <2>1, <2>3, <2>4, <2>6 DEF Migrating, Initializing, Published
  <2> QED BY <2>7, <2>8, <2>9 DEF RootInv
<1>4. CASE initialized_activated
  <2>1. /\ tool.op = "initialize" /\ tool.phase = 1
        /\ pointer' = tool.id /\ tool' = NoTool /\ server' = TRUE
        /\ UNCHANGED <<legacy, clusters, receipt, next_plan, acked>>
    BY <1>4 DEF initialized_activated, Starting, Working
  <2>2. /\ pointer = NoId /\ legacy = NoFile /\ tool.id \in DOMAIN clusters
        /\ clusters[tool.id].activation = NoId /\ Published(tool.id) /\ tool # NoTool
        /\ tool.id \in Ids
    BY <1>1, <2>1, ToolFacts DEF RootInv, Initializing
  <2>3. acked = {}
    BY <1>1, <2>2 DEF Kept, NoFile
  <2>4. RootTypes'
    BY <1>1, <2>1, <2>2 DEF RootTypes, ToolStates, Ids
  <2>5. Kept'
    BY <1>1, <2>1, <2>2, <2>3 DEF Kept, Published, Ids
  <2>6. Migrating' /\ Initializing'
    BY <1>1, <2>1 DEF Migrating, Initializing
  <2> QED BY <2>4, <2>5, <2>6 DEF RootInv
<1> QED BY <1>2, <1>3, <1>4

\* Writes, and the way back to the v1 database.
LEMMA WritesKeep ==
    ASSUME RootInv, commit \/ legacy_write \/ rollback_v2_to_v1
    PROVE  RootInv'
<1> DEFINE w == Writes + 1
<1>1. RootTypes /\ Kept /\ NoTool.op = "idle"
  BY DEF RootInv, NoTool
<1>2. w \in Nat /\ IsFiniteSet(acked \union {w})
  <2>1. IsFiniteSet(acked) /\ IsFiniteSet(acked \ {0})
    BY <1>1, FS_Difference DEF RootTypes
  <2>2. Writes \in Nat
    BY <2>1, FS_CardinalityType DEF Writes
  <2> QED BY <2>1, <2>2, FS_AddElement
<1> HIDE DEF w
<1>3. CASE commit
  <2> DEFINE c == clusters[pointer]
  <2>1. /\ server /\ acked' = acked \union {w}
        /\ clusters' = [clusters EXCEPT ![pointer].writes = @ \union {w},
                                        ![pointer].generation = @ + 1]
        /\ UNCHANGED <<legacy, pointer, tool, server, receipt, next_plan>>
    BY <1>3 DEF commit, w
  <2>2. /\ tool = NoTool /\ pointer # NoId /\ pointer \in DOMAIN clusters /\ c \in ClusterStates
        /\ c.place = "published" /\ acked \subseteq c.writes /\ c.generation >= c.activation
    BY <1>1, <2>1 DEF Kept, Published, RootTypes
  <2>3. /\ clusters' \in [DOMAIN clusters -> ClusterStates] /\ DOMAIN clusters' = DOMAIN clusters
        /\ clusters'[pointer].writes = c.writes \union {w}
        /\ clusters'[pointer].generation = c.generation + 1
        /\ clusters'[pointer].activation = c.activation
        /\ clusters'[pointer].place = "published"
        /\ \A i \in DOMAIN clusters \ {pointer} : clusters'[i] = clusters[i]
    <3>1. [c EXCEPT !.writes = @ \union {w}, !.generation = @ + 1] \in ClusterStates
      <4>1. c.writes \union {w} \in SUBSET Nat /\ c.generation + 1 \in Nat
        BY <1>2, <2>2 DEF ClusterStates
      <4> QED BY <2>2, <4>1 DEF ClusterStates
    <3>2. clusters' = [clusters EXCEPT ![pointer] =
                           [c EXCEPT !.writes = @ \union {w}, !.generation = @ + 1]]
      BY <2>1
    <3> QED BY <1>1, <2>2, <3>1, <3>2 DEF RootTypes, ClusterStates
  <2>4. c.generation \in Nat /\ c.activation \in Nat
    BY <2>2 DEF ClusterStates
  <2>5. RootTypes'
    BY <1>1, <1>2, <2>1, <2>3 DEF RootTypes
  <2>6. Kept'
    <3>1. \A i \in DOMAIN clusters' : clusters'[i].generation >= clusters'[i].activation
      BY <1>1, <2>2, <2>3, <2>4 DEF Kept
    <3>2. clusters'[pointer].generation # clusters'[pointer].activation
      BY <2>2, <2>3, <2>4
    <3> QED BY <1>1, <2>1, <2>2, <2>3, <3>1, <3>2 DEF Kept, Published
  <2>7. Migrating' /\ Initializing'
    BY <1>1, <2>1, <2>2 DEF Migrating, Initializing
  <2> QED BY <2>5, <2>6, <2>7 DEF RootInv
<1>4. CASE legacy_write
  <2>1. /\ pointer = NoId /\ legacy # NoFile
        /\ tool # NoTool => tool.phase < 5 \/ (tool.phase = 5 /\ ~tool.done)
        /\ legacy' = legacy \union {w} /\ acked' = acked \union {w}
        /\ UNCHANGED <<clusters, pointer, tool, server, receipt, next_plan>>
    BY <1>4, Inspected DEF legacy_write, w
  <2>2. RootTypes'
    BY <1>1, <1>2, <2>1 DEF RootTypes
  <2>3. Kept'
    BY <1>1, <2>1 DEF Kept
  <2>4. Initializing'
    BY <2>1 DEF RootInv, Initializing
  <2>5. ASSUME tool.op = "migrate" PROVE ~Past(5)
    <3>1. tool # NoTool /\ tool.phase \in 0..8
      BY <2>5, Migrator
    <3> QED BY <2>1, <3>1 DEF Past
  <2>6. Migrating'
    BY <2>1, <2>5 DEF RootInv, Migrating, Past, Published
  <2> QED BY <2>2, <2>3, <2>4, <2>6 DEF RootInv
<1>5. CASE rollback_v2_to_v1
  <2>1. /\ tool = NoTool /\ ~server /\ pointer # NoId /\ pointer' = NoId
        /\ clusters[pointer].activation # NoId
        /\ clusters[pointer].generation = clusters[pointer].activation
        /\ UNCHANGED <<legacy, clusters, tool, server, receipt, next_plan, acked>>
    BY <1>5, Inspected DEF rollback_v2_to_v1, Offline, CanRollBack
  <2>2. RootTypes'
    BY <1>1, <2>1 DEF RootTypes, NoId
  <2>3. Kept'
    BY <1>1, <2>1 DEF Kept
  <2>4. Migrating' /\ Initializing'
    BY <1>1, <2>1 DEF Migrating, Initializing
  <2> QED BY <2>2, <2>3, <2>4 DEF RootInv
<1> QED BY <1>3, <1>4, <1>5

LEMMA RootStep == RootInv /\ [RootNext]_rootVars => RootInv'
<1> SUFFICES ASSUME RootInv, [RootNext]_rootVars PROVE RootInv'
  OBVIOUS
<1>1. CASE UNCHANGED rootVars
  BY <1>1 DEF rootVars, RootInv, RootTypes, Kept, Migrating, Initializing, Published, Past
<1>2. CASE RootNext
  BY <1>2, OtherKeeps, WorkKeeps, PhaseKeeps, CandidateKeeps, InitializeKeeps, WritesKeep
  DEF RootNext
<1> QED BY <1>1, <1>2

\* At every point of every migration, rerun, receipt, crash and rollback, whatever
\* the old program or the server acknowledged is in the database that inspect_root
\* makes the authoritative one, and the installer's classification, where it lets
\* the installer go on, names that same database.
THEOREM RootIsKept == RootSpec => []DataRootIsKept
<1>1. RootInv => NoWriteLost
  <2> SUFFICES ASSUME RootInv PROVE NoWriteLost
    OBVIOUS
  <2>1. CASE pointer # NoId
    <3>1. inspect_root = "V2" /\ acked \subseteq clusters[pointer].writes
      BY <2>1, Inspected DEF RootInv, Kept
    <3>2. Served = clusters[pointer].writes
      BY <3>1 DEF Served
    <3> QED BY <3>1, <3>2 DEF NoWriteLost
  <2>2. CASE pointer = NoId /\ legacy # NoFile
    <3>1. inspect_root = "LegacyV1" /\ acked \subseteq legacy
      BY <2>2, Inspected DEF RootInv, Kept
    <3>2. Served = legacy
      BY <3>1 DEF Served
    <3> QED BY <3>1, <3>2 DEF NoWriteLost
  <2>3. CASE pointer = NoId /\ legacy = NoFile
    <3>1. acked = {}
      BY <2>3 DEF RootInv, Kept, NoFile
    <3> QED BY <3>1 DEF NoWriteLost
  <2> QED BY <2>1, <2>2, <2>3
<1>2. ClassifiedAsOpened
  BY DEF ClassifiedAsOpened, classify_installer_storage, inspect_root, Safe
<1>3. RootInv => DataRootIsKept
  BY <1>1, <1>2 DEF DataRootIsKept
<1> QED BY <1>3, RootInitially, RootStep, PTL DEF RootSpec
================================================================================
