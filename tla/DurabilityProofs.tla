-------------------------- MODULE DurabilityProofs --------------------------
(***************************************************************************)
(* Proofs about Durability, for every number of pages, transactions,       *)
(* crashes, failed calls and checkpoints.  Five invariants, each resting   *)
(* on the ones before it:                                                  *)
(*   Core       types, what records refer to, who owns the running commit; *)
(*   CommitIsLogged  what the running commit has already flushed;          *)
(*   Agreement  what the status document and the log say of each other;    *)
(*   Trusted, Fresh  the write-ahead rule, and the next transaction id;    *)
(*   Contents   what pages, records and databases hold.                    *)
(* Most steps do not touch most of the state: LogSteps, RecordSteps,       *)
(* ModeSteps, FileSteps and NextIdSteps say once, for every action, what   *)
(* it may do to the log, the mode, the file and the next id.               *)
(***************************************************************************)
EXTENDS Durability, SequenceTheorems, FiniteSetTheorems, TLAPS

(***************************************************************************)
(* Types.  The content of a page is any integer here: Contents, at the end *)
(* of the module, says which ones occur, and RecoveryProofs which of them  *)
(* redo and undo leave on it.                                              *)
(***************************************************************************)
Versions == [lsn : Nat, val : Int]
Files    == [page : [Pages -> Versions], cnt : Nat, maybe : [Pages -> SUBSET Versions],
             maybe_cnt : SUBSET Nat]
Dbs      == [cnt : Nat, val : [Pages -> Int]]
Statuses == {"None", "InProgress", "Committed", "Aborted"}
Modes    == {"up", "down", "recovering", "failed"}
Phases   == {"none", "begun", "active", "persist", "failed", "empty", "aborting", "done",
             "orphan", "lost", "gone"}
Positions == [Pages -> Nat]

PageUpdates   == [kind : {"PageUpdate"}, txn : Txns, prev : Nat, page : Pages,
                  before : Versions, after : Versions]
Resizes       == [kind : {"Resize"}, txn : Txns, prev : Nat, before_page_count : Nat,
                  after_page_count : Nat]
Compensations == [kind : {"Compensation"}, txn : Txns, prev : Nat, page : Nat,
                  undo : Versions, resulting_page_count : Nat, undo_next_lsn : Nat]
CheckpointBegins == [kind : {"CheckpointBegin"}, txn : {0}, dirty_pages : Positions]
CheckpointEnds   == [kind : {"CheckpointEnd"}, txn : {0}, begin_lsn : Nat]
Others == [kind : {"Begin", "Commit", "Abort"}, txn : Txns, prev : Nat]
Records ==
    PageUpdates \cup Resizes \cup Compensations \cup CheckpointBegins \cup CheckpointEnds
        \cup Others

JobSteps == {"log", "logged", "status", "apply", "resized", "commit", "commit_flush", "publish"}
Jobs == [step : JobSteps, txn : Txns, db : Dbs, before : Nat, todo : SUBSET Pages]
Checkpoints == [step : {"sampled"}, dirty : Positions] \cup [step : {"begun"}, lsn : Nat]
RecoverySteps == {"redo", "checkpoint", "checkpoint_end", "reconcile"}
Recoveries == [step : RecoverySteps, pos : Nat, last : Nat, cnt : Nat, target : Nat,
               undo : [Txns -> Nat]]

LogTypes ==
    /\ wal \in Seq(Records)
    /\ synced \in 0 .. Len(wal) /\ durable_lsn \in 0 .. Len(wal)
    /\ dirty_pages \in Positions

StatusTypes ==
    /\ status \in [Txns -> Statuses]
    /\ next_transaction_id \in Nat /\ retained_transaction_floor \in Nat
    /\ document \in [status : [Txns -> Statuses], next : Nat, floor : Nat]

SessionTypes ==
    /\ mode \in Modes /\ phase \in [Txns -> Phases] /\ mem \in Dbs
    /\ job \in Jobs \cup {Idle}
    /\ checkpoint \in Checkpoints \cup {Idle}

Types ==
    /\ LogTypes /\ StatusTypes /\ SessionTypes
    /\ file \in Files
    /\ rec \in Recoveries \cup {Idle}
    /\ acked \subseteq Txns

(***************************************************************************)
(* Numbers.                                                                *)
(***************************************************************************)
\* A nonempty set of naturals has a least element, by the well-foundedness of the
\* strict inclusion of the finite sets 0..n.
LEMMA LeastNatural ==
    ASSUME NEW T, T \subseteq Nat, T # {}
    PROVE  \E n \in T : \A m \in T : n <= m
<1>. DEFINE Up == {0..n : n \in T}
<1>1. Up \subseteq FiniteSubsetsOf(Nat) /\ Up # {}
  <2>1. \A n \in T : IsFiniteSet(0..n) /\ 0..n \subseteq Nat
    BY FS_Interval
  <2>2. QED
    BY <2>1 DEF FiniteSubsetsOf
<1>2. PICK x \in Up : \A y \in Up : ~(<<y, x>> \in StrictSubsetOrdering(Nat))
  <2>. HIDE DEF Up
  <2>1. QED
    BY <1>1, FS_StrictSubsetOrderingWellFounded, WFMin
<1>3. PICK n \in T : x = 0..n
  OBVIOUS
<1>4. ASSUME NEW m \in T, m < n PROVE FALSE
  <2>1. 0..m \in Up /\ 0..m \subseteq 0..n /\ n \in 0..n /\ n \notin 0..m
    BY <1>4
  <2>2. <<0..m, 0..n>> \in StrictSubsetOrdering(Nat)
    BY <2>1, <1>1 DEF StrictSubsetOrdering
  <2>3. QED
    BY <1>2, <1>3, <2>1, <2>2
<1>5. QED
  BY <1>4

\* Min, which log_prepared and analyze take.
LEMMA MinFacts ==
    ASSUME NEW S, S \subseteq Nat, S # {}
    PROVE  Min(S) \in S /\ \A y \in S : Min(S) <= y
<1>1. PICK n \in S : \A m \in S : n <= m
  BY LeastNatural
<1>2. \E x \in S : \A y \in S : x =< y
  BY <1>1
<1>. QED
  BY <1>2 DEF Min

\* Max of a bounded set, which last_lsn takes.
LEMMA MaxFacts ==
    ASSUME NEW n \in Nat, NEW S, S \subseteq 0 .. n, S # {}
    PROVE  Max(S) \in S /\ \A y \in S : Max(S) >= y
<1>. DEFINE T == {n - s : s \in S}
<1>1. T \subseteq Nat /\ T # {}
  OBVIOUS
<1>2. PICK m \in T : \A k \in T : m <= k
  BY <1>1, LeastNatural
<1>3. PICK x \in S : m = n - x
  OBVIOUS
<1>4. \A y \in S : x >= y
  <2>1. \A y \in S : n - y \in T /\ y \in Nat
    OBVIOUS
  <2>2. \A y \in S : n - x <= n - y /\ x \in Nat
    BY <1>2, <1>3, <2>1
  <2>. QED
    BY <2>1, <2>2
<1>5. \E z \in S : \A y \in S : z >= y
  BY <1>4
<1>. QED
  BY <1>5 DEF Max

(***************************************************************************)
(* The log.                                                                *)
(***************************************************************************)

\* Pages and transactions are numbered from 1: 0 stands for none.
LEMMA PagesAreNumbers == Pages \subseteq Nat \ {0} /\ Txns \subseteq Nat \ {0} /\ 0 \notin Txns
BY DurabilityAssumption DEF Pages, Txns

\* last_by_transaction.
LEMMA LastLsnFacts ==
    ASSUME NEW w \in Seq(Records), NEW t
    PROVE  /\ last_lsn(w, t) \in 0 .. Len(w)
           /\ \A i \in Lsns(w) : w[i].txn = t => i <= last_lsn(w, t)
           /\ last_lsn(w, t) # 0 => w[last_lsn(w, t)].txn = t
<1>. DEFINE S == {0} \cup {i \in Lsns(w) : w[i].txn = t}
<1>1. Len(w) \in Nat /\ S \subseteq 0 .. Len(w) /\ S # {}
  BY DEF Lsns
<1>2. Max(S) \in S /\ \A y \in S : Max(S) >= y
  BY <1>1, MaxFacts
<1>3. last_lsn(w, t) = Max(S)
  BY DEF last_lsn
<1>. QED
  BY <1>1, <1>2, <1>3

\* What is in the log after an append.
LEMMA AppendFacts ==
    ASSUME NEW w \in Seq(Records), NEW r \in Records
    PROVE  /\ Append(w, r) \in Seq(Records) /\ Len(Append(w, r)) = Len(w) + 1
           /\ \A i \in Lsns(w) : Append(w, r)[i] = w[i]
           /\ Append(w, r)[Len(w) + 1] = r
           /\ Lsns(Append(w, r)) = Lsns(w) \cup {Len(w) + 1}
           /\ Len(w) \in Nat
<1>1. /\ Append(w, r) \in Seq(Records) /\ Len(Append(w, r)) = Len(w) + 1
      /\ Append(w, r)[Len(w) + 1] = r
      /\ \A i \in 1 .. Len(w) : Append(w, r)[i] = w[i]
  BY AppendProperties
<1>2. Len(w) \in Nat
  BY LenProperties
<1>. QED
  BY <1>1, <1>2 DEF Lsns

\* The constructors make records.
LEMMA RecordsAre ==
    ASSUME NEW t \in Txns, NEW l \in Nat
    PROVE  /\ Begin(t) \in Records /\ Commit(t, l) \in Records /\ Abort(t, l) \in Records
           /\ \A p \in Pages, b, a \in Versions : PageUpdate(t, l, p, b, a) \in PageUpdates
           /\ \A b, a \in Nat : Resize(t, l, b, a) \in Resizes
           /\ \A p, n, next \in Nat, u \in Versions :
                 Compensation(t, l, p, u, n, next) \in Compensations
<1>1. Begin(t) \in Others /\ Commit(t, l) \in Others /\ Abort(t, l) \in Others
  BY DEF Begin, Commit, Abort, Others
<1>2. \A p \in Pages, b, a \in Versions : PageUpdate(t, l, p, b, a) \in PageUpdates
  BY DEF PageUpdate, PageUpdates
<1>3. \A b, a \in Nat : Resize(t, l, b, a) \in Resizes
  BY DEF Resize, Resizes
<1>4. \A p, n, next \in Nat, u \in Versions :
         Compensation(t, l, p, u, n, next) \in Compensations
  BY DEF Compensation, Compensations
<1>. QED
  BY <1>1, <1>2, <1>3, <1>4 DEF Records

\* The kind of a record says which fields it has, and only checkpoint records have no transaction.
LEMMA RecordKinds ==
    ASSUME NEW r \in Records
    PROVE  /\ r.kind = "PageUpdate" => r \in PageUpdates
           /\ r.kind = "Resize" => r \in Resizes
           /\ r.kind = "Compensation" => r \in Compensations
           /\ r.kind = "CheckpointBegin" => r \in CheckpointBegins
           /\ r.kind = "CheckpointEnd" => r \in CheckpointEnds
           /\ r.kind \in {"Begin", "Commit", "Abort"} => r \in Others
           /\ r.txn \in 0 .. MaxTxn
           /\ r.txn \in Txns => r \notin CheckpointBegins \cup CheckpointEnds /\ r.prev \in Nat
BY PagesAreNumbers, DurabilityAssumption
   DEF Records, PageUpdates, Resizes, Compensations, CheckpointBegins, CheckpointEnds, Others, Txns

\* A part of the log is only appended, only flushed, or cut off behind synced.
Appends(r) ==
    /\ wal' = Append(wal, r)
    /\ \/ UNCHANGED <<synced, durable_lsn>>
       \/ synced' = Len(wal) + 1 /\ durable_lsn' = Len(wal) + 1

Flushes ==
    /\ wal' = wal
    /\ \/ UNCHANGED <<synced, durable_lsn>>
       \/ synced' = Len(wal) /\ durable_lsn' = Len(wal)

\* append_locked with apply_record_state: the log is one record longer and the dirty page
\* table keeps its type.
LEMMA AppendKeeps ==
    ASSUME LogTypes, NEW r \in Records, append(r)
    PROVE  wal' = Append(wal, r) /\ dirty_pages' \in Positions
<1>1. Len(wal) + 1 \in Nat
  BY LenProperties DEF LogTypes
<1>. QED
  BY <1>1 DEF LogTypes, append, Positions

\* append_and_flush: the new record is durable when it returns.
LEMMA FlushedAppend ==
    ASSUME LogTypes, NEW r \in Records, append_and_flush(r)
    PROVE  /\ Appends(r) /\ LogTypes' /\ synced' = Len(wal) + 1 /\ durable_lsn' = Len(wal) + 1
<1>1. wal' = Append(wal, r) /\ dirty_pages' \in Positions
  BY AppendKeeps DEF append_and_flush
<1>2. synced' = Len(wal) + 1 /\ durable_lsn' = Len(wal) + 1 /\ Len(wal) \in Nat
  BY LenProperties DEF LogTypes, append_and_flush, sync
<1>. QED
  BY <1>1, <1>2, AppendFacts DEF LogTypes, Appends

\* An append alone leaves the certain prefix of the log as it was.
LEMMA UnflushedAppend ==
    ASSUME LogTypes, NEW r \in Records, append(r), UNCHANGED <<synced, durable_lsn>>
    PROVE  /\ Appends(r) /\ LogTypes'
<1>1. wal' = Append(wal, r) /\ dirty_pages' \in Positions
  BY AppendKeeps
<1>2. Len(wal) \in Nat
  BY LenProperties DEF LogTypes
<1>. QED
  BY <1>1, <1>2, AppendFacts DEF LogTypes, Appends

\* A terminal record is durable before mark_transaction_clean forgets the pages.
LEMMA Termination ==
    ASSUME LogTypes, NEW r \in Records, terminate(r)
    PROVE  /\ Appends(r) /\ LogTypes' /\ synced' = Len(wal) + 1 /\ durable_lsn' = Len(wal) + 1
<1>1. wal' = Append(wal, r) /\ dirty_pages' \in Positions
  BY DEF LogTypes, terminate, cleaned, Positions
<1>2. synced' = Len(wal) + 1 /\ durable_lsn' = Len(wal) + 1 /\ Len(wal) \in Nat
  BY LenProperties DEF LogTypes, terminate, sync
<1>. QED
  BY <1>1, <1>2, AppendFacts DEF LogTypes, Appends

\* Flushing through a record.
LEMMA FlushKeeps ==
    ASSUME LogTypes, NEW l, sync(l, Len(wal)), wal' = wal, dirty_pages' \in Positions
    PROVE  Flushes /\ LogTypes' /\ durable_lsn <= durable_lsn'
           /\ (l \in 0 .. Len(wal) => durable_lsn' >= l)
<1>1. Len(wal) \in Nat
  BY LenProperties DEF LogTypes
<1>. QED
  BY <1>1 DEF LogTypes, Flushes, sync

(***************************************************************************)
(* The data file.  OnlyLogged(f, l): no version of a page that a power     *)
(* loss may leave is newer than the log up to l.                           *)
(***************************************************************************)
OnlyLogged(f, l) ==
    \A p \in Pages : f.page[p].lsn <= l /\ \A v \in f.maybe[p] : v.lsn <= l

\* A page that cannot be read counts as older than every record.
LEMMA NoPageIsOld == NoPage \in Versions /\ NoPage.lsn = 0 /\ NoPage.val = -1
BY DEF NoPage, Versions

\* DiskManager::write_page keeps the type of the file and adds only the version it writes.
LEMMA WritePageFacts ==
    ASSUME NEW f \in Files, NEW p \in Nat, NEW v \in Versions
    PROVE  /\ WritePage(f, p, v) \in Files
           /\ \A l \in Nat : OnlyLogged(f, l) /\ v.lsn <= l => OnlyLogged(WritePage(f, p, v), l)
<1>. DEFINE g == WritePage(f, p, v)
<1>1. g.page = [f.page EXCEPT ![p] = v] /\ g.maybe = [f.maybe EXCEPT ![p] = @ \cup {v, NoPage}]
  BY DEF WritePage
<1>2. f.page \in [Pages -> Versions] /\ f.maybe \in [Pages -> SUBSET Versions]
  BY DEF Files
<1>3. g.page \in [Pages -> Versions]
  BY <1>1, <1>2
<1>4. g.maybe \in [Pages -> SUBSET Versions]
  <2>1. \A q \in Pages : f.maybe[q] \cup {v, NoPage} \in SUBSET Versions
    BY <1>2, NoPageIsOld
  <2>. QED
    BY <1>1, <1>2, <2>1
<1>5. g \in Files
  BY <1>3, <1>4 DEF Files, WritePage
<1>6. ASSUME NEW l \in Nat, OnlyLogged(f, l), v.lsn <= l
      PROVE  OnlyLogged(g, l)
  <2>1. ASSUME NEW q \in Pages
        PROVE  g.page[q].lsn <= l
    <3>1. g.page[q] = v \/ g.page[q] = f.page[q]
      BY <1>1, <1>2
    <3>. QED
      BY <3>1, <1>6 DEF OnlyLogged
  <2>2. ASSUME NEW q \in Pages, NEW u \in g.maybe[q]
        PROVE  u.lsn <= l
    <3>1. g.maybe[q] = IF q = p THEN f.maybe[q] \cup {v, NoPage} ELSE f.maybe[q]
      BY <1>1, <1>2
    <3>2. u \in f.maybe[q] \/ u = v \/ u = NoPage
      BY <3>1
    <3>. QED
      BY <3>2, <1>6, NoPageIsOld DEF OnlyLogged
  <2>. QED
    BY <2>1, <2>2 DEF OnlyLogged
<1>. HIDE DEF g
<1>7. QED
  BY <1>5, <1>6 DEF g

\* truncate_pages adds no version of a page newer than the ones there are.
LEMMA SetLenFacts ==
    ASSUME NEW f \in Files, NEW n \in Nat
    PROVE  /\ SetLen(f, n) \in Files
           /\ \A l \in Nat : OnlyLogged(f, l) => OnlyLogged(SetLen(f, n), l)
<1>. DEFINE g == SetLen(f, n)
<1>1. /\ g.page = [p \in Pages |-> IF p <= n THEN f.page[p] ELSE NoPage]
      /\ g.maybe = [p \in Pages |-> IF p <= n THEN f.maybe[p] ELSE f.maybe[p] \cup {NoPage}]
  BY DEF SetLen
<1>2. f.page \in [Pages -> Versions] /\ f.maybe \in [Pages -> SUBSET Versions]
  BY DEF Files
<1>3. g.page \in [Pages -> Versions] /\ g.maybe \in [Pages -> SUBSET Versions]
  BY <1>1, <1>2, NoPageIsOld
<1>4. g \in Files
  BY <1>3 DEF Files, SetLen
<1>5. ASSUME NEW l \in Nat, OnlyLogged(f, l)
      PROVE  OnlyLogged(g, l)
  BY <1>1, <1>5, NoPageIsOld DEF OnlyLogged
<1>. HIDE DEF g
<1>6. QED
  BY <1>4, <1>5 DEF g

\* Synchronising the file leaves of each page a version it had.
LEMMA SyncFileFacts ==
    ASSUME NEW f \in Files
    PROVE  /\ SyncFile(f) \in Files
           /\ \A l \in Nat : OnlyLogged(f, l) => OnlyLogged(SyncFile(f), l)
<1>1. SyncFile(f).maybe = [p \in Pages |-> {f.page[p]}] /\ SyncFile(f).page = f.page
  BY DEF SyncFile, Files
<1>2. SyncFile(f) \in Files
  BY DEF SyncFile, Files
<1>. QED
  BY <1>1, <1>2 DEF OnlyLogged

\* A power loss leaves of each page a version it may have had on the disk.
LEMMA PowerLossFacts ==
    ASSUME NEW f \in Files, NEW g \in AfterPowerLoss(f)
    PROVE  /\ g \in Files
           /\ \A l \in Nat : OnlyLogged(f, l) => OnlyLogged(g, l)
<1>. DEFINE All == UNION {f.maybe[p] : p \in Pages}
            Cut(h, n) == [p \in Pages |-> IF p <= n THEN h[p] ELSE NoPage]
            Left(pg, n) == [page |-> pg, cnt |-> n, maybe |-> [p \in Pages |-> {pg[p]}],
                            maybe_cnt |-> {n}]
<1>1. PICK n \in f.maybe_cnt, h \in [Pages -> All] :
          /\ \A p \in Pages : h[p] \in f.maybe[p]
          /\ g = Left(Cut(h, n), n)
  BY DEF AfterPowerLoss
<1>2. f.maybe \in [Pages -> SUBSET Versions] /\ n \in Nat
  BY DEF Files
<1>3. \A p \in Pages : Cut(h, n)[p] \in f.maybe[p] \cup {NoPage}
  BY <1>1
<1>4. \A p \in Pages : Cut(h, n)[p] \in Versions
  BY <1>2, <1>3, NoPageIsOld
<1>5. /\ g.page = Cut(h, n) /\ g.maybe = [p \in Pages |-> {Cut(h, n)[p]}]
      /\ g.cnt = n /\ g.maybe_cnt = {n} /\ DOMAIN Cut(h, n) = Pages
  BY <1>1
<1>6. Cut(h, n) \in [Pages -> Versions]
  BY <1>4, <1>5
<1>7. g \in Files
  <2>1. g = Left(Cut(h, n), n)
    BY <1>1
  <2>. HIDE DEF Cut
  <2>. QED
    BY <2>1, <1>2, <1>6 DEF Files
<1>. HIDE DEF Cut, Left
<1>8. ASSUME NEW l \in Nat, OnlyLogged(f, l)
      PROVE  OnlyLogged(g, l)
  <2>1. \A p \in Pages : Cut(h, n)[p].lsn <= l
    BY <1>3, <1>8, NoPageIsOld DEF OnlyLogged
  <2>. QED
    BY <1>5, <2>1 DEF OnlyLogged
<1>. QED
  BY <1>7, <1>8

\* A record is stamped with its own position at the latest.
Stamped(r, i) ==
    /\ r.kind = "PageUpdate" => r.after.lsn <= i
    /\ r.kind = "Compensation" => r.undo.lsn <= i

\* apply_compensation: the file it leaves is a file, and holds no version newer than its record.
LEMMA CompensationFacts ==
    ASSUME NEW f \in Files, NEW c \in Nat, NEW r \in Compensations, NEW i \in Nat, Stamped(r, i)
    PROVE  /\ apply_compensation(f, c, r, i).file \in Files
           /\ apply_compensation(f, c, r, i).cnt \in Nat
           /\ \A l \in Nat : OnlyLogged(f, l) /\ i <= l
                  => OnlyLogged(apply_compensation(f, c, r, i).file, l)
<1>. DEFINE n  == r.resulting_page_count
            f1 == IF n > c THEN SetLen(f, n) ELSE f
            write == r.undo # NoPage /\ page_needs_redo(f1, r.page, i)
            f2 == IF write THEN WritePage(f1, r.page, r.undo) ELSE f1
            c2 == IF write THEN Larger(Larger(c, n), r.page) ELSE Larger(c, n)
            f3 == IF n < c2 THEN SetLen(f2, n) ELSE f2
<1>1. n \in Nat /\ r.undo \in Versions /\ r.page \in Nat /\ r.undo.lsn <= i
  BY DEF Compensations, Stamped
<1>2. apply_compensation(f, c, r, i).file = f3 /\ apply_compensation(f, c, r, i).cnt = n
  <2>. DEFINE ok == ~(write /\ Sparse(f1, r.page))
  <2>1. apply_compensation(f, c, r, i) = [file |-> f3, cnt |-> n, ok |-> ok]
    BY Zenon DEF apply_compensation
  <2>. HIDE DEF f3, n, ok
  <2>. QED
    BY <2>1
<1>3. f1 \in Files /\ \A l \in Nat : OnlyLogged(f, l) => OnlyLogged(f1, l)
  BY <1>1, SetLenFacts
<1>. HIDE DEF f1
<1>4. f2 \in Files /\ \A l \in Nat : OnlyLogged(f1, l) /\ i <= l => OnlyLogged(f2, l)
  <2>1. r.undo.lsn \in Nat
    BY <1>1 DEF Versions
  <2>2. \A l \in Nat : i <= l => r.undo.lsn <= l
    BY <1>1, <2>1
  <2>3. /\ WritePage(f1, r.page, r.undo) \in Files
        /\ \A l \in Nat : OnlyLogged(f1, l) /\ r.undo.lsn <= l
               => OnlyLogged(WritePage(f1, r.page, r.undo), l)
    BY <1>1, <1>3, WritePageFacts
  <2>. QED
    BY <1>3, <2>2, <2>3
<1>. HIDE DEF f2
<1>5. f3 \in Files /\ \A l \in Nat : OnlyLogged(f2, l) => OnlyLogged(f3, l)
  BY <1>1, <1>4, SetLenFacts
<1>. HIDE DEF f3, n
<1>. QED
  BY <1>1, <1>2, <1>3, <1>4, <1>5

\* redo_record: the file it leaves is a file, and holds no version newer than its record.
LEMMA RedoFacts ==
    ASSUME NEW f \in Files, NEW c \in Nat, NEW r \in Records, NEW i \in Nat, Stamped(r, i)
    PROVE  /\ redo_record(f, c, r, i).file \in Files
           /\ redo_record(f, c, r, i).cnt \in Nat
           /\ \A l \in Nat : OnlyLogged(f, l) /\ i <= l
                  => OnlyLogged(redo_record(f, c, r, i).file, l)
<1>1. CASE r.kind = "PageUpdate" /\ r.after # NoPage /\ page_needs_redo(f, r.page, i)
  <2>. DEFINE ok == ~Sparse(f, r.page)
  <2>0. redo_record(f, c, r, i) = [file |-> WritePage(f, r.page, r.after),
                                   cnt |-> Larger(c, r.page), ok |-> ok]
    BY <1>1, Zenon DEF redo_record
  <2>. HIDE DEF ok
  <2>1. redo_record(f, c, r, i).file = WritePage(f, r.page, r.after)
        /\ redo_record(f, c, r, i).cnt = Larger(c, r.page)
    BY <2>0
  <2>2. r.page \in Nat /\ r.after \in Versions /\ r.after.lsn <= i /\ r.after.lsn \in Nat
    BY <1>1, RecordKinds, PagesAreNumbers DEF PageUpdates, Stamped, Versions
  <2>3. \A l \in Nat : i <= l => r.after.lsn <= l
    BY <2>2
  <2>. QED
    BY <2>1, <2>2, <2>3, WritePageFacts DEF Larger
<1>2. CASE r.kind = "Resize"
  <2>1. redo_record(f, c, r, i).file = SetLen(f, r.after_page_count)
        /\ redo_record(f, c, r, i).cnt = r.after_page_count
    BY <1>2 DEF redo_record
  <2>2. r.after_page_count \in Nat
    BY <1>2, RecordKinds DEF Resizes
  <2>. QED
    BY <2>1, <2>2, SetLenFacts
<1>3. CASE r.kind = "Compensation"
  <2>1. redo_record(f, c, r, i) = apply_compensation(f, c, r, i)
    BY <1>3 DEF redo_record
  <2>. QED
    BY <1>3, <2>1, RecordKinds, CompensationFacts
<1>4. CASE /\ ~(r.kind = "PageUpdate" /\ r.after # NoPage /\ page_needs_redo(f, r.page, i))
           /\ r.kind # "Resize" /\ r.kind # "Compensation"
  <2>1. redo_record(f, c, r, i).file = f /\ redo_record(f, c, r, i).cnt = c
    BY <1>4 DEF redo_record
  <2>. QED
    BY <2>1
<1>. QED
  BY <1>1, <1>2, <1>3, <1>4

(***************************************************************************)
(* What the records of the log say of each other, and who refers to them.  *)
(***************************************************************************)
Fits(r, w, i) ==
    /\ Stamped(r, i)
    /\ r.txn # 0 => r.prev < i
    /\ r.kind = "Compensation" => r.undo_next_lsn < i
    /\ r.kind = "CheckpointEnd" =>
          r.begin_lsn \in 1 .. i - 1 /\ w[r.begin_lsn].kind = "CheckpointBegin"

Linked(w) == \A i \in Lsns(w) : Fits(w[i], w, i)

CheckpointAt(w, l) == l \in Lsns(w) /\ w[l].kind = "CheckpointBegin"

Pointers ==
    /\ Linked(wal)
    /\ checkpoint.step = "begun" => CheckpointAt(wal, checkpoint.lsn)
    /\ rec # Idle => /\ rec.pos >= 1 /\ rec.last <= Len(wal)
                     /\ \A t \in Txns : rec.undo[t] <= Len(wal)
    /\ rec.step = "checkpoint_end" => CheckpointAt(wal, rec.pos)

\* Nothing of the log is lost.
Grows ==
    /\ Lsns(wal) \subseteq Lsns(wal') /\ Len(wal) <= Len(wal')
    /\ \A i \in Lsns(wal) : wal'[i] = wal[i]

\* Every record of the log keeps its LSN when another is appended.
LEMMA AppendGrows ==
    ASSUME wal \in Seq(Records), NEW r \in Records, wal' = Append(wal, r)
    PROVE  /\ Grows /\ wal' \in Seq(Records) /\ Len(wal) \in Nat /\ Len(wal') = Len(wal) + 1
           /\ Lsns(wal') = Lsns(wal) \cup {Len(wal) + 1} /\ wal'[Len(wal) + 1] = r
<1>1. /\ wal' \in Seq(Records) /\ Len(wal') = Len(wal) + 1
      /\ \A i \in Lsns(wal) : wal'[i] = wal[i]
      /\ wal'[Len(wal) + 1] = r /\ Lsns(wal') = Lsns(wal) \cup {Len(wal) + 1}
      /\ Len(wal) \in Nat
  BY AppendFacts
<1>2. Len(wal) <= Len(wal') /\ Lsns(wal) \subseteq Lsns(wal')
  BY <1>1
<1>3. Grows
  BY <1>1, <1>2, Zenon DEF Grows
<1>. QED
  BY <1>1, <1>3, Zenon

\* A record that refers to earlier ones only may be appended.
LEMMA AppendLinks ==
    ASSUME wal \in Seq(Records), Linked(wal), NEW r \in Records, wal' = Append(wal, r),
           Fits(r, wal, Len(wal) + 1)
    PROVE  Linked(wal)'
<1>1. /\ Grows /\ Len(wal) \in Nat
      /\ Lsns(wal') = Lsns(wal) \cup {Len(wal) + 1} /\ wal'[Len(wal) + 1] = r
  BY AppendGrows
<1>2. ASSUME NEW i \in Lsns(wal)
      PROVE  Fits(wal'[i], wal', i)
  <2>1. wal'[i] = wal[i] /\ Fits(wal[i], wal, i)
    BY <1>1 DEF Grows, Linked
  <2>2. 1 .. i - 1 \subseteq Lsns(wal)
    BY <1>1 DEF Lsns
  <2>. QED
    BY <1>1, <2>1, <2>2 DEF Fits, Grows
<1>3. Fits(r, wal', Len(wal) + 1)
  <2>1. 1 .. (Len(wal) + 1) - 1 \subseteq Lsns(wal)
    BY <1>1 DEF Lsns
  <2>. QED
    BY <1>1, <2>1 DEF Fits, Grows
<1>. QED
  BY <1>1, <1>2, <1>3 DEF Linked

\* A power loss cuts the log off behind synced.
LEMMA PrefixFacts ==
    ASSUME wal \in Seq(Records), Linked(wal), NEW n \in 0 .. Len(wal), wal' = SubSeq(wal, 1, n)
    PROVE  /\ wal' \in Seq(Records) /\ Len(wal') = n /\ Linked(wal)'
           /\ Lsns(wal') \subseteq Lsns(wal) /\ \A i \in 1 .. n : wal'[i] = wal[i]
<1>1. Len(wal) \in Nat /\ n \in Nat
  BY LenProperties
<1>2. /\ wal' \in Seq(Records) /\ Len(wal') = n
      /\ \A i \in 1 .. n : wal'[i] = wal[i]
  <2>1. \A i \in 1 .. n : wal[i] \in Records
    BY <1>1, ElementOfSeq
  <2>. QED
    BY <1>1, <2>1, SubSeqProperties
<1>3. ASSUME NEW i \in 1 .. n
      PROVE  Fits(wal'[i], wal', i)
  <2>1. wal'[i] = wal[i] /\ Fits(wal[i], wal, i)
    BY <1>1, <1>2 DEF Linked, Lsns
  <2>2. 1 .. i - 1 \subseteq 1 .. n
    BY <1>1
  <2>. QED
    BY <1>2, <2>1, <2>2 DEF Fits
<1>. QED
  BY <1>1, <1>2, <1>3 DEF Linked, Lsns

(***************************************************************************)
(* What a restart derives from the log.                                    *)
(***************************************************************************)

\* The LSNs of a log are the positions of its records.
LEMMA LsnsAre ==
    ASSUME NEW w \in Seq(Records)
    PROVE  /\ Len(w) \in Nat /\ Lsns(w) \subseteq 1 .. Len(w) /\ Lsns(w) \subseteq Nat \ {0}
           /\ \A i \in Lsns(w) : w[i] \in Records
BY LenProperties, ElementOfSeq DEF Lsns

\* WalManager::open.
LEMMA ReplayedDirtyIs ==
    ASSUME NEW w \in Seq(Records)
    PROVE  replayed_dirty(w) \in Positions
<1>. DEFINE Touched(t, p, j) == \E k \in 1 .. j : IsPageRecord(w[k]) /\ w[k].page = p /\ w[k].txn = t
            Cleared(p) == Max({0} \cup {j \in Lsns(w) : IsTerminal(w[j]) /\ Touched(w[j].txn, p, j)})
            Entries(p) == {i \in Lsns(w) : IsPageRecord(w[i]) /\ w[i].page = p /\ i > Cleared(p)}
            Entry(p) == IF Entries(p) = {} THEN 0 ELSE Min(Entries(p))
<1>1. ASSUME NEW p \in Pages
      PROVE  Entry(p) \in Nat
  <2>1. Entries(p) \subseteq Nat
    BY LsnsAre
  <2>. HIDE DEF Entries
  <2>2. Entries(p) # {} => Min(Entries(p)) \in Entries(p)
    BY <2>1, MinFacts
  <2>. QED
    BY <2>1, <2>2
<1>2. replayed_dirty(w) = [p \in Pages |-> Entry(p)]
  BY DEF replayed_dirty
<1>. HIDE DEF Entry
<1>. QED
  BY <1>1, <1>2 DEF Positions

\* find_last_complete_checkpoint.
LEMMA LastCheckpointIs ==
    ASSUME NEW w \in Seq(Records), Linked(w)
    PROVE  LET c == find_last_complete_checkpoint(w)
           IN  c \in Nat /\ (c # 0 => CheckpointAt(w, c))
<1>. DEFINE ends == {i \in Lsns(w) : w[i].kind = "CheckpointEnd"}
<1>1. CASE ends = {}
  <2>1. find_last_complete_checkpoint(w) = 0
    BY <1>1 DEF find_last_complete_checkpoint
  <2>. QED
    BY <2>1
<1>2. CASE ends # {}
  <2>1. ends \subseteq 0 .. Len(w) /\ Len(w) \in Nat
    BY LsnsAre
  <2>2. Max(ends) \in ends
    BY <1>2, <2>1, MaxFacts
  <2>. DEFINE e == Max(ends)
  <2>3. e \in Lsns(w) /\ w[e].kind = "CheckpointEnd"
    BY <2>2
  <2>4. find_last_complete_checkpoint(w) = w[e].begin_lsn
    BY <1>2 DEF find_last_complete_checkpoint
  <2>. HIDE DEF e
  <2>5. w[e].begin_lsn \in 1 .. e - 1 /\ w[w[e].begin_lsn].kind = "CheckpointBegin"
    BY <2>3 DEF Linked, Fits
  <2>6. w[e].begin_lsn \in Lsns(w) /\ w[e].begin_lsn \in Nat
    BY <2>3, <2>5, <2>1, LsnsAre DEF Lsns
  <2>. QED
    BY <2>4, <2>5, <2>6 DEF CheckpointAt
<1>. QED
  BY <1>1, <1>2

\* redo_start_lsn.
LEMMA RedoStartIs ==
    ASSUME NEW w \in Seq(Records), Linked(w)
    PROVE  redo_start(w) \in Nat \ {0}
<1>. DEFINE c == find_last_complete_checkpoint(w)
            Later(p) == {i \in c + 1 .. Len(w) : IsPageRecord(w[i]) /\ w[i].page = p}
            AtCheckpoint(p) == IF c = 0 THEN 0 ELSE w[c].dirty_pages[p]
            Entry(p) == IF AtCheckpoint(p) # 0 THEN AtCheckpoint(p)
                        ELSE IF Later(p) # {} THEN Min(Later(p)) ELSE 0
<1>1. c \in Nat /\ (c # 0 => CheckpointAt(w, c)) /\ Len(w) \in Nat
  BY LastCheckpointIs, LsnsAre
<1>2. analyzed_dirty(w) = [p \in Pages |-> Entry(p)]
  BY DEF analyzed_dirty
<1>. HIDE DEF c
<1>3. ASSUME NEW p \in Pages
      PROVE  Entry(p) \in Nat
  <2>1. AtCheckpoint(p) \in Nat
    <3>1. CASE c # 0
      <4>1. w[c] \in CheckpointBegins
        BY <1>1, <3>1, LsnsAre, RecordKinds DEF CheckpointAt
      <4>. QED
        BY <3>1, <4>1 DEF CheckpointBegins, Positions
    <3>. QED
      BY <3>1
  <2>2. Later(p) \subseteq Nat
    BY <1>1
  <2>. HIDE DEF Later, AtCheckpoint
  <2>3. Later(p) # {} => Min(Later(p)) \in Later(p)
    BY <2>2, MinFacts
  <2>. QED
    BY <2>1, <2>2, <2>3
<1>. HIDE DEF Entry
<1>. DEFINE starts == {analyzed_dirty(w)[p] : p \in Pages} \ {0}
<1>4. starts \subseteq Nat \ {0}
  BY <1>2, <1>3
<1>5. redo_start(w) = IF starts = {} THEN Len(w) + 1 ELSE Min(starts)
  BY DEF redo_start
<1>. HIDE DEF starts
<1>6. starts # {} => Min(starts) \in starts
  BY <1>4, MinFacts
<1>7. CASE starts = {}
  BY <1>1, <1>5, <1>7
<1>8. CASE starts # {}
  <2>1. Min(starts) \in Nat \ {0}
    BY <1>4, <1>6, <1>8
  <2>. QED
    BY <1>5, <1>8, <2>1
<1>. QED
  BY <1>7, <1>8

\* The page count of the last Resize record is a number whatever its transaction came to.
LEMMA FinalPageCountIs ==
    ASSUME NEW w \in Seq(Records), NEW n \in Nat
    PROVE  final_page_count(w, n) \in Nat
<1>. DEFINE resizes == {i \in Lsns(w) : w[i].kind = "Resize"}
            m == Max(resizes)
<1>1. CASE resizes # {}
  <2>1. resizes \subseteq 0 .. Len(w) /\ Len(w) \in Nat
    BY LsnsAre
  <2>2. m \in resizes
    BY <1>1, <2>1, MaxFacts
  <2>3. final_page_count(w, n) = IF Has(w, w[m].txn, "Commit") THEN w[m].after_page_count
                                 ELSE w[m].before_page_count
    BY <1>1 DEF final_page_count
  <2>. HIDE DEF m
  <2>4. w[m] \in Resizes
    BY <2>2, LsnsAre, RecordKinds
  <2>. QED
    BY <2>3, <2>4 DEF Resizes
<1>2. CASE resizes = {}
  BY <1>2 DEF final_page_count
<1>. QED
  BY <1>1, <1>2

(***************************************************************************)
(* The core of the invariant: types, who is busy with what, and that the   *)
(* pages of the running commit are logged before they are written.         *)
(***************************************************************************)
Early == {"log", "logged", "status"}
Late  == {"apply", "resized", "commit", "commit_flush", "publish"}

Owners ==
    /\ mode # "up" => /\ job = Idle /\ checkpoint = Idle
                      /\ \A t \in Txns : phase[t] \in {"none", "gone"}
    /\ rec # Idle => mode \in {"recovering", "failed"}
    /\ job # Idle => phase[job.txn] = "persist"
    /\ \A t \in Txns : phase[t] = "persist" => job # Idle /\ job.txn = t

\* Every session that has begun is in the log.
Begun == \A t \in Txns : phase[t] \notin {"none", "gone"} => \E i \in Lsns(wal) : wal[i].txn = t

Logged(w, t, p) ==
    \E i \in Lsns(w) : w[i].kind = "PageUpdate" /\ w[i].txn = t /\ w[i].page = p

PagesLogged ==
    /\ job.step \in Early => \A p \in Deltas(file, job.db) \ job.todo : Logged(wal, job.txn, p)
    /\ job.step \in {"logged", "status"} => job.todo = {}
    /\ job.step = "apply" => \A p \in job.todo : Logged(wal, job.txn, p)

Core == Types /\ Pointers /\ Owners /\ Begun /\ PagesLogged

\* The idle job is none of the jobs of persist_candidate.
LEMMA IdleIs == Idle.step = "idle" /\ \A j \in Jobs : j # Idle /\ j.step \in Early \cup Late
<1>1. Idle.step = "idle"
  BY DEF Idle
<1>2. ASSUME NEW j \in Jobs
      PROVE  j # Idle /\ j.step \in Early \cup Late
  <2>1. j.step \in JobSteps
    BY DEF Jobs
  <2>. QED
    BY <1>1, <2>1 DEF JobSteps, Early, Late
<1>. QED
  BY <1>1, <1>2

\* The job of a step that names its stage.
LEMMA JobIs ==
    ASSUME Types, Owners, job.step # "idle"
    PROVE  /\ job \in Jobs /\ job # Idle /\ job.txn \in Txns /\ phase[job.txn] = "persist"
           /\ mode = "up" /\ rec = Idle /\ job.db \in Dbs /\ job.todo \subseteq Pages
           /\ job.before \in Nat
<1>1. job \in Jobs
  BY IdleIs DEF Types, SessionTypes
<1>. QED
  BY <1>1, IdleIs DEF Owners, Jobs

\* A log that is not touched counts as one that grew by nothing.
LEMMA StandsStill ==
    ASSUME wal \in Seq(Records), wal' = wal
    PROVE  Grows
<1>1. Len(wal) \in Nat
  BY LenProperties
<1>. QED
  BY <1>1 DEF Grows

\* What refers into the log goes on to refer to the same records while the log grows.
LEMMA PointersStay ==
    ASSUME Types, Pointers, Grows, Linked(wal)', wal' \in Seq(Records),
           UNCHANGED <<checkpoint, rec>>
    PROVE  Pointers'
<1>1. \A l : CheckpointAt(wal, l) => CheckpointAt(wal', l)
  BY DEF Grows, CheckpointAt
<1>2. Len(wal) \in Nat /\ Len(wal') \in Nat /\ Len(wal) <= Len(wal')
  BY LenProperties DEF Types, LogTypes, Grows
<1>3. checkpoint'.step = "begun" => CheckpointAt(wal', checkpoint'.lsn)
  BY <1>1 DEF Pointers
<1>4. rec'.step = "checkpoint_end" => CheckpointAt(wal', rec'.pos)
  BY <1>1 DEF Pointers
<1>5. rec' # Idle => /\ rec'.pos >= 1 /\ rec'.last <= Len(wal')
                     /\ \A t \in Txns : rec'.undo[t] <= Len(wal')
  <2>1. CASE rec # Idle
    <3>1. rec \in Recoveries
      BY <2>1 DEF Types
    <3>2. rec.last \in Nat /\ \A t \in Txns : rec.undo[t] \in Nat
      BY <3>1 DEF Recoveries
    <3>. QED
      BY <1>2, <3>2 DEF Pointers
  <2>. QED
    BY <2>1
<1>. QED
  BY <1>3, <1>4, <1>5 DEF Pointers

\* While the running commit and the file stand still its pages stay logged.
LEMMA PagesLoggedStay ==
    ASSUME PagesLogged, Grows, job' = job, file' = file \/ job.step = "idle"
    PROVE  PagesLogged'
<1>1. \A t, p : Logged(wal, t, p) => Logged(wal', t, p)
  BY DEF Logged, Grows
<1>2. CASE job.step = "idle"
  BY <1>2 DEF PagesLogged, Early
<1>3. CASE file' = file
  BY <1>1, <1>3 DEF PagesLogged
<1>. QED
  BY <1>2, <1>3

\* A session other than the committing one moves on.
LEMMA PhaseMoves ==
    ASSUME Types, Owners, Begun, NEW t \in Txns, NEW v \in Phases \ {"persist"},
           mode = "up", phase[t] # "persist", SetPhase(t, v), Grows,
           UNCHANGED <<mode, job, checkpoint, rec>>,
           \E i \in Lsns(wal') : wal'[i].txn = t
    PROVE  Owners' /\ Begun' /\ phase' \in [Txns -> Phases]
<1>1. /\ phase' \in [Txns -> Phases] /\ phase'[t] = v
      /\ \A u \in Txns \ {t} : phase'[u] = phase[u]
  BY DEF SetPhase, Types, SessionTypes
<1>2. job # Idle => job.txn \in Txns \ {t}
  <2>1. job # Idle => job \in Jobs
    BY DEF Types, SessionTypes
  <2>. QED
    BY <2>1 DEF Owners, Jobs
<1>3. Owners'
  BY <1>1, <1>2 DEF Owners
<1>4. Begun'
  BY <1>1 DEF Begun, Grows
<1>. QED
  BY <1>1, <1>3, <1>4

\* Nobody moves.
LEMMA OwnersStay ==
    ASSUME Owners, Begun, Grows, UNCHANGED <<mode, phase, job, checkpoint, rec>>
    PROVE  Owners' /\ Begun'
BY DEF Owners, Begun, Grows

(***************************************************************************)
(* Sessions keep the core.                                                 *)
(***************************************************************************)
\* A record without checkpoint, image or compensation fits at the end of the log.
LEMMA PlainFits ==
    ASSUME wal \in Seq(Records), NEW t \in Txns, NEW l \in 0 .. Len(wal)
    PROVE  /\ Fits(Begin(t), wal, Len(wal) + 1) /\ Fits(Commit(t, l), wal, Len(wal) + 1)
           /\ Fits(Abort(t, l), wal, Len(wal) + 1)
           /\ \A b, a : Fits(Resize(t, l, b, a), wal, Len(wal) + 1)
<1>1. Len(wal) \in Nat
  BY LenProperties
<1>. QED
  BY <1>1 DEF Fits, Stamped, Begin, Commit, Abort, Resize

\* The log part of the core, for a record of a transaction that is added to it.
LEMMA LogGrows ==
    ASSUME Core, NEW r \in Records, wal' = Append(wal, r), LogTypes',
           Fits(r, wal, Len(wal) + 1), UNCHANGED <<checkpoint, rec>>
    PROVE  Grows /\ Pointers' /\ \E i \in Lsns(wal') : wal'[i].txn = r.txn
<1>1. wal \in Seq(Records) /\ Linked(wal)
  BY DEF Core, Types, LogTypes, Pointers
<1>2. Grows /\ wal' \in Seq(Records) /\ Linked(wal)'
  BY <1>1, AppendGrows, AppendLinks
<1>3. Pointers'
  BY <1>2, PointersStay DEF Core
<1>4. wal'[Len(wal) + 1] = r /\ Len(wal) + 1 \in Lsns(wal')
  BY <1>1, AppendGrows
<1>. QED
  BY <1>2, <1>3, <1>4

\* A session logs a record, then its phase changes.
LEMMA SessionLogs ==
    ASSUME Core, NEW t \in Txns, NEW r \in {Begin(t), Abort(t, last_lsn(wal, t)),
                                            Commit(t, last_lsn(wal, t))},
           Appends(r), LogTypes', NEW v \in Phases \ {"persist"},
           mode = "up", phase[t] # "persist",
           phase' = phase \/ SetPhase(t, v),
           UNCHANGED <<file, statusVars, mode, mem, job, checkpoint, rec>>,
           acked' \subseteq acked \cup {t}
    PROVE  Core'
<1>1. /\ wal' = Append(wal, r) /\ r \in Records /\ r.txn = t /\ Fits(r, wal, Len(wal) + 1)
  <2>1. last_lsn(wal, t) \in 0 .. Len(wal) /\ Len(wal) \in Nat /\ wal \in Seq(Records)
    BY LastLsnFacts, LenProperties DEF Core, Types, LogTypes
  <2>2. /\ Begin(t) \in Records /\ Commit(t, last_lsn(wal, t)) \in Records
        /\ Abort(t, last_lsn(wal, t)) \in Records
    BY <2>1, RecordsAre
  <2>3. r.txn = t
    BY DEF Begin, Commit, Abort
  <2>. QED
    BY <2>1, <2>2, <2>3, PlainFits DEF Appends
<1>2. Grows /\ Pointers' /\ \E i \in Lsns(wal') : wal'[i].txn = t
  BY <1>1, LogGrows
<1>3. Owners' /\ Begun' /\ phase' \in [Txns -> Phases]
  <2>1. CASE phase' = phase
    BY <1>2, <2>1, OwnersStay DEF Core, Types, SessionTypes
  <2>2. CASE SetPhase(t, v)
    BY <1>2, <2>2, PhaseMoves DEF Core
  <2>. QED
    BY <2>1, <2>2
<1>4. PagesLogged'
  BY <1>2, PagesLoggedStay DEF Core
<1>5. Types'
  BY <1>3 DEF Core, Types, StatusTypes, SessionTypes, statusVars
<1>. QED
  BY <1>2, <1>3, <1>4, <1>5 DEF Core

\* A session changes its status, then its phase.
LEMMA SessionMoves ==
    ASSUME Core, NEW t \in Txns, NEW v \in Phases \ {"persist"},
           mode = "up", phase[t] \notin {"none", "gone", "persist"}, SetPhase(t, v), StatusTypes',
           UNCHANGED <<walVars, file, mode, mem, job, checkpoint, rec>>, acked' = acked
    PROVE  Core'
<1>1. Grows /\ wal' = wal /\ LogTypes'
  BY StandsStill DEF Core, Types, LogTypes, walVars
<1>2. \E i \in Lsns(wal') : wal'[i].txn = t
  BY <1>1 DEF Core, Begun
<1>3. Owners' /\ Begun' /\ phase' \in [Txns -> Phases]
  BY <1>1, <1>2, PhaseMoves DEF Core
<1>4. PagesLogged' /\ Pointers'
  BY <1>1, PagesLoggedStay, PointersStay DEF Core, LogTypes, Pointers
<1>5. Types'
  BY <1>1, <1>3 DEF Core, Types, SessionTypes
<1>. QED
  BY <1>3, <1>4, <1>5 DEF Core

\* The mode of a session that has begun.
LEMMA BusyIsUp ==
    ASSUME Core, NEW t \in Txns, phase[t] \notin {"none", "gone"}
    PROVE  mode = "up" /\ rec = Idle
BY DEF Core, Owners

\* A transaction that may begin has no session yet: the log does not know its id.
LEMMA CanBeginIsIdle ==
    ASSUME Core, NEW t \in Txns, CanBegin(t)
    PROVE  mode = "up" /\ phase[t] \in {"none", "gone"}
<1>1. \A i \in Lsns(wal) : wal[i].txn < t
  BY DEF CanBegin
<1>2. t \in Nat
  BY PagesAreNumbers
<1>3. ~ \E i \in Lsns(wal) : wal[i].txn = t
  BY <1>1, <1>2
<1>. QED
  BY <1>3 DEF Core, Begun, CanBegin

\* write_document_atomic: the document is the candidate, with the types of the state.
LEMMA WriteDocumentIs ==
    ASSUME write_document_atomic, status' \in [Txns -> Statuses],
           next_transaction_id' \in Nat, retained_transaction_floor' \in Nat
    PROVE  /\ StatusTypes' /\ document'.status = status'
           /\ document'.next = next_transaction_id' /\ document'.floor = retained_transaction_floor'
<1>1. document' = [status |-> status', next |-> next_transaction_id',
                   floor |-> retained_transaction_floor']
  BY DEF write_document_atomic
<1>. QED
  BY <1>1 DEF StatusTypes

\* TransactionStatusStore::finish keeps the types of the statuses.
LEMMA FinishIs ==
    ASSUME StatusTypes, NEW t \in Txns, NEW v \in Statuses, finish(t, v)
    PROVE  StatusTypes'
<1>1. status' \in [Txns -> Statuses] /\ write_document_atomic
      /\ UNCHANGED <<next_transaction_id, retained_transaction_floor>>
  BY DEF finish, StatusTypes
<1>. QED
  BY <1>1, WriteDocumentIs DEF StatusTypes

\* begin_durable, commit_empty, abort_active and their failures keep the core.
LEMMA CoreSession ==
    ASSUME Core, NEW t \in Txns,
           \/ begin_transaction(t) \/ begin_durable(t) \/ commit_empty_status(t)
           \/ commit_empty_wal(t) \/ abort_wal(t) \/ abort_status(t)
           \/ begin_fails_flush(t) \/ begin_fails_status(t) \/ abort_fails(t)
    PROVE  Core'
<1>. DEFINE l == last_lsn(wal, t)
<1>0. /\ LogTypes /\ StatusTypes /\ wal \in Seq(Records)
      /\ Begin(t) \in Records /\ Commit(t, l) \in Records /\ Abort(t, l) \in Records
      /\ {"begun", "active", "done", "aborting", "empty", "lost"} \subseteq Phases \ {"persist"}
  <2>1. wal \in Seq(Records) /\ l \in Nat
    BY LastLsnFacts DEF Core, Types, LogTypes
  <2>. QED
    BY <2>1, RecordsAre DEF Core, Types, Phases
<1>1. CASE begin_transaction(t)
  <2>1. mode = "up" /\ phase[t] # "persist"
    BY <1>1, CanBeginIsIdle DEF begin_transaction
  <2>2. Appends(Begin(t)) /\ LogTypes'
    BY <1>0, <1>1, FlushedAppend DEF begin_transaction
  <2>3. SetPhase(t, "begun")
    BY <1>1 DEF begin_transaction
  <2>. QED
    BY <1>0, <1>1, <2>1, <2>2, <2>3, SessionLogs DEF begin_transaction
<1>2. CASE begin_durable(t)
  <2>1. mode = "up" /\ phase[t] = "begun"
    BY <1>2, BusyIsUp DEF begin_durable, allocate_transaction
  <2>2. StatusTypes'
    <3>1. t + 1 \in Nat /\ status' \in [Txns -> Statuses]
      BY <1>0, <1>2, PagesAreNumbers DEF begin_durable, allocate_transaction, StatusTypes, Statuses
    <3>. QED
      BY <1>0, <1>2, <3>1, WriteDocumentIs DEF begin_durable, allocate_transaction, StatusTypes
  <2>3. SetPhase(t, "active")
    BY <1>2 DEF begin_durable
  <2>. QED
    BY <1>0, <1>2, <2>1, <2>2, <2>3, SessionMoves DEF begin_durable
<1>3. CASE commit_empty_status(t)
  <2>1. mode = "up" /\ phase[t] = "active" /\ SetPhase(t, "empty")
    BY <1>3, BusyIsUp DEF commit_empty_status
  <2>2. StatusTypes'
    BY <1>0, <1>3, FinishIs DEF commit_empty_status, Statuses
  <2>. QED
    BY <1>0, <1>3, <2>1, <2>2, SessionMoves DEF commit_empty_status
<1>4. CASE commit_empty_wal(t)
  <2>1. mode = "up" /\ phase[t] = "empty" /\ SetPhase(t, "done")
    BY <1>4, BusyIsUp DEF commit_empty_wal
  <2>2. Appends(Commit(t, l)) /\ LogTypes'
    BY <1>0, <1>4, Termination DEF commit_empty_wal
  <2>. QED
    BY <1>0, <1>4, <2>1, <2>2, SessionLogs DEF commit_empty_wal
<1>5. CASE abort_wal(t)
  <2>1. mode = "up" /\ phase[t] # "persist" /\ SetPhase(t, "aborting")
    BY <1>5, BusyIsUp DEF abort_wal
  <2>2. Appends(Abort(t, l)) /\ LogTypes'
    BY <1>0, <1>5, Termination DEF abort_wal
  <2>. QED
    BY <1>0, <1>5, <2>1, <2>2, SessionLogs DEF abort_wal
<1>6. CASE abort_status(t)
  <2>1. mode = "up" /\ phase[t] = "aborting" /\ SetPhase(t, "done")
    BY <1>6, BusyIsUp DEF abort_status
  <2>2. StatusTypes'
    BY <1>0, <1>6, FinishIs DEF abort_status, Statuses
  <2>. QED
    BY <1>0, <1>6, <2>1, <2>2, SessionMoves DEF abort_status
<1>7. CASE begin_fails_flush(t)
  <2>1. mode = "up" /\ phase[t] # "persist"
    BY <1>7, CanBeginIsIdle DEF begin_fails_flush
  <2>2. Appends(Begin(t)) /\ LogTypes'
    BY <1>0, <1>7, UnflushedAppend DEF begin_fails_flush
  <2>. QED
    BY <1>0, <1>7, <2>1, <2>2, SessionLogs DEF begin_fails_flush
<1>8. CASE begin_fails_status(t)
  <2>1. mode = "up" /\ phase[t] = "begun" /\ SetPhase(t, "lost")
    BY <1>8, BusyIsUp DEF begin_fails_status, allocate_transaction
  <2>2. StatusTypes'
    BY <1>0, <1>8, PagesAreNumbers
       DEF begin_fails_status, allocate_transaction, StatusTypes, Statuses
  <2>. QED
    BY <1>0, <1>8, <2>1, <2>2, SessionMoves DEF begin_fails_status
<1>9. CASE abort_fails(t)
  <2>1. mode = "up" /\ phase[t] \notin {"none", "gone", "persist"} /\ SetPhase(t, "lost")
    BY <1>9, BusyIsUp DEF abort_fails
  <2>2. CASE wal' = Append(wal, Abort(t, l))
    <3>1. Appends(Abort(t, l)) /\ LogTypes'
      <4>1. /\ wal' \in Seq(Records) /\ Len(wal') = Len(wal) + 1 /\ Len(wal) \in Nat
        BY <1>0, <2>2, AppendFacts
      <4>2. UNCHANGED <<synced, durable_lsn, dirty_pages>>
        BY <1>9 DEF abort_fails
      <4>. QED
        BY <1>0, <2>2, <4>1, <4>2 DEF Appends, LogTypes
    <3>. QED
      BY <1>0, <1>9, <2>1, <3>1, SessionLogs DEF abort_fails
  <2>3. CASE UNCHANGED wal
    <3>1. StatusTypes'
      BY <1>0, <1>9 DEF abort_fails, StatusTypes, statusVars
    <3>. QED
      BY <1>0, <1>9, <2>1, <2>3, <3>1, SessionMoves DEF abort_fails, walVars
  <2>. QED
    BY <1>9, <2>2, <2>3 DEF abort_fails
<1>. QED
  BY <1>1, <1>2, <1>3, <1>4, <1>5, <1>6, <1>7, <1>8, <1>9

\* compact_before keeps the core.
LEMMA CoreCompact ==
    ASSUME Core, NEW h \in 1 .. MaxTxn + 1, compact_before(h)
    PROVE  Core'
<1>1. /\ h \in Nat /\ StatusTypes
      /\ status' = [t \in Txns |-> IF t < h /\ status[t] # "InProgress" THEN "None" ELSE status[t]]
      /\ retained_transaction_floor' = h /\ write_document_atomic
      /\ UNCHANGED <<walVars, file, next_transaction_id, mode, phase, mem, job, checkpoint, rec,
                     acked>>
  BY DurabilityAssumption DEF compact_before, Core, Types
<1>2. status' \in [Txns -> Statuses]
  BY <1>1 DEF StatusTypes, Statuses
<1>3. StatusTypes'
  BY <1>1, <1>2, WriteDocumentIs DEF StatusTypes
<1>4. Grows /\ LogTypes'
  BY <1>1, StandsStill DEF Core, Types, LogTypes, walVars
<1>5. Owners' /\ Begun'
  BY <1>1, <1>4, OwnersStay DEF Core
<1>6. PagesLogged' /\ Pointers'
  BY <1>1, <1>4, PagesLoggedStay, PointersStay DEF Core, LogTypes, Pointers, walVars
<1>7. Types'
  BY <1>1, <1>3, <1>4 DEF Core, Types, SessionTypes
<1>. QED
  BY <1>5, <1>6, <1>7 DEF Core

(***************************************************************************)
(* persist_candidate keeps the core.                                       *)
(***************************************************************************)

\* build_snapshot makes a database of a database.
LEMMA CandidatesAre ==
    ASSUME NEW t \in Txns, NEW d \in Dbs
    PROVE  Candidates(t, d) \subseteq Dbs
<1>1. t \in Int /\ PageCounts \subseteq Nat /\ d.val \in [Pages -> Int]
  BY PagesAreNumbers, DurabilityAssumption DEF Dbs
<1>2. ASSUME NEW n \in PageCounts, NEW W \in SUBSET Pages
      PROVE  [cnt |-> n,
              val |-> [p \in Pages |-> CASE p > n -> -1
                                         [] p <= n /\ (p \in W \/ p > d.cnt) -> t
                                         [] OTHER -> d.val[p]]] \in Dbs
  <2>1. \A p \in Pages : (CASE p > n -> -1
                            [] p <= n /\ (p \in W \/ p > d.cnt) -> t
                            [] OTHER -> d.val[p]) \in Int
    BY <1>1
  <2>. QED
    BY <1>1, <2>1 DEF Dbs
<1>. QED
  BY <1>2 DEF Candidates

\* prepare_commit begins a job whose pages are all still to be logged.
LEMMA CorePrepare ==
    ASSUME Core, NEW t \in Txns, prepare_commit(t)
    PROVE  Core'
<1>1. /\ phase[t] = "active" /\ job = Idle /\ mode = "up" /\ rec = Idle
      /\ SetPhase(t, "persist") /\ phase' \in [Txns -> Phases] /\ phase'[t] = "persist"
      /\ \A u \in Txns \ {t} : phase'[u] = phase[u]
      /\ UNCHANGED <<walVars, file, statusVars, mode, mem, checkpoint, rec, acked>>
  BY BusyIsUp DEF prepare_commit, SetPhase, Core, Types, SessionTypes, Phases
<1>2. PICK d \in Candidates(t, mem) :
          job' = [step |-> "log", txn |-> t, db |-> d, before |-> file.cnt,
                  todo |-> Deltas(file, d)]
  BY DEF prepare_commit
<1>3. d \in Dbs /\ Deltas(file, d) \subseteq Pages /\ file.cnt \in Nat
  BY CandidatesAre DEF Core, Types, SessionTypes, Deltas, Files
<1>4. /\ job' \in Jobs /\ job'.txn = t /\ job'.step = "log" /\ job'.db = d
      /\ job'.todo = Deltas(file, d) /\ job' # Idle
  BY <1>2, <1>3, IdleIs DEF Jobs, JobSteps
<1>5. Grows /\ LogTypes' /\ wal' = wal
  BY <1>1, StandsStill DEF Core, Types, LogTypes, walVars
<1>6. Pointers'
  BY <1>1, <1>5, PointersStay DEF Core, LogTypes, Pointers
<1>7. Owners'
  BY <1>1, <1>4 DEF Core, Owners
<1>8. Begun'
  BY <1>1, <1>5 DEF Core, Begun
<1>9. PagesLogged'
  BY <1>1, <1>4 DEF PagesLogged
<1>10. Types'
  BY <1>1, <1>4, <1>5 DEF Core, Types, StatusTypes, SessionTypes, statusVars
<1>. QED
  BY <1>6, <1>7, <1>8, <1>9, <1>10 DEF Core

\* The running job goes on.
LEMMA JobGoesOn ==
    ASSUME Core, job.step # "idle", job' \in Jobs, job'.txn = job.txn,
           Grows, Linked(wal)', LogTypes', StatusTypes', file' \in Files, PagesLogged',
           UNCHANGED <<mode, phase, mem, checkpoint, rec, acked>>
    PROVE  Core'
<1>1. job # Idle /\ job' # Idle
  BY IdleIs DEF Idle
<1>2. Owners' /\ Begun'
  BY <1>1 DEF Core, Owners, Begun, Grows
<1>3. Pointers'
  BY PointersStay DEF Core, LogTypes
<1>4. Types'
  BY DEF Core, Types, SessionTypes
<1>. QED
  BY <1>2, <1>3, <1>4 DEF Core

\* The running job appends a record.
LEMMA JobAppends ==
    ASSUME Core, job.step # "idle", NEW r \in Records, append(r), Fits(r, wal, Len(wal) + 1),
           UNCHANGED <<synced, durable_lsn>>
    PROVE  Grows /\ Linked(wal)' /\ LogTypes'
<1>1. LogTypes /\ wal \in Seq(Records) /\ Linked(wal)
  BY DEF Core, Types, LogTypes, Pointers
<1>2. wal' = Append(wal, r) /\ LogTypes'
  BY <1>1, UnflushedAppend, AppendKeeps
<1>. QED
  BY <1>1, <1>2, AppendGrows, AppendLinks

\* log_prepared: the page it takes off the list is the page it logged.
LEMMA CoreLogPage ==
    ASSUME Core, log_page
    PROVE  Core'
<1>. DEFINE t == job.txn
            p == Min(job.todo)
            l == last_lsn(wal, t)
            n == Len(wal) + 1
            r == PageUpdate(t, l, p, file.page[p], After(p, n))
<1>1. job.step = "log" /\ job.todo # {}
  BY DEF log_page
<1>2. /\ job \in Jobs /\ t \in Txns /\ job.todo \subseteq Pages /\ job.db \in Dbs
      /\ mode = "up" /\ rec = Idle
  BY <1>1, JobIs DEF Core
<1>3. p \in job.todo /\ p \in Pages
  BY <1>1, <1>2, PagesAreNumbers, MinFacts
<1>4. l \in 0 .. Len(wal) /\ Len(wal) \in Nat /\ wal \in Seq(Records)
  BY LastLsnFacts, LenProperties DEF Core, Types, LogTypes
<1>5. After(p, n) \in Versions /\ After(p, n).lsn <= n
  <2>1. job.db.val[p] \in Int
    BY <1>2, <1>3 DEF Dbs
  <2>. QED
    BY <1>4, <2>1, NoPageIsOld DEF After, Versions
<1>6. file.page[p] \in Versions
  BY <1>3 DEF Core, Types, Files
<1>7. /\ append(r) /\ job' = [job EXCEPT !.todo = @ \ {p}]
      /\ UNCHANGED <<synced, durable_lsn, file, statusVars, mode, phase, mem, checkpoint, rec,
                     acked>>
  BY DEF log_page
<1>. HIDE DEF p, l, n
<1>8. r \in PageUpdates /\ r \in Records
  BY <1>2, <1>3, <1>4, <1>5, <1>6, RecordsAre DEF Records
<1>9. /\ r.kind = "PageUpdate" /\ r.txn = t /\ r.page = p /\ r.prev = l
      /\ r.after = After(p, n)
  BY DEF PageUpdate
<1>. HIDE DEF r
<1>10. Fits(r, wal, Len(wal) + 1)
  BY <1>4, <1>5, <1>9 DEF Fits, Stamped, n
<1>11. Grows /\ Linked(wal)' /\ LogTypes'
  BY <1>1, <1>7, <1>8, <1>10, JobAppends
<1>12. job' \in Jobs /\ job'.txn = t /\ job'.step = "log" /\ job'.db = job.db
       /\ job'.todo = job.todo \ {p}
  BY <1>1, <1>2, <1>7 DEF Jobs
<1>13. PagesLogged'
  <2>1. Logged(wal', t, p)
    <3>1. wal'[n] = r /\ n \in Lsns(wal')
      BY <1>4, <1>7, <1>8, AppendGrows DEF append, n
    <3>. QED
      BY <1>9, <1>12, <3>1 DEF Logged
  <2>2. \A q \in Deltas(file, job.db) \ job.todo : Logged(wal', t, q)
    BY <1>1, <1>11, <1>12 DEF Core, PagesLogged, Early, Logged, Grows
  <2>3. file' = file
    BY <1>7
  <2>. QED
    BY <1>12, <2>1, <2>2, <2>3 DEF PagesLogged
<1>14. StatusTypes' /\ file' \in Files
  BY <1>7 DEF Core, Types, StatusTypes, statusVars
<1>. QED
  BY <1>1, <1>7, <1>11, <1>12, <1>13, <1>14, JobGoesOn

\* The stages of the job that only append, flush or write their part.
LEMMA StageLogs ==
    ASSUME Core, log_resize \/ log_flush
    PROVE  Core'
<1>1. /\ job.step \in {"log", "logged"} /\ job.todo = {} /\ job.step # "idle"
      /\ UNCHANGED <<file, statusVars, mode, phase, mem, checkpoint, rec, acked>>
  BY DEF Core, PagesLogged, log_resize, log_flush
<1>2. /\ job \in Jobs /\ job.txn \in Txns /\ job.db \in Dbs /\ job.before \in Nat
  BY <1>1, JobIs DEF Core
<1>3. /\ wal \in Seq(Records) /\ LogTypes /\ last_lsn(wal, job.txn) \in 0 .. Len(wal)
      /\ Linked(wal)
  BY LastLsnFacts DEF Core, Types, LogTypes, Pointers
<1>4. /\ Grows /\ Linked(wal)' /\ LogTypes'
  <2>1. CASE log_resize
    <3>. DEFINE r == Resize(job.txn, last_lsn(wal, job.txn), job.before, job.db.cnt)
    <3>1. r \in Records /\ Fits(r, wal, Len(wal) + 1)
      <4>1. r \in Resizes
        BY <1>2, <1>3, RecordsAre DEF Dbs
      <4>. QED
        BY <1>2, <1>3, <4>1, PlainFits DEF Records
    <3>2. append(r) /\ UNCHANGED <<synced, durable_lsn>>
      BY <2>1 DEF log_resize
    <3>. HIDE DEF r
    <3>. QED
      BY <1>1, <3>1, <3>2, JobAppends
  <2>2. CASE log_flush
    <3>1. LogTypes' /\ wal' = wal
      BY <1>3, <2>2, FlushKeeps DEF log_flush, LogTypes
    <3>. QED
      BY <1>3, <3>1, StandsStill
  <2>. QED
    BY <2>1, <2>2
<1>5. /\ job' \in Jobs /\ job'.txn = job.txn /\ job'.db = job.db /\ job'.todo = {}
      /\ job'.step \in {"logged", "status"}
  BY <1>1, <1>2 DEF log_resize, log_flush, Jobs, JobSteps
<1>6. PagesLogged'
  <2>1. \A q \in Deltas(file, job.db) : Logged(wal', job.txn, q)
    BY <1>1, <1>4 DEF Core, PagesLogged, Early, Logged, Grows
  <2>. QED
    BY <1>1, <1>5, <2>1 DEF PagesLogged
<1>7. StatusTypes' /\ file' \in Files
  BY <1>1 DEF Core, Types, StatusTypes, statusVars
<1>. QED
  BY <1>1, <1>4, <1>5, <1>6, <1>7, JobGoesOn

\* mark_status_committed: every page still to be applied has been logged.
LEMMA CoreMarkCommitted ==
    ASSUME Core, mark_status_committed
    PROVE  Core'
<1>1. /\ job.step = "status" /\ finish(job.txn, "Committed")
      /\ job' = [job EXCEPT !.step = "apply", !.todo = Deltas(file, job.db) \cap 1 .. job.db.cnt]
      /\ UNCHANGED <<walVars, file, mode, phase, mem, checkpoint, rec, acked>>
  BY DEF mark_status_committed
<1>2. job \in Jobs /\ job.txn \in Txns /\ job.todo = {}
  BY <1>1, JobIs DEF Core, PagesLogged
<1>3. StatusTypes'
  BY <1>1, <1>2, FinishIs DEF Core, Types, Statuses
<1>4. Grows /\ LogTypes' /\ Linked(wal)' /\ wal' = wal
  BY <1>1, StandsStill DEF Core, Types, LogTypes, walVars, Pointers
<1>5. /\ job' \in Jobs /\ job'.txn = job.txn /\ job'.step = "apply"
      /\ job'.todo \subseteq Deltas(file, job.db)
  <2>1. Deltas(file, job.db) \subseteq Pages
    BY DEF Deltas
  <2>. QED
    BY <1>1, <1>2, <2>1 DEF Jobs, JobSteps
<1>6. PagesLogged'
  <2>1. \A q \in Deltas(file, job.db) : Logged(wal', job.txn, q)
    BY <1>1, <1>2, <1>4 DEF Core, PagesLogged, Early
  <2>. QED
    BY <1>5, <2>1 DEF PagesLogged, Early
<1>. QED
  BY <1>1, <1>3, <1>4, <1>5, <1>6, JobGoesOn DEF Core, Types

\* The LSN that apply_page stamps a page with, and flushes the log through.
LEMMA LoggedLsnIs ==
    ASSUME Core, job.step = "apply", NEW p \in job.todo
    PROVE  LoggedLsn(job.txn, p) \in Lsns(wal) /\ Lsns(wal) \subseteq 0 .. Len(wal)
<1>. DEFINE S == {i \in Lsns(wal) : wal[i].kind = "PageUpdate" /\ wal[i].txn = job.txn
                                     /\ wal[i].page = p}
<1>1. wal \in Seq(Records) /\ Len(wal) \in Nat /\ Lsns(wal) \subseteq 0 .. Len(wal)
  BY LenProperties DEF Core, Types, LogTypes, Lsns
<1>2. S # {} /\ S \subseteq 0 .. Len(wal)
  BY <1>1 DEF Core, PagesLogged, Logged
<1>3. Max(S) \in S
  BY <1>1, <1>2, MaxFacts
<1>. QED
  BY <1>1, <1>3 DEF LoggedLsn

\* apply_prepared finds the LSN of the page it writes in the log.
LEMMA CoreApplyPage ==
    ASSUME Core, apply_page
    PROVE  Core'
<1>. DEFINE p == Min(job.todo)
            l == LoggedLsn(job.txn, p)
<1>1. /\ job.step = "apply" /\ job.todo # {} /\ sync(l, Len(wal))
      /\ file' = WritePage(file, p, After(p, l))
      /\ job' = [job EXCEPT !.todo = @ \ {p}]
      /\ UNCHANGED <<wal, dirty_pages, statusVars, mode, phase, mem, checkpoint, rec, acked>>
  BY DEF apply_page
<1>2. /\ job \in Jobs /\ job.todo \subseteq Pages /\ job.db \in Dbs
      /\ p \in job.todo /\ p \in Pages /\ p \in Nat
  <2>1. job \in Jobs /\ job.todo \subseteq Pages /\ job.db \in Dbs
    BY <1>1, JobIs DEF Core
  <2>. QED
    BY <1>1, <2>1, PagesAreNumbers, MinFacts
<1>3. l \in Nat /\ l \in 0 .. Len(wal)
  BY <1>1, <1>2, LoggedLsnIs
<1>. HIDE DEF p, l
<1>4. After(p, l) \in Versions
  <2>1. job.db.val[p] \in Int
    BY <1>2 DEF Dbs
  <2>. QED
    BY <1>3, <2>1, NoPageIsOld DEF After, Versions
<1>5. file' \in Files
  BY <1>1, <1>2, <1>4, WritePageFacts DEF Core, Types
<1>6. LogTypes' /\ Grows /\ Linked(wal)'
  <2>1. LogTypes'
    BY <1>1, FlushKeeps DEF Core, Types, LogTypes
  <2>. QED
    BY <1>1, <2>1, StandsStill DEF Core, Types, LogTypes, Pointers
<1>7. /\ job' \in Jobs /\ job'.txn = job.txn /\ job'.step = "apply"
      /\ job'.todo = job.todo \ {p}
  BY <1>1, <1>2 DEF Jobs
<1>8. PagesLogged'
  BY <1>1, <1>7 DEF Core, PagesLogged, Early
<1>9. StatusTypes'
  BY <1>1 DEF Core, Types, StatusTypes, statusVars
<1>. QED
  BY <1>1, <1>5, <1>6, <1>7, <1>8, <1>9, JobGoesOn

\* The steps of persist_candidate from the resize to the flush of the Commit record.
LEMMA CoreApply ==
    ASSUME Core, apply_resize \/ apply_sync \/ commit_append \/ commit_flush
    PROVE  Core'
<1>. DEFINE r == Commit(job.txn, last_lsn(wal, job.txn))
<1>1. /\ job.step \in {"apply", "resized", "commit", "commit_flush"}
      /\ UNCHANGED <<statusVars, mode, phase, mem, checkpoint, rec, acked>>
  BY DEF apply_resize, apply_sync, commit_append, commit_flush
<1>2. job \in Jobs /\ job.txn \in Txns /\ job.db.cnt \in Nat
  BY <1>1, JobIs DEF Core, Dbs
<1>3. /\ wal \in Seq(Records) /\ LogTypes /\ last_lsn(wal, job.txn) \in 0 .. Len(wal)
      /\ Linked(wal) /\ file \in Files
  BY LastLsnFacts DEF Core, Types, LogTypes, Pointers
<1>4. /\ job' \in Jobs /\ job'.txn = job.txn
      /\ job'.step \in {"resized", "commit", "commit_flush", "publish"}
  BY <1>2 DEF apply_resize, apply_sync, commit_append, commit_flush, Jobs, JobSteps
<1>5. PagesLogged'
  BY <1>4 DEF PagesLogged, Early
<1>6. StatusTypes'
  BY <1>1 DEF Core, Types, StatusTypes, statusVars
<1>7. file' \in Files
  BY <1>2, <1>3, SetLenFacts, SyncFileFacts
     DEF apply_resize, apply_sync, commit_append, commit_flush
<1>8. Grows /\ Linked(wal)' /\ LogTypes'
  <2>1. CASE apply_resize \/ apply_sync
    <3>1. UNCHANGED walVars
      BY <2>1 DEF apply_resize, apply_sync
    <3>. QED
      BY <1>3, <3>1, StandsStill DEF LogTypes, walVars
  <2>2. CASE commit_append
    <3>1. r \in Records /\ Fits(r, wal, Len(wal) + 1)
      <4>1. last_lsn(wal, job.txn) \in Nat
        BY <1>3
      <4>. QED
        BY <1>2, <1>3, <4>1, RecordsAre, PlainFits
    <3>2. append(r) /\ UNCHANGED <<synced, durable_lsn>>
      BY <2>2 DEF commit_append
    <3>. HIDE DEF r
    <3>. QED
      BY <1>1, <3>1, <3>2, JobAppends
  <2>3. CASE commit_flush
    <3>1. wal' = wal /\ dirty_pages' \in Positions
      BY <1>3, <2>3 DEF commit_flush, cleaned, LogTypes, Positions
    <3>2. LogTypes'
      BY <1>3, <2>3, <3>1, FlushKeeps DEF commit_flush
    <3>. QED
      BY <1>3, <3>1, <3>2, StandsStill
  <2>. QED
    BY <2>1, <2>2, <2>3
<1>. QED
  BY <1>1, <1>4, <1>5, <1>6, <1>7, <1>8, JobGoesOn

\* The job ends, published or failed.
LEMMA CoreJobEnds ==
    ASSUME Core, publish_prepared \/ persist_fails_active \/ persist_fails_committed
    PROVE  Core'
<1>1. /\ job.step # "idle" /\ job' = Idle
      /\ \E v \in {"done", "failed", "orphan"} : SetPhase(job.txn, v)
      /\ UNCHANGED <<walVars, file, statusVars, mode, checkpoint, rec>>
      /\ acked' \subseteq acked \cup {job.txn} /\ mem' \in {mem, job.db}
  BY DEF publish_prepared, persist_fails_active, persist_fails_committed
<1>2. /\ job.txn \in Txns /\ job.db \in Dbs /\ mode = "up" /\ rec = Idle /\ job # Idle
      /\ phase[job.txn] = "persist"
  BY <1>1, JobIs DEF Core
<1>3. Grows /\ LogTypes' /\ Linked(wal)' /\ wal' = wal
  BY <1>1, StandsStill DEF Core, Types, LogTypes, walVars, Pointers
<1>4. Pointers'
  BY <1>1, <1>3, PointersStay DEF Core, LogTypes
<1>5. PICK v \in {"done", "failed", "orphan"} : SetPhase(job.txn, v)
  BY <1>1
<1>6. /\ phase' \in [Txns -> Phases] /\ phase'[job.txn] = v
      /\ \A u \in Txns \ {job.txn} : phase'[u] = phase[u]
  BY <1>2, <1>5 DEF SetPhase, Core, Types, SessionTypes, Phases
<1>7. Owners'
  BY <1>1, <1>2, <1>6 DEF Core, Owners
<1>8. Begun'
  BY <1>2, <1>3, <1>6 DEF Core, Begun
<1>9. PagesLogged'
  BY <1>1, IdleIs DEF PagesLogged, Early
<1>10. Types'
  BY <1>1, <1>2, <1>3, <1>6 DEF Core, Types, StatusTypes, SessionTypes, statusVars
<1>. QED
  BY <1>4, <1>7, <1>8, <1>9, <1>10 DEF Core

(***************************************************************************)
(* Checkpoints and crashes keep the core.                                  *)
(***************************************************************************)

\* A sampled checkpoint has its dirty pages, a begun one its Begin record.
LEMMA CheckpointKinds ==
    ASSUME NEW c \in Checkpoints \cup {Idle}
    PROVE  /\ c.step = "sampled" => c.dirty \in Positions /\ c # Idle
           /\ c.step = "begun" => c.lsn \in Nat /\ c # Idle
<1>1. CASE c = Idle
  BY <1>1 DEF Idle
<1>2. CASE c \in [step : {"sampled"}, dirty : Positions]
  BY <1>2 DEF Idle
<1>3. CASE c \in [step : {"begun"}, lsn : Nat]
  BY <1>3 DEF Idle
<1>. QED
  BY <1>1, <1>2, <1>3 DEF Checkpoints

\* CheckpointBegin and CheckpointEnd, during recovery and outside of it.
LEMMA CheckpointRecords ==
    ASSUME Types, Linked(wal)
    PROVE  /\ \A d \in Positions : /\ CheckpointBegin(d) \in Records
                                   /\ Fits(CheckpointBegin(d), wal, Len(wal) + 1)
           /\ \A l : CheckpointAt(wal, l) => /\ CheckpointEnd(l) \in Records
                                             /\ Fits(CheckpointEnd(l), wal, Len(wal) + 1)
<1>1. Len(wal) \in Nat
  BY LenProperties DEF Types, LogTypes
<1>2. ASSUME NEW d \in Positions
      PROVE  /\ CheckpointBegin(d) \in Records
             /\ Fits(CheckpointBegin(d), wal, Len(wal) + 1)
  <2>1. CheckpointBegin(d) \in CheckpointBegins
    BY DEF CheckpointBegin, CheckpointBegins
  <2>2. Fits(CheckpointBegin(d), wal, Len(wal) + 1)
    BY DEF CheckpointBegin, Fits, Stamped
  <2>. QED
    BY <2>1, <2>2 DEF Records
<1>3. ASSUME NEW l, CheckpointAt(wal, l)
      PROVE  /\ CheckpointEnd(l) \in Records
             /\ Fits(CheckpointEnd(l), wal, Len(wal) + 1)
  <2>1. l \in 1 .. Len(wal) /\ wal[l].kind = "CheckpointBegin"
    BY <1>3 DEF CheckpointAt, Lsns
  <2>2. CheckpointEnd(l) \in CheckpointEnds
    BY <1>1, <2>1 DEF CheckpointEnd, CheckpointEnds
  <2>3. Fits(CheckpointEnd(l), wal, Len(wal) + 1)
    BY <1>1, <2>1 DEF CheckpointEnd, Fits, Stamped
  <2>. QED
    BY <2>2, <2>3 DEF Records
<1>. QED
  BY <1>2, <1>3

\* A record appended and flushed is in the log, under its LSN.
LEMMA CheckpointAppends ==
    ASSUME Core, NEW r \in Records, append_and_flush(r), Fits(r, wal, Len(wal) + 1)
    PROVE  /\ Grows /\ Linked(wal)' /\ LogTypes' /\ Len(wal) + 1 \in Lsns(wal')
           /\ wal'[Len(wal) + 1] = r /\ Len(wal) \in Nat
<1>1. LogTypes /\ wal \in Seq(Records) /\ Linked(wal)
  BY DEF Core, Types, LogTypes, Pointers
<1>2. wal' = Append(wal, r) /\ LogTypes'
  BY <1>1, FlushedAppend DEF Appends
<1>. QED
  BY <1>1, <1>2, AppendGrows, AppendLinks

\* A checkpoint of another session keeps the core, beside the running commit.
LEMMA CoreCheckpoint ==
    ASSUME Core, checkpoint_sample \/ checkpoint_begin \/ checkpoint_end
    PROVE  Core'
<1>0. /\ UNCHANGED <<file, statusVars, mode, phase, mem, job, rec, acked>>
      /\ checkpoint \in Checkpoints \cup {Idle} /\ dirty_pages \in Positions /\ Types /\ Linked(wal)
  BY DEF checkpoint_sample, checkpoint_begin, checkpoint_end, Core, Types, SessionTypes, LogTypes,
         Pointers
<1>1. /\ Grows /\ Linked(wal)' /\ LogTypes' /\ mode = "up"
      /\ checkpoint' \in Checkpoints \cup {Idle}
      /\ checkpoint'.step = "begun" => CheckpointAt(wal', checkpoint'.lsn)
  <2>1. CASE checkpoint_sample
    <3>1. UNCHANGED walVars /\ mode = "up"
          /\ checkpoint' = [step |-> "sampled", dirty |-> dirty_pages]
      BY <2>1 DEF checkpoint_sample
    <3>2. checkpoint' \in Checkpoints /\ checkpoint'.step = "sampled"
      BY <1>0, <3>1 DEF Checkpoints
    <3>. QED
      BY <1>0, <3>1, <3>2, StandsStill DEF Types, LogTypes, walVars
  <2>2. CASE checkpoint_begin
    <3>. DEFINE d == [p \in Pages |-> Earlier(dirty_pages[p], checkpoint.dirty[p])]
    <3>1. /\ checkpoint.step = "sampled" /\ append_and_flush(CheckpointBegin(d))
          /\ checkpoint' = [step |-> "begun", lsn |-> Len(wal) + 1]
      BY <2>2 DEF checkpoint_begin
    <3>2. checkpoint.dirty \in Positions /\ checkpoint # Idle
      BY <1>0, <3>1, CheckpointKinds
    <3>3. d \in Positions
      BY <1>0, <3>2 DEF Positions, Earlier
    <3>. HIDE DEF d
    <3>4. /\ Grows /\ Linked(wal)' /\ LogTypes' /\ Len(wal) + 1 \in Lsns(wal')
          /\ wal'[Len(wal) + 1] = CheckpointBegin(d) /\ Len(wal) \in Nat
      BY <1>0, <3>1, <3>3, CheckpointRecords, CheckpointAppends
    <3>5. CheckpointBegin(d).kind = "CheckpointBegin"
      BY DEF CheckpointBegin
    <3>6. checkpoint' \in Checkpoints /\ CheckpointAt(wal', checkpoint'.lsn)
      BY <3>1, <3>4, <3>5 DEF Checkpoints, CheckpointAt
    <3>. QED
      BY <3>2, <3>4, <3>6 DEF Core, Owners
  <2>3. CASE checkpoint_end
    <3>1. /\ checkpoint.step = "begun" /\ append_and_flush(CheckpointEnd(checkpoint.lsn))
          /\ checkpoint' = Idle
      BY <2>3 DEF checkpoint_end
    <3>2. CheckpointAt(wal, checkpoint.lsn) /\ checkpoint # Idle
      BY <1>0, <3>1, CheckpointKinds DEF Core, Pointers
    <3>3. Grows /\ Linked(wal)' /\ LogTypes'
      BY <1>0, <3>1, <3>2, CheckpointRecords, CheckpointAppends
    <3>. QED
      BY <3>1, <3>2, <3>3, IdleIs DEF Core, Owners
  <2>. QED
    BY <2>1, <2>2, <2>3
<1>2. rec = Idle
  BY <1>1 DEF Core, Owners
<1>3. Pointers'
  BY <1>0, <1>1, <1>2, IdleIs DEF Pointers
<1>4. Owners' /\ Begun'
  BY <1>0, <1>1, <1>2 DEF Core, Owners, Begun, Grows
<1>5. PagesLogged'
  BY <1>0, <1>1, PagesLoggedStay DEF Core
<1>6. Types'
  BY <1>0, <1>1 DEF Types, StatusTypes, SessionTypes, statusVars
<1>. QED
  BY <1>3, <1>4, <1>5, <1>6 DEF Core

\* A crash leaves a log whose records still refer to earlier ones only.
LEMMA CoreCrash ==
    ASSUME Core, power_loss \/ process_crash
    PROVE  Core'
<1>0. \E kind : LoseMemory(kind)
  BY DEF power_loss, process_crash
<1>1. /\ mode' = "down" /\ job' = Idle /\ checkpoint' = Idle /\ rec' = Idle
      /\ phase' = [t \in Txns |-> IF phase[t] = "none" THEN "none" ELSE "gone"]
      /\ durable_lsn' = 0 /\ dirty_pages' = [p \in Pages |-> 0]
      /\ mem' = InitDb(1) /\ status' = document.status
      /\ next_transaction_id' = document.next /\ retained_transaction_floor' = document.floor
      /\ UNCHANGED <<document, acked>>
  BY <1>0 DEF LoseMemory
<1>2. /\ wal' \in Seq(Records) /\ Linked(wal)' /\ synced' \in 0 .. Len(wal') /\ file' \in Files
      /\ Len(wal') \in Nat
  <2>0. /\ wal \in Seq(Records) /\ Linked(wal) /\ synced \in 0 .. Len(wal) /\ Len(wal) \in Nat
        /\ file \in Files
    BY LenProperties DEF Core, Types, LogTypes, Pointers
  <2>1. CASE power_loss
    <3>1. PICK n \in synced .. Len(wal) : wal' = SubSeq(wal, 1, n) /\ synced' = n
      BY <2>1 DEF power_loss
    <3>2. n \in 0 .. Len(wal)
      BY <2>0
    <3>3. file' \in Files
      BY <2>0, <2>1, PowerLossFacts DEF power_loss
    <3>. QED
      BY <2>0, <3>1, <3>2, <3>3, PrefixFacts
  <2>2. CASE process_crash
    BY <2>0, <2>2 DEF process_crash
  <2>. QED
    BY <2>1, <2>2
<1>3. \A t \in Txns : phase'[t] \in {"none", "gone"}
  BY <1>1
<1>4. mem' \in Dbs
  BY <1>1 DEF InitDb, Dbs
<1>5. Types'
  <2>1. LogTypes'
    BY <1>1, <1>2 DEF LogTypes, Positions
  <2>2. StatusTypes'
    BY <1>1 DEF Core, Types, StatusTypes
  <2>3. SessionTypes'
    BY <1>1, <1>4 DEF SessionTypes, Modes, Phases
  <2>. QED
    BY <1>1, <1>2, <2>1, <2>2, <2>3 DEF Core, Types
<1>6. Pointers'
  BY <1>1, <1>2, IdleIs DEF Pointers
<1>7. Owners' /\ Begun'
  BY <1>1, <1>3 DEF Owners, Begun
<1>8. PagesLogged'
  BY <1>1, IdleIs DEF PagesLogged, Early
<1>. QED
  BY <1>5, <1>6, <1>7, <1>8 DEF Core

(***************************************************************************)
(* Recovery keeps the core.                                                *)
(***************************************************************************)

\* A step of recovery keeps the core when what it refers to is in the log.
LEMMA RecoveryGoesOn ==
    ASSUME Core, mode # "up", UNCHANGED <<phase, job, checkpoint, acked>>,
           LogTypes', StatusTypes', Grows, Linked(wal)', file' \in Files, mem' \in Dbs,
           \/ mode' \in Modes /\ rec' = Idle
           \/ /\ rec' \in Recoveries /\ mode' \in {"recovering", "failed"}
              /\ rec'.pos >= 1 /\ rec'.last <= Len(wal')
              /\ \A t \in Txns : rec'.undo[t] <= Len(wal')
              /\ rec'.step = "checkpoint_end" => CheckpointAt(wal', rec'.pos)
    PROVE  Core'
<1>1. job = Idle /\ checkpoint = Idle /\ \A t \in Txns : phase[t] \in {"none", "gone"}
  BY DEF Core, Owners
<1>2. Owners' /\ Begun'
  BY <1>1, IdleIs DEF Owners, Begun
<1>3. PagesLogged'
  BY <1>1, IdleIs DEF PagesLogged, Early
<1>4. Pointers'
  BY <1>1, IdleIs DEF Pointers
<1>5. Types'
  <2>1. mode' \in Modes
    BY DEF Modes
  <2>. QED
    BY <2>1 DEF Core, Types, SessionTypes
<1>. QED
  BY <1>2, <1>3, <1>4, <1>5 DEF Core

\* The state of a recovery that has not ended.
LEMMA RecoveryIs ==
    ASSUME Core, NEW s \in RecoverySteps, Recovering(s)
    PROVE  /\ mode = "recovering" /\ rec.step = s /\ rec # Idle /\ rec \in Recoveries
           /\ rec.pos \in Nat /\ rec.pos >= 1 /\ rec.last \in Nat /\ rec.last <= Len(wal)
           /\ rec.cnt \in Nat /\ rec.target \in Nat
           /\ \A t \in Txns : rec.undo[t] \in 0 .. Len(wal)
           /\ Len(wal) \in Nat /\ wal \in Seq(Records) /\ Linked(wal) /\ file \in Files
<1>1. rec.step = s /\ mode = "recovering" /\ s # "idle"
  BY DEF Recovering, RecoverySteps
<1>2. rec # Idle
  BY <1>1, IdleIs
<1>3. rec \in Recoveries /\ Len(wal) \in Nat
  BY <1>2, LenProperties DEF Core, Types, LogTypes
<1>4. rec.pos >= 1 /\ rec.last <= Len(wal) /\ \A t \in Txns : rec.undo[t] <= Len(wal)
  BY <1>2 DEF Core, Pointers
<1>. QED
  BY <1>1, <1>2, <1>3, <1>4 DEF Core, Types, LogTypes, Pointers, Recoveries

\* WalManager::open and the analysis begin a recovery inside the log.
LEMMA CoreRecover ==
    ASSUME Core, recover
    PROVE  Core'
<1>1. /\ mode = "down" /\ mode' = "recovering" /\ durable_lsn' = Len(wal)
      /\ dirty_pages' = replayed_dirty(wal)
      /\ UNCHANGED <<wal, synced, file, statusVars, phase, mem, job, checkpoint, acked>>
      /\ rec' = [step   |-> IF wal = <<>> THEN "reconcile" ELSE "redo",
                 pos    |-> redo_start(wal),
                 last   |-> Len(wal),
                 cnt    |-> file.cnt,
                 target |-> final_page_count(wal, file.cnt),
                 undo   |-> [t \in Txns |-> IF t \in losers(wal) THEN last_lsn(wal, t) ELSE 0]]
  BY DEF recover
<1>2. /\ wal \in Seq(Records) /\ Linked(wal) /\ Len(wal) \in Nat /\ file.cnt \in Nat
      /\ file \in Files /\ synced \in 0 .. Len(wal)
  BY LenProperties DEF Core, Types, LogTypes, Pointers, Files
<1>3. Grows /\ LogTypes'
  <2>1. replayed_dirty(wal) \in Positions
    BY <1>2, ReplayedDirtyIs
  <2>. QED
    BY <1>1, <1>2, <2>1, StandsStill DEF LogTypes
<1>4. /\ redo_start(wal) \in Nat /\ redo_start(wal) >= 1
      /\ final_page_count(wal, file.cnt) \in Nat
      /\ \A t \in Txns : last_lsn(wal, t) \in 0 .. Len(wal)
  <2>1. redo_start(wal) \in Nat \ {0}
    BY <1>2, RedoStartIs
  <2>2. final_page_count(wal, file.cnt) \in Nat
    BY <1>2, FinalPageCountIs
  <2>3. \A t \in Txns : last_lsn(wal, t) \in 0 .. Len(wal)
    BY <1>2, LastLsnFacts
  <2>. QED
    BY <2>1, <2>2, <2>3
<1>. DEFINE step == IF wal = <<>> THEN "reconcile" ELSE "redo"
            undo == [t \in Txns |-> IF t \in losers(wal) THEN last_lsn(wal, t) ELSE 0]
<1>5. undo \in [Txns -> Nat] /\ \A t \in Txns : undo[t] <= Len(wal)
  BY <1>2, <1>4
<1>6. step \in {"reconcile", "redo"} /\ step \in RecoverySteps
  BY DEF RecoverySteps
<1>7. rec' = [step |-> step, pos |-> redo_start(wal), last |-> Len(wal), cnt |-> file.cnt,
              target |-> final_page_count(wal, file.cnt), undo |-> undo]
  BY <1>1, Zenon
<1>. HIDE DEF step, undo
<1>8. /\ rec' \in Recoveries /\ rec'.pos >= 1 /\ rec'.last <= Len(wal')
      /\ \A t \in Txns : rec'.undo[t] <= Len(wal')
      /\ rec'.step # "checkpoint_end"
  BY <1>1, <1>2, <1>4, <1>5, <1>6, <1>7 DEF Recoveries
<1>9. StatusTypes' /\ mem' \in Dbs /\ file' \in Files /\ Linked(wal)'
  BY <1>1, <1>2 DEF Core, Types, StatusTypes, SessionTypes, statusVars
<1>. QED
  BY <1>1, <1>3, <1>8, <1>9, RecoveryGoesOn

\* redo keeps the core.
LEMMA CoreRedo ==
    ASSUME Core, redo
    PROVE  Core'
<1>. DEFINE r == wal[rec.pos]
            next == redo_record(file, rec.cnt, r, rec.pos)
<1>1. /\ Recovering("redo") /\ rec.pos <= rec.last
      /\ file' = IF next.ok THEN next.file ELSE file
      /\ mode' = IF next.ok THEN mode ELSE "failed"
      /\ rec' = [rec EXCEPT !.pos = @ + 1, !.cnt = next.cnt]
      /\ UNCHANGED <<walVars, statusVars, phase, mem, job, checkpoint, acked>>
  BY DEF redo
<1>2. /\ mode = "recovering" /\ rec.step = "redo" /\ rec \in Recoveries
      /\ rec.pos \in Nat /\ rec.pos >= 1 /\ rec.last \in Nat /\ rec.last <= Len(wal)
      /\ rec.cnt \in Nat /\ \A t \in Txns : rec.undo[t] \in 0 .. Len(wal)
      /\ Len(wal) \in Nat /\ wal \in Seq(Records) /\ Linked(wal) /\ file \in Files
  BY <1>1, RecoveryIs DEF RecoverySteps
<1>3. rec.pos \in Lsns(wal) /\ r \in Records /\ Stamped(r, rec.pos)
  <2>1. rec.pos \in Lsns(wal)
    BY <1>1, <1>2 DEF Lsns
  <2>. QED
    BY <1>2, <2>1, LsnsAre DEF Linked, Fits
<1>4. next.file \in Files /\ next.cnt \in Nat
  BY <1>2, <1>3, RedoFacts
<1>. HIDE DEF next
<1>5. /\ rec' \in Recoveries /\ rec'.pos >= 1 /\ rec'.last = rec.last /\ rec'.undo = rec.undo
      /\ rec'.step = "redo"
  <2>1. rec.pos + 1 \in Nat /\ rec.pos + 1 >= 1
    BY <1>2
  <2>2. rec' = [rec EXCEPT !.pos = rec.pos + 1, !.cnt = next.cnt]
    BY <1>1
  <2>3. rec' \in Recoveries
    BY <1>2, <1>4, <2>1, <2>2 DEF Recoveries
  <2>4. /\ rec'.pos = rec.pos + 1 /\ rec'.last = rec.last /\ rec'.undo = rec.undo
        /\ rec'.step = rec.step
    BY <1>2, <2>2 DEF Recoveries
  <2>. QED
    BY <1>2, <2>1, <2>3, <2>4
<1>6. Grows /\ LogTypes' /\ wal' = wal
  BY <1>1, <1>2, StandsStill DEF Core, Types, LogTypes, walVars
<1>7. file' \in Files /\ mode' \in {"recovering", "failed"}
  BY <1>1, <1>2, <1>4
<1>8. StatusTypes' /\ mem' \in Dbs /\ Linked(wal)'
  BY <1>1, <1>2, <1>6 DEF Core, Types, StatusTypes, SessionTypes, statusVars
<1>9. rec'.last <= Len(wal') /\ \A t \in Txns : rec'.undo[t] <= Len(wal')
  BY <1>2, <1>5, <1>6
<1>10. mode # "up" /\ rec'.step # "checkpoint_end"
  BY <1>2, <1>5
<1>. QED
  BY <1>1, <1>5, <1>6, <1>7, <1>8, <1>9, <1>10, RecoveryGoesOn

\* undo_losers stands at a record of the log, which refers to earlier ones only.
LEMMA UndoIs ==
    ASSUME Core, NEW t \in Txns, NextLoser(t)
    PROVE  /\ mode = "recovering" /\ rec.step = "redo" /\ rec \in Recoveries
           /\ rec.undo[t] \in Lsns(wal) /\ wal[rec.undo[t]] \in Records
           /\ Fits(wal[rec.undo[t]], wal, rec.undo[t])
           /\ rec.undo \in [Txns -> Nat] /\ rec.cnt \in Nat
           /\ \A u \in Txns : rec.undo[u] \in 0 .. Len(wal)
           /\ rec.pos >= 1 /\ rec.last <= Len(wal) /\ rec.last \in Nat
           /\ Len(wal) \in Nat /\ wal \in Seq(Records) /\ Linked(wal) /\ file \in Files
<1>1. Recovering("redo") /\ rec.undo[t] # 0
  BY DEF NextLoser
<1>2. /\ mode = "recovering" /\ rec.step = "redo" /\ rec \in Recoveries
      /\ rec.pos >= 1 /\ rec.last \in Nat /\ rec.last <= Len(wal) /\ rec.cnt \in Nat
      /\ \A u \in Txns : rec.undo[u] \in 0 .. Len(wal)
      /\ Len(wal) \in Nat /\ wal \in Seq(Records) /\ Linked(wal) /\ file \in Files
  BY <1>1, RecoveryIs DEF RecoverySteps
<1>3. rec.undo[t] \in Lsns(wal)
  BY <1>1, <1>2 DEF Lsns
<1>. QED
  BY <1>2, <1>3, LsnsAre DEF Linked, Recoveries

\* undo_losers goes on to a position before l, or to none.
LEMMA UndoGoesOn ==
    ASSUME Core, NEW t \in Txns, NextLoser(t), NEW l \in 0 .. Len(wal), NEW c \in Nat,
           rec' = [rec EXCEPT !.undo[t] = l, !.cnt = c], mode' \in {"recovering", "failed"},
           Grows, Linked(wal)', LogTypes', file' \in Files,
           UNCHANGED <<statusVars, phase, mem, job, checkpoint, acked>>
    PROVE  Core'
<1>1. /\ mode = "recovering" /\ rec.step = "redo" /\ rec \in Recoveries
      /\ rec.undo \in [Txns -> Nat] /\ rec.pos >= 1 /\ rec.last <= Len(wal) /\ rec.last \in Nat
      /\ \A u \in Txns : rec.undo[u] \in 0 .. Len(wal)
      /\ Len(wal) \in Nat
  BY UndoIs
<1>2. Len(wal') \in Nat /\ Len(wal) <= Len(wal')
  BY LenProperties DEF LogTypes, Grows
<1>. DEFINE undo == [rec.undo EXCEPT ![t] = l]
<1>3. undo \in [Txns -> Nat] /\ \A u \in Txns : undo[u] <= Len(wal')
  BY <1>1, <1>2
<1>4. rec' = [rec EXCEPT !.undo = undo, !.cnt = c]
  OBVIOUS
<1>. HIDE DEF undo
<1>5. /\ rec' \in Recoveries /\ rec'.pos >= 1 /\ rec'.last <= Len(wal') /\ rec'.undo = undo
      /\ rec'.step = "redo"
  <2>1. rec' \in Recoveries
    BY <1>1, <1>3, <1>4 DEF Recoveries
  <2>2. /\ rec'.pos = rec.pos /\ rec'.last = rec.last /\ rec'.undo = undo
        /\ rec'.step = rec.step
    BY <1>1, <1>4 DEF Recoveries
  <2>. QED
    BY <1>1, <1>2, <2>1, <2>2
<1>6. StatusTypes' /\ mem' \in Dbs
  BY DEF Core, Types, StatusTypes, SessionTypes, statusVars
<1>7. mode # "up" /\ rec'.step # "checkpoint_end"
  BY <1>1, <1>5
<1>. QED
  BY <1>3, <1>5, <1>6, <1>7, RecoveryGoesOn

\* A compensation record fits.
LEMMA CompensationFits ==
    ASSUME Core, NEW t \in Txns, NEW p \in Nat, NEW u \in Versions, NEW n \in Nat,
           NEW next \in 0 .. Len(wal), u.lsn <= Len(wal) + 1
    PROVE  LET r == Compensation(t, last_lsn(wal, t), p, u, n, next)
           IN  r \in Records /\ Fits(r, wal, Len(wal) + 1)
<1>. DEFINE l == last_lsn(wal, t)
            r == Compensation(t, l, p, u, n, next)
<1>1. l \in 0 .. Len(wal) /\ Len(wal) \in Nat
  BY LastLsnFacts, LenProperties DEF Core, Types, LogTypes
<1>. HIDE DEF l
<1>2. r \in Compensations
  BY <1>1, RecordsAre
<1>3. Fits(r, wal, Len(wal) + 1)
  BY <1>1 DEF Compensation, Fits, Stamped
<1>4. r \in Records /\ Fits(r, wal, Len(wal) + 1)
  BY <1>2, <1>3 DEF Records
<1>. QED
  BY <1>4 DEF l

\* The image that undo_page restores.
LEMMA ImageIs ==
    ASSUME NEW v \in Versions, NEW l \in Nat
    PROVE  LET image == IF v = NoPage THEN NoPage ELSE [v EXCEPT !.lsn = l]
           IN  image \in Versions /\ image.lsn <= l
BY NoPageIsOld DEF Versions

\* Undoing a PageUpdate continues at an earlier record of its transaction.
LEMMA CoreUndoPage ==
    ASSUME Core, NEW t \in Txns, undo_page(t)
    PROVE  Core'
<1>. DEFINE r == wal[rec.undo[t]]
            l == Len(wal) + 1
            image == IF r.before = NoPage THEN NoPage ELSE [r.before EXCEPT !.lsn = l]
            c == IF image = NoPage THEN rec.cnt ELSE Larger(rec.cnt, r.page)
            s == Compensation(t, last_lsn(wal, t), r.page, image, rec.cnt, r.prev)
<1>1. /\ NextLoser(t) /\ r.kind = "PageUpdate" /\ append_and_flush(s)
      /\ file' = IF image = NoPage \/ Sparse(file, r.page) THEN file
                 ELSE WritePage(file, r.page, image)
      /\ mode' = IF image # NoPage /\ Sparse(file, r.page) THEN "failed" ELSE mode
      /\ UNCHANGED <<statusVars, phase, mem, job, checkpoint, acked>>
  BY DEF undo_page
<1>2. rec' = [rec EXCEPT !.undo[t] = r.prev, !.cnt = c]
  BY DEF undo_page
<1>3. /\ mode = "recovering" /\ rec.undo[t] \in Lsns(wal) /\ r \in Records
      /\ Fits(r, wal, rec.undo[t]) /\ rec.cnt \in Nat /\ Len(wal) \in Nat /\ file \in Files
  BY <1>1, UndoIs
<1>4. r \in PageUpdates /\ r.page \in Nat /\ r.before \in Versions /\ r.prev \in Nat
      /\ r.txn # 0
  BY <1>1, <1>3, RecordKinds, PagesAreNumbers DEF PageUpdates
<1>5. r.prev \in 0 .. Len(wal)
  BY <1>3, <1>4 DEF Fits, Lsns
<1>6. image \in Versions /\ image.lsn <= l
  BY <1>3, <1>4, ImageIs
<1>. HIDE DEF r, image
<1>7. s \in Records /\ Fits(s, wal, Len(wal) + 1)
  BY <1>3, <1>4, <1>5, <1>6, CompensationFits
<1>. HIDE DEF s
<1>8. Grows /\ Linked(wal)' /\ LogTypes'
  BY <1>1, <1>7, CheckpointAppends
<1>9. file' \in Files /\ mode' \in {"recovering", "failed"}
  BY <1>1, <1>3, <1>4, <1>6, WritePageFacts
<1>10. c \in Nat
  BY <1>3, <1>4 DEF Larger
<1>. HIDE DEF c
<1>. QED
  BY <1>1, <1>2, <1>5, <1>8, <1>9, <1>10, UndoGoesOn

\* Undoing a Resize continues at an earlier record of its transaction.
LEMMA CoreUndoResize ==
    ASSUME Core, NEW t \in Txns, undo_resize(t)
    PROVE  Core'
<1>. DEFINE r == wal[rec.undo[t]]
            n == r.before_page_count
            s == Compensation(t, last_lsn(wal, t), n, NoPage, n, r.prev)
<1>1. /\ NextLoser(t) /\ r.kind = "Resize" /\ append_and_flush(s)
      /\ file' = SetLen(file, n)
      /\ rec' = [rec EXCEPT !.undo[t] = r.prev, !.cnt = n]
      /\ UNCHANGED <<statusVars, mode, phase, mem, job, checkpoint, acked>>
  BY DEF undo_resize
<1>3. /\ mode = "recovering" /\ rec.undo[t] \in Lsns(wal) /\ r \in Records
      /\ Fits(r, wal, rec.undo[t]) /\ rec.cnt \in Nat /\ Len(wal) \in Nat /\ file \in Files
  BY <1>1, UndoIs
<1>4. r \in Resizes /\ n \in Nat /\ r.prev \in Nat /\ r.txn # 0
  BY <1>1, <1>3, RecordKinds, PagesAreNumbers DEF Resizes
<1>5. r.prev \in 0 .. Len(wal)
  BY <1>3, <1>4 DEF Fits, Lsns
<1>. HIDE DEF r, n
<1>7. s \in Records /\ Fits(s, wal, Len(wal) + 1)
  BY <1>3, <1>4, <1>5, NoPageIsOld, CompensationFits
<1>. HIDE DEF s
<1>8. Grows /\ Linked(wal)' /\ LogTypes'
  BY <1>1, <1>7, CheckpointAppends
<1>9. file' \in Files /\ mode' \in {"recovering", "failed"}
  BY <1>1, <1>3, <1>4, SetLenFacts
<1>. QED
  BY <1>1, <1>4, <1>5, <1>8, <1>9, UndoGoesOn

\* Every step of undo_losers keeps the core.
LEMMA CoreUndo ==
    ASSUME Core, NEW t \in Txns, Undo(t)
    PROVE  Core'
<1>1. CASE undo_begin(t)
  <2>. DEFINE r == Abort(t, last_lsn(wal, t))
  <2>1. /\ NextLoser(t) /\ terminate(r) /\ rec' = [rec EXCEPT !.undo[t] = 0]
        /\ UNCHANGED <<file, statusVars, mode, phase, mem, job, checkpoint, acked>>
    BY <1>1 DEF undo_begin
  <2>2. /\ mode = "recovering" /\ rec \in Recoveries /\ rec.cnt \in Nat /\ Len(wal) \in Nat
        /\ wal \in Seq(Records) /\ Linked(wal) /\ file \in Files /\ LogTypes
    BY <2>1, UndoIs DEF Core, Types
  <2>3. last_lsn(wal, t) \in 0 .. Len(wal)
    BY <2>2, LastLsnFacts
  <2>4. r \in Records /\ Fits(r, wal, Len(wal) + 1)
    <3>1. last_lsn(wal, t) \in Nat
      BY <2>3
    <3>. QED
      BY <2>2, <2>3, <3>1, RecordsAre, PlainFits
  <2>5. wal' = Append(wal, r) /\ LogTypes'
    BY <2>1, <2>2, <2>4, Termination DEF Appends
  <2>6. Grows /\ Linked(wal)'
    BY <2>2, <2>4, <2>5, AppendGrows, AppendLinks
  <2>7. rec' = [rec EXCEPT !.undo[t] = 0, !.cnt = rec.cnt]
    BY <2>1, <2>2 DEF Recoveries
  <2>8. 0 \in 0 .. Len(wal) /\ mode' \in {"recovering", "failed"} /\ file' \in Files
    BY <2>1, <2>2
  <2>9. UNCHANGED <<statusVars, phase, mem, job, checkpoint, acked>> /\ NextLoser(t)
    BY <2>1
  <2>. DEFINE c == rec.cnt
  <2>10. rec' = [rec EXCEPT !.undo[t] = 0, !.cnt = c] /\ c \in Nat
    BY <2>2, <2>7
  <2>. HIDE DEF c, r
  <2>. QED
    BY <2>5, <2>6, <2>8, <2>9, <2>10, UndoGoesOn
<1>2. CASE undo_compensation(t)
  <2>. DEFINE r == wal[rec.undo[t]]
  <2>1. /\ NextLoser(t) /\ r.kind = "Compensation"
        /\ rec' = [rec EXCEPT !.undo[t] = r.undo_next_lsn]
        /\ UNCHANGED <<walVars, file, statusVars, mode, phase, mem, job, checkpoint, acked>>
    BY <1>2 DEF undo_compensation
  <2>2. /\ mode = "recovering" /\ rec \in Recoveries /\ rec.cnt \in Nat /\ Len(wal) \in Nat
        /\ rec.undo[t] \in Lsns(wal) /\ r \in Records /\ Fits(r, wal, rec.undo[t])
        /\ wal \in Seq(Records) /\ Linked(wal) /\ file \in Files
    BY <2>1, UndoIs
  <2>3. r.undo_next_lsn \in 0 .. Len(wal)
    <3>1. r \in Compensations
      BY <2>1, <2>2, RecordKinds
    <3>2. r.undo_next_lsn \in Nat
      BY <3>1 DEF Compensations
    <3>. QED
      BY <2>1, <2>2, <3>2 DEF Fits, Lsns
  <2>. HIDE DEF r
  <2>4. Grows /\ Linked(wal)' /\ LogTypes'
    BY <2>1, <2>2, StandsStill DEF Core, Types, LogTypes, walVars
  <2>5. rec' = [rec EXCEPT !.undo[t] = r.undo_next_lsn, !.cnt = rec.cnt]
    BY <2>1, <2>2 DEF Recoveries
  <2>6. mode' \in {"recovering", "failed"} /\ file' \in Files
    BY <2>1, <2>2
  <2>7. UNCHANGED <<statusVars, phase, mem, job, checkpoint, acked>> /\ NextLoser(t)
    BY <2>1
  <2>. DEFINE c == rec.cnt
            l == r.undo_next_lsn
  <2>8. rec' = [rec EXCEPT !.undo[t] = l, !.cnt = c] /\ c \in Nat /\ l \in 0 .. Len(wal)
    BY <2>2, <2>3, <2>5
  <2>. HIDE DEF c, l
  <2>. QED
    BY <2>4, <2>6, <2>7, <2>8, UndoGoesOn
<1>. QED
  BY <1>1, <1>2, CoreUndoPage, CoreUndoResize DEF Undo

\* The highest transaction id of the log is at least every one of them.
LEMMA HighestIs ==
    ASSUME NEW w \in Seq(Records)
    PROVE  HighestTxn(w) \in Nat /\ \A i \in Lsns(w) : w[i].txn <= HighestTxn(w)
<1>. DEFINE S == {0} \cup {w[i].txn : i \in Lsns(w)}
<1>1. MaxTxn \in Nat /\ \A i \in Lsns(w) : w[i].txn \in 0 .. MaxTxn
  BY LsnsAre, RecordKinds, DurabilityAssumption
<1>2. S \subseteq 0 .. MaxTxn /\ S # {}
  BY <1>1
<1>3. Max(S) \in S /\ \A y \in S : Max(S) >= y
  BY <1>1, <1>2, MaxFacts
<1>4. HighestTxn(w) = Max(S)
  BY DEF HighestTxn
<1>. HIDE DEF S
<1>5. \A i \in Lsns(w) : w[i].txn \in S
  BY DEF S
<1>6. Max(S) \in Nat
  <2>1. Max(S) \in 0 .. MaxTxn
    BY <1>2, <1>3, Zenon
  <2>. QED
    BY <1>1, <2>1
<1>7. \A i \in Lsns(w) : w[i].txn <= Max(S)
  BY <1>1, <1>3, <1>5, <1>6
<1>. QED
  BY <1>4, <1>6, <1>7

\* RecoveryDataFile::finish keeps the core, whether or not the store can be opened.
LEMMA CoreFinish ==
    ASSUME Core, recovery_finish
    PROVE  Core'
<1>. DEFINE f == IF rec.cnt # rec.target THEN SetLen(file, rec.target) ELSE file
<1>1. /\ Recovering("redo") /\ file' = SyncFile(f)
      /\ mode' \in {mode, "failed"}
      /\ rec' = [rec EXCEPT !.step = "checkpoint"]
      /\ UNCHANGED <<walVars, statusVars, phase, mem, job, checkpoint, acked>>
  BY DEF recovery_finish
<1>2. /\ mode = "recovering" /\ rec \in Recoveries /\ rec.pos >= 1 /\ rec.last <= Len(wal)
      /\ rec.target \in Nat /\ \A t \in Txns : rec.undo[t] \in 0 .. Len(wal)
      /\ Len(wal) \in Nat /\ wal \in Seq(Records) /\ Linked(wal) /\ file \in Files
  BY <1>1, RecoveryIs DEF RecoverySteps
<1>3. f \in Files
  BY <1>2, SetLenFacts
<1>. HIDE DEF f
<1>4. file' \in Files
  BY <1>1, <1>3, SyncFileFacts
<1>5. Grows /\ LogTypes' /\ wal' = wal /\ Linked(wal)'
  BY <1>1, <1>2, StandsStill DEF Core, Types, LogTypes, walVars
<1>6. /\ rec' \in Recoveries /\ rec'.step = "checkpoint" /\ rec'.pos = rec.pos
      /\ rec'.last = rec.last /\ rec'.undo = rec.undo
  BY <1>1, <1>2 DEF Recoveries, RecoverySteps
<1>7. /\ StatusTypes' /\ mem' \in Dbs /\ mode # "up" /\ mode' \in {"recovering", "failed"}
      /\ rec'.pos >= 1 /\ rec'.last <= Len(wal') /\ \A t \in Txns : rec'.undo[t] <= Len(wal')
      /\ rec'.step # "checkpoint_end"
  BY <1>1, <1>2, <1>5, <1>6 DEF Core, Types, StatusTypes, SessionTypes, statusVars
<1>. QED
  BY <1>1, <1>4, <1>5, <1>6, <1>7, RecoveryGoesOn

\* The checkpoint at the end of recovery refers to its own Begin record.
LEMMA CoreRecoveryCheckpoint ==
    ASSUME Core, recovery_checkpoint_begin \/ recovery_checkpoint_end
    PROVE  Core'
<1>1. /\ Recovering("checkpoint") \/ Recovering("checkpoint_end")
      /\ UNCHANGED <<file, statusVars, mode, phase, mem, job, checkpoint, acked>>
  BY DEF recovery_checkpoint_begin, recovery_checkpoint_end
<1>2. /\ mode = "recovering" /\ rec # Idle /\ rec \in Recoveries /\ rec.pos \in Nat
      /\ rec.pos >= 1 /\ rec.last <= Len(wal) /\ rec.last \in Nat
      /\ \A t \in Txns : rec.undo[t] \in 0 .. Len(wal)
      /\ Len(wal) \in Nat /\ wal \in Seq(Records) /\ Linked(wal) /\ file \in Files /\ Types
      /\ dirty_pages \in Positions
  BY <1>1, RecoveryIs DEF RecoverySteps, Core, Types, LogTypes
<1>3. /\ Grows /\ Linked(wal)' /\ LogTypes'
      /\ rec' \in Recoveries /\ rec'.pos >= 1 /\ rec'.last = rec.last /\ rec'.undo = rec.undo
      /\ rec'.step = "checkpoint_end" => CheckpointAt(wal', rec'.pos)
  <2>1. CASE recovery_checkpoint_begin
    <3>. DEFINE r == CheckpointBegin(dirty_pages)
                n == Len(wal) + 1
    <3>1. /\ append_and_flush(r)
          /\ rec' = [rec EXCEPT !.step = "checkpoint_end", !.pos = n]
      BY <2>1 DEF recovery_checkpoint_begin
    <3>2. r \in Records /\ Fits(r, wal, Len(wal) + 1) /\ r.kind = "CheckpointBegin"
      BY <1>2, CheckpointRecords DEF CheckpointBegin
    <3>. HIDE DEF r
    <3>3. Grows /\ Linked(wal)' /\ LogTypes' /\ n \in Lsns(wal') /\ wal'[n] = r
      BY <3>1, <3>2, CheckpointAppends
    <3>4. n \in Nat /\ n >= 1
      BY <1>2
    <3>. HIDE DEF n
    <3>5. /\ rec' \in Recoveries /\ rec'.pos = n /\ rec'.last = rec.last /\ rec'.undo = rec.undo
      BY <1>2, <3>1, <3>4 DEF Recoveries, RecoverySteps
    <3>. QED
      BY <3>2, <3>3, <3>4, <3>5 DEF CheckpointAt
  <2>2. CASE recovery_checkpoint_end
    <3>1. /\ rec.step = "checkpoint_end" /\ append_and_flush(CheckpointEnd(rec.pos))
          /\ rec' = [rec EXCEPT !.step = "reconcile"]
      BY <2>2 DEF recovery_checkpoint_end, Recovering
    <3>2. CheckpointAt(wal, rec.pos)
      BY <3>1 DEF Core, Pointers
    <3>3. Grows /\ Linked(wal)' /\ LogTypes'
      BY <1>2, <3>1, <3>2, CheckpointRecords, CheckpointAppends
    <3>4. /\ rec' \in Recoveries /\ rec'.pos = rec.pos /\ rec'.last = rec.last
          /\ rec'.undo = rec.undo /\ rec'.step = "reconcile"
      BY <1>2, <3>1 DEF Recoveries, RecoverySteps
    <3>. QED
      BY <1>2, <3>3, <3>4
  <2>. QED
    BY <2>1, <2>2
<1>4. Len(wal') \in Nat /\ Len(wal) <= Len(wal')
  BY <1>3, LenProperties DEF LogTypes, Grows
<1>5. /\ StatusTypes' /\ mem' \in Dbs /\ file' \in Files /\ mode # "up"
      /\ mode' \in {"recovering", "failed"}
  BY <1>1, <1>2 DEF Core, Types, StatusTypes, SessionTypes, statusVars
<1>6. rec'.last <= Len(wal') /\ \A t \in Txns : rec'.undo[t] <= Len(wal')
  BY <1>2, <1>3, <1>4
<1>. QED
  BY <1>1, <1>3, <1>5, <1>6, RecoveryGoesOn

\* Reconciliation gives every transaction a status.
LEMMA ReconciledIs ==
    ASSUME StatusTypes, NEW t \in Txns
    PROVE  reconciled(t) \in Statuses
BY DEF reconciled, Statuses, StatusTypes

\* reconcile_with_wal ends the recovery, with the engine up or failed.
LEMMA CoreReconcile ==
    ASSUME Core, reconcile_with_wal
    PROVE  Core'
<1>1. /\ Recovering("reconcile") /\ mode' \in {"up", "failed"}
      /\ next_transaction_id' = Larger(next_transaction_id, HighestTxn(wal) + 1)
      /\ status' = [t \in Txns |-> reconciled(t)]
      /\ mem' = Load(file) /\ rec' = Idle
      /\ UNCHANGED <<walVars, file, retained_transaction_floor, phase, job, checkpoint, acked>>
      /\ write_document_atomic \/ UNCHANGED document
  BY DEF reconcile_with_wal
<1>2. /\ mode = "recovering" /\ wal \in Seq(Records) /\ Linked(wal) /\ file \in Files
      /\ StatusTypes
  BY <1>1, RecoveryIs DEF RecoverySteps, Core, Types
<1>3. next_transaction_id' \in Nat /\ status' \in [Txns -> Statuses]
      /\ retained_transaction_floor' \in Nat
  BY <1>1, <1>2, HighestIs, ReconciledIs DEF Larger, StatusTypes
<1>4. StatusTypes'
  <2>1. CASE write_document_atomic
    BY <1>3, <2>1, WriteDocumentIs
  <2>2. CASE UNCHANGED document
    BY <1>2, <1>3, <2>2 DEF StatusTypes
  <2>. QED
    BY <1>1, <2>1, <2>2
<1>5. mem' \in Dbs
  <2>1. \A p \in Pages : file.page[p].val \in Int
    BY <1>2 DEF Files, Versions
  <2>. QED
    BY <1>1, <1>2, <2>1 DEF Load, Dbs, Files
<1>6. Grows /\ LogTypes' /\ Linked(wal)'
  BY <1>1, <1>2, StandsStill DEF Core, Types, LogTypes, walVars
<1>7. file' \in Files /\ mode # "up" /\ mode' \in Modes
  BY <1>1, <1>2 DEF Modes
<1>. QED
  BY <1>1, <1>4, <1>5, <1>6, <1>7, RecoveryGoesOn

\* An empty log and a fresh file.
LEMMA CoreInit ==
    ASSUME Init
    PROVE  Core
<1>1. PICK n \in PageCounts : file = NewFile(n) /\ mem = InitDb(n)
  BY DEF Init
<1>2. n \in Nat
  BY DurabilityAssumption
<1>3. file \in Files
  <2>. DEFINE page == [p \in Pages |-> IF p <= n THEN [lsn |-> 0, val |-> 0] ELSE NoPage]
  <2>1. file = [page |-> page, cnt |-> n, maybe |-> [p \in Pages |-> {page[p]}],
                maybe_cnt |-> {n}]
    BY <1>1 DEF NewFile
  <2>2. page \in [Pages -> Versions]
    BY NoPageIsOld DEF Versions
  <2>. HIDE DEF page
  <2>. QED
    BY <1>2, <2>1, <2>2 DEF Files
<1>4. mem \in Dbs
  BY <1>1, <1>2 DEF InitDb, Dbs
<1>5. /\ wal = <<>> /\ synced = 0 /\ durable_lsn = 0 /\ dirty_pages = [p \in Pages |-> 0]
      /\ status = [t \in Txns |-> "None"] /\ next_transaction_id = 1
      /\ retained_transaction_floor = 1
      /\ document = [status |-> status, next |-> 1, floor |-> 1]
      /\ mode = "up" /\ phase = [t \in Txns |-> "none"]
      /\ job = Idle /\ checkpoint = Idle /\ rec = Idle /\ acked = {}
  BY DEF Init
<1>6. wal \in Seq(Records) /\ Len(wal) = 0 /\ Lsns(wal) = {}
  BY <1>5, EmptySeq DEF Lsns
<1>7. Types
  <2>1. LogTypes
    BY <1>5, <1>6 DEF LogTypes, Positions
  <2>2. StatusTypes
    BY <1>5 DEF StatusTypes, Statuses
  <2>3. SessionTypes
    BY <1>4, <1>5 DEF SessionTypes, Modes, Phases
  <2>. QED
    BY <1>3, <1>5, <2>1, <2>2, <2>3 DEF Types
<1>8. Pointers
  BY <1>5, <1>6, IdleIs DEF Pointers, Linked
<1>9. Owners /\ Begun
  BY <1>5 DEF Owners, Begun
<1>10. PagesLogged
  BY <1>5, IdleIs DEF PagesLogged, Early
<1>. QED
  BY <1>7, <1>8, <1>9, <1>10 DEF Core

\* Every step of the system keeps the core.
LEMMA CoreStep ==
    ASSUME Core, [Next]_vars
    PROVE  Core'
<1>1. CASE \E t \in Txns : Session(t)
  <2>1. PICK t \in Txns : Session(t)
    BY <1>1
  <2>. QED
    BY <2>1, CoreSession, CorePrepare DEF Session
<1>2. CASE \E h \in 1 .. MaxTxn + 1 : compact_before(h)
  BY <1>2, CoreCompact
<1>3. CASE Persist
  BY <1>3, CoreLogPage, StageLogs, CoreMarkCommitted, CoreApplyPage, CoreApply, CoreJobEnds
     DEF Persist
<1>4. CASE persist_fails_active \/ persist_fails_committed
  BY <1>4, CoreJobEnds
<1>5. CASE \E t \in Txns : begin_fails_flush(t) \/ begin_fails_status(t) \/ abort_fails(t)
  BY <1>5, CoreSession
<1>6. CASE checkpoint_sample \/ checkpoint_begin \/ checkpoint_end
  BY <1>6, CoreCheckpoint
<1>7. CASE power_loss \/ process_crash
  BY <1>7, CoreCrash
<1>8. CASE Recovery
  <2>1. CASE \E t \in Txns : Undo(t)
    BY <2>1, CoreUndo
  <2>. QED
    BY <1>8, <2>1, CoreRecover, CoreRedo, CoreFinish, CoreRecoveryCheckpoint, CoreReconcile
       DEF Recovery
<1>9. CASE UNCHANGED vars
  <2>1. Grows /\ LogTypes' /\ Linked(wal)'
    BY <1>9, StandsStill DEF Core, Types, LogTypes, Pointers, vars, walVars
  <2>2. Pointers' /\ Owners' /\ Begun' /\ PagesLogged'
    BY <1>9, <2>1, PointersStay, OwnersStay, PagesLoggedStay DEF Core, LogTypes, vars
  <2>3. Types'
    BY <1>9, <2>1 DEF Core, Types, StatusTypes, SessionTypes, vars, statusVars
  <2>. QED
    BY <2>2, <2>3 DEF Core
<1>. QED
  BY <1>1, <1>2, <1>3, <1>4, <1>5, <1>6, <1>7, <1>8, <1>9 DEF Next

\* The log, the document, the file, the running commit, checkpoint and recovery have the types
\* the code gives them; records refer to earlier records only, so undo ends; one commit runs at a
\* time; and a page is written to the file only after persist_candidate has logged it.
THEOREM CoreInvariant == Spec => []Core
<1>1. Init => Core
  BY CoreInit
<1>2. Core /\ [Next]_vars => Core'
  BY CoreStep
<1>. QED
  BY <1>1, <1>2, PTL DEF Spec

(***************************************************************************)
(* What a step does to the log.                                            *)
(***************************************************************************)
LogMoves ==
    /\ Grows
    /\ \/ UNCHANGED <<synced, durable_lsn>>
       \/ synced' = Len(wal') /\ durable_lsn' = Len(wal')

\* An append, flushed or not, moves the log forward.
LEMMA AppendMoves ==
    ASSUME LogTypes, NEW r, wal' = Append(wal, r),
           UNCHANGED <<synced, durable_lsn>> \/ sync(Len(wal) + 1, Len(wal) + 1)
    PROVE  LogMoves /\ (sync(Len(wal) + 1, Len(wal) + 1) => synced' = Len(wal) + 1)
           /\ Len(wal) + 1 \in Lsns(wal') /\ wal'[Len(wal) + 1] = r
           /\ Lsns(wal') = Lsns(wal) \cup {Len(wal) + 1}
<1>1. /\ Len(wal') = Len(wal) + 1 /\ wal'[Len(wal) + 1] = r
      /\ \A i \in 1 .. Len(wal) : wal'[i] = wal[i]
      /\ Len(wal) \in Nat
  BY LenProperties DEF LogTypes
<1>2. Grows /\ Len(wal) + 1 \in Lsns(wal') /\ Lsns(wal') = Lsns(wal) \cup {Len(wal) + 1}
  BY <1>1 DEF Grows, Lsns
<1>3. sync(Len(wal) + 1, Len(wal) + 1) =>
         synced' = Len(wal) + 1 /\ durable_lsn' = Len(wal) + 1
  BY <1>1 DEF sync, LogTypes
<1>. QED
  BY <1>1, <1>2, <1>3 DEF LogMoves

\* A flush, needed or skipped, moves the log forward.
LEMMA FlushMoves ==
    ASSUME LogTypes, wal' = wal,
           UNCHANGED <<synced, durable_lsn>> \/ \E l : sync(l, Len(wal))
    PROVE  LogMoves
<1>1. Grows
  BY StandsStill DEF LogTypes
<1>. QED
  BY <1>1 DEF LogMoves, sync

\* Only a restart touches the log otherwise than by appending and flushing.
LEMMA LogSteps ==
    ASSUME Core, [Next]_vars
    PROVE  LogMoves \/ power_loss \/ process_crash \/ recover
<1>0. LogTypes
  BY DEF Core, Types
<1>1. CASE \E t \in Txns : Session(t)
  <2>1. PICK t \in Txns : Session(t)
    BY <1>1
  <2>2. CASE begin_transaction(t)
    BY <1>0, <2>2, AppendMoves DEF begin_transaction, append_and_flush, append
  <2>3. CASE commit_empty_wal(t) \/ abort_wal(t)
    BY <1>0, <2>3, AppendMoves DEF commit_empty_wal, abort_wal, terminate
  <2>4. CASE begin_durable(t) \/ prepare_commit(t) \/ commit_empty_status(t) \/ abort_status(t)
    BY <1>0, <2>4, FlushMoves
       DEF begin_durable, prepare_commit, commit_empty_status, abort_status, walVars
  <2>. QED
    BY <2>1, <2>2, <2>3, <2>4 DEF Session
<1>2. CASE \E h \in 1 .. MaxTxn + 1 : compact_before(h)
  BY <1>0, <1>2, FlushMoves DEF compact_before, walVars
<1>3. CASE Persist
  <2>1. CASE log_page
    BY <1>0, <2>1, AppendMoves DEF log_page, append
  <2>2. CASE log_resize \/ commit_append
    BY <1>0, <2>2, AppendMoves DEF log_resize, commit_append, append
  <2>3. CASE log_flush \/ apply_page \/ commit_flush
    BY <1>0, <2>3, FlushMoves DEF log_flush, apply_page, commit_flush
  <2>4. CASE mark_status_committed \/ apply_resize \/ apply_sync \/ publish_prepared
    BY <1>0, <2>4, FlushMoves
       DEF mark_status_committed, apply_resize, apply_sync, publish_prepared, walVars
  <2>. QED
    BY <1>3, <2>1, <2>2, <2>3, <2>4 DEF Persist
<1>4. CASE persist_fails_active \/ persist_fails_committed
  BY <1>0, <1>4, FlushMoves DEF persist_fails_active, persist_fails_committed, walVars
<1>5. CASE \E t \in Txns : begin_fails_flush(t) \/ begin_fails_status(t) \/ abort_fails(t)
  <2>1. PICK t \in Txns : begin_fails_flush(t) \/ begin_fails_status(t) \/ abort_fails(t)
    BY <1>5
  <2>2. CASE begin_fails_flush(t)
    BY <1>0, <2>2, AppendMoves DEF begin_fails_flush, append
  <2>3. CASE begin_fails_status(t)
    BY <1>0, <2>3, FlushMoves DEF begin_fails_status, walVars
  <2>4. CASE abort_fails(t)
    BY <1>0, <2>4, AppendMoves, FlushMoves DEF abort_fails
  <2>. QED
    BY <2>1, <2>2, <2>3, <2>4
<1>6. CASE checkpoint_sample \/ checkpoint_begin \/ checkpoint_end
  <2>1. CASE checkpoint_sample
    BY <1>0, <2>1, FlushMoves DEF checkpoint_sample, walVars
  <2>2. CASE checkpoint_begin
    BY <1>0, <2>2, AppendMoves DEF checkpoint_begin, append_and_flush, append
  <2>3. CASE checkpoint_end
    BY <1>0, <2>3, AppendMoves DEF checkpoint_end, append_and_flush, append
  <2>. QED
    BY <1>6, <2>1, <2>2, <2>3
<1>7. CASE Recovery
  <2>1. CASE \E t \in Txns : Undo(t)
    <3>1. PICK t \in Txns : Undo(t)
      BY <2>1
    <3>2. CASE undo_begin(t)
      BY <1>0, <3>2, AppendMoves DEF undo_begin, terminate
    <3>3. CASE undo_page(t)
      BY <1>0, <3>3, AppendMoves DEF undo_page, append_and_flush, append
    <3>4. CASE undo_resize(t)
      BY <1>0, <3>4, AppendMoves DEF undo_resize, append_and_flush, append
    <3>5. CASE undo_compensation(t)
      BY <1>0, <3>5, FlushMoves DEF undo_compensation, walVars
    <3>. QED
      BY <3>1, <3>2, <3>3, <3>4, <3>5 DEF Undo
  <2>2. CASE redo \/ recovery_finish \/ reconcile_with_wal
    BY <1>0, <2>2, FlushMoves DEF redo, recovery_finish, reconcile_with_wal, walVars
  <2>3. CASE recovery_checkpoint_begin
    BY <1>0, <2>3, AppendMoves DEF recovery_checkpoint_begin, append_and_flush, append
  <2>4. CASE recovery_checkpoint_end
    BY <1>0, <2>4, AppendMoves DEF recovery_checkpoint_end, append_and_flush, append
  <2>. QED
    BY <1>7, <2>1, <2>2, <2>3, <2>4 DEF Recovery
<1>8. CASE UNCHANGED vars
  BY <1>0, <1>8, FlushMoves DEF vars, walVars
<1>. QED
  BY <1>1, <1>2, <1>3, <1>4, <1>5, <1>6, <1>7, <1>8 DEF Next

(***************************************************************************)
(* Whose record a step adds to the log.                                    *)
(***************************************************************************)
Authored(r) ==
    /\ r.kind = "Commit" => \/ commit_append /\ r.txn = job.txn
                            \/ r.txn \in Txns /\ commit_empty_wal(r.txn)
    /\ \/ r.txn = 0
       \/ mode # "up"
       \/ r.txn \in Txns /\ phase[r.txn] \notin {"none", "gone", "begun"}
       \/ r.txn \in Txns /\ (begin_transaction(r.txn) \/ begin_fails_flush(r.txn))

Writes == wal' = wal \/ \E r : wal' = Append(wal, r) /\ Authored(r)

\* The kind and the transaction of each record the code constructs.
LEMMA RecordFields ==
    /\ \A t : Begin(t).kind = "Begin" /\ Begin(t).txn = t
    /\ \A t, l : /\ Commit(t, l).kind = "Commit" /\ Commit(t, l).txn = t
                 /\ Abort(t, l).kind = "Abort" /\ Abort(t, l).txn = t
    /\ \A t, l, p, b, a : /\ PageUpdate(t, l, p, b, a).kind = "PageUpdate"
                          /\ PageUpdate(t, l, p, b, a).txn = t
    /\ \A t, l, b, a : Resize(t, l, b, a).kind = "Resize" /\ Resize(t, l, b, a).txn = t
    /\ \A t, l, p, u, n, x : /\ Compensation(t, l, p, u, n, x).kind = "Compensation"
                             /\ Compensation(t, l, p, u, n, x).txn = t
    /\ \A d : CheckpointBegin(d).kind = "CheckpointBegin" /\ CheckpointBegin(d).txn = 0
    /\ \A l : CheckpointEnd(l).kind = "CheckpointEnd" /\ CheckpointEnd(l).txn = 0
BY DEF Begin, Commit, Abort, PageUpdate, Resize, Compensation, CheckpointBegin, CheckpointEnd

\* Every record a step appends was written by the transaction it names, which has begun; only
\* commit_transaction_at and commit_empty write Commit records.
LEMMA RecordSteps ==
    ASSUME Core, [Next]_vars
    PROVE  Writes \/ power_loss
<1>1. CASE \E t \in Txns : Session(t)
  <2>1. PICK t \in Txns : Session(t)
    BY <1>1
  <2>2. CASE begin_transaction(t)
    <3>1. wal' = Append(wal, Begin(t))
      BY <2>2 DEF begin_transaction, append_and_flush, append
    <3>2. Authored(Begin(t))
      BY <2>2, RecordFields DEF Authored
    <3>. QED
      BY <3>1, <3>2 DEF Writes
  <2>3. CASE commit_empty_wal(t)
    <3>1. wal' = Append(wal, Commit(t, last_lsn(wal, t))) /\ phase[t] = "empty"
      BY <2>3 DEF commit_empty_wal, terminate
    <3>2. Authored(Commit(t, last_lsn(wal, t)))
      BY <2>3, <3>1, RecordFields DEF Authored
    <3>. QED
      BY <3>1, <3>2 DEF Writes
  <2>4. CASE abort_wal(t)
    <3>1. wal' = Append(wal, Abort(t, last_lsn(wal, t))) /\ phase[t] \in {"active", "failed"}
      BY <2>4 DEF abort_wal, terminate
    <3>2. Authored(Abort(t, last_lsn(wal, t)))
      BY <2>4, <3>1, RecordFields DEF Authored
    <3>. QED
      BY <3>1, <3>2 DEF Writes
  <2>5. CASE begin_durable(t) \/ prepare_commit(t) \/ commit_empty_status(t) \/ abort_status(t)
    BY <2>5 DEF Writes, begin_durable, prepare_commit, commit_empty_status, abort_status, walVars
  <2>. QED
    BY <2>1, <2>2, <2>3, <2>4, <2>5 DEF Session
<1>2. CASE \E h \in 1 .. MaxTxn + 1 : compact_before(h)
  BY <1>2 DEF Writes, compact_before, walVars
<1>3. CASE Persist
  <2>0. job.step # "idle" => job.txn \in Txns /\ phase[job.txn] = "persist"
    BY JobIs DEF Core
  <2>1. CASE log_page
    <3>. DEFINE p == Min(job.todo)
                r == PageUpdate(job.txn, last_lsn(wal, job.txn), p, file.page[p],
                                After(p, Len(wal) + 1))
    <3>1. wal' = Append(wal, r) /\ job.step = "log"
      BY <2>1 DEF log_page, append
    <3>. HIDE DEF p
    <3>2. r.kind = "PageUpdate" /\ r.txn = job.txn
      BY RecordFields
    <3>. HIDE DEF r
    <3>3. Authored(r)
      BY <2>0, <3>1, <3>2 DEF Authored
    <3>. QED
      BY <3>1, <3>3 DEF Writes
  <2>2. CASE log_resize
    <3>. DEFINE r == Resize(job.txn, last_lsn(wal, job.txn), job.before, job.db.cnt)
    <3>1. wal' = Append(wal, r) /\ job.step = "log"
      BY <2>2 DEF log_resize, append
    <3>2. r.kind = "Resize" /\ r.txn = job.txn
      BY RecordFields
    <3>. HIDE DEF r
    <3>3. Authored(r)
      BY <2>0, <3>1, <3>2 DEF Authored
    <3>. QED
      BY <3>1, <3>3 DEF Writes
  <2>3. CASE commit_append
    <3>. DEFINE r == Commit(job.txn, last_lsn(wal, job.txn))
    <3>1. wal' = Append(wal, r) /\ job.step = "commit"
      BY <2>3 DEF commit_append, append
    <3>2. r.txn = job.txn
      BY RecordFields
    <3>. HIDE DEF r
    <3>3. Authored(r)
      BY <2>0, <2>3, <3>1, <3>2 DEF Authored
    <3>. QED
      BY <3>1, <3>3 DEF Writes
  <2>4. CASE \/ log_flush \/ apply_page \/ commit_flush \/ mark_status_committed \/ apply_resize
             \/ apply_sync \/ publish_prepared
    BY <2>4 DEF Writes, log_flush, apply_page, commit_flush, mark_status_committed, apply_resize,
                apply_sync, publish_prepared, walVars
  <2>. QED
    BY <1>3, <2>1, <2>2, <2>3, <2>4 DEF Persist
<1>4. CASE persist_fails_active \/ persist_fails_committed
  BY <1>4 DEF Writes, persist_fails_active, persist_fails_committed, walVars
<1>5. CASE \E t \in Txns : begin_fails_flush(t) \/ begin_fails_status(t) \/ abort_fails(t)
  <2>1. PICK t \in Txns : begin_fails_flush(t) \/ begin_fails_status(t) \/ abort_fails(t)
    BY <1>5
  <2>2. CASE begin_fails_flush(t)
    <3>1. wal' = Append(wal, Begin(t))
      BY <2>2 DEF begin_fails_flush, append
    <3>2. Authored(Begin(t))
      BY <2>2, RecordFields DEF Authored
    <3>. QED
      BY <3>1, <3>2 DEF Writes
  <2>3. CASE begin_fails_status(t)
    BY <2>3 DEF Writes, begin_fails_status, walVars
  <2>4. CASE abort_fails(t)
    <3>1. Authored(Abort(t, last_lsn(wal, t)))
      BY <2>4, RecordFields DEF Authored, abort_fails
    <3>. QED
      BY <2>4, <3>1 DEF Writes, abort_fails
  <2>. QED
    BY <2>1, <2>2, <2>3, <2>4
<1>6. CASE checkpoint_sample \/ checkpoint_begin \/ checkpoint_end
  <2>1. \A d : Authored(CheckpointBegin(d))
    BY RecordFields DEF Authored
  <2>2. \A l : Authored(CheckpointEnd(l))
    BY RecordFields DEF Authored
  <2>3. CASE checkpoint_sample
    BY <2>3 DEF Writes, checkpoint_sample, walVars
  <2>4. CASE checkpoint_begin
    BY <2>1, <2>4 DEF Writes, checkpoint_begin, append_and_flush, append
  <2>5. CASE checkpoint_end
    BY <2>2, <2>5 DEF Writes, checkpoint_end, append_and_flush, append
  <2>. QED
    BY <1>6, <2>3, <2>4, <2>5
<1>7. CASE Recovery
  <2>1. \A r : mode # "up" /\ r.kind # "Commit" => Authored(r)
    BY DEF Authored
  <2>2. CASE \E t \in Txns : Undo(t)
    <3>1. PICK t \in Txns : Undo(t)
      BY <2>2
    <3>2. mode = "recovering"
      BY <3>1 DEF Undo, undo_begin, undo_page, undo_resize, undo_compensation, NextLoser,
                  Recovering
    <3>3. CASE undo_begin(t)
      BY <2>1, <3>2, <3>3, RecordFields DEF Writes, undo_begin, terminate
    <3>4. CASE undo_page(t)
      BY <2>1, <3>2, <3>4, RecordFields DEF Writes, undo_page, append_and_flush, append
    <3>5. CASE undo_resize(t)
      BY <2>1, <3>2, <3>5, RecordFields DEF Writes, undo_resize, append_and_flush, append
    <3>6. CASE undo_compensation(t)
      BY <3>6 DEF Writes, undo_compensation, walVars
    <3>. QED
      BY <3>1, <3>3, <3>4, <3>5, <3>6 DEF Undo
  <2>3. CASE recover \/ redo \/ recovery_finish \/ reconcile_with_wal
    BY <2>3 DEF Writes, recover, redo, recovery_finish, reconcile_with_wal, walVars
  <2>4. CASE recovery_checkpoint_begin
    BY <2>1, <2>4, RecordFields
       DEF Writes, recovery_checkpoint_begin, append_and_flush, append, Recovering
  <2>5. CASE recovery_checkpoint_end
    BY <2>1, <2>5, RecordFields
       DEF Writes, recovery_checkpoint_end, append_and_flush, append, Recovering
  <2>. QED
    BY <1>7, <2>2, <2>3, <2>4, <2>5 DEF Recovery
<1>8. CASE process_crash
  BY <1>8 DEF Writes, process_crash
<1>9. CASE UNCHANGED vars
  BY <1>9 DEF Writes, vars, walVars
<1>. QED
  BY <1>1, <1>2, <1>3, <1>4, <1>5, <1>6, <1>7, <1>8, <1>9 DEF Next

(***************************************************************************)
(* A transaction whose COMMIT succeeded is in the log for good.            *)
(***************************************************************************)
CommitAt(i, t) == i \in Lsns(wal) /\ wal[i].kind = "Commit" /\ wal[i].txn = t

\* The Commit record of the running job is not taken for durable before it is, and is
\* before the job publishes.
CommitIsLogged ==
    /\ job.step = "commit_flush" =>
          \E i \in Lsns(wal) : CommitAt(i, job.txn) /\ (i > durable_lsn \/ i <= synced)
    /\ job.step = "publish" => \E i \in Lsns(wal) : CommitAt(i, job.txn) /\ i <= synced

\* Which steps tell a client, and which bring the job to its Commit record.
LEMMA AckSteps ==
    ASSUME Core, [Next]_vars
    PROVE  /\ job'.step = "commit_flush" => commit_append \/ job' = job
           /\ job'.step = "publish" => commit_flush \/ job' = job
           /\ \/ acked' = acked
              \/ publish_prepared /\ acked' = acked \cup {job.txn}
              \/ \E t \in Txns : commit_empty_wal(t) /\ acked' = acked \cup {t}
<1>1. CASE \E t \in Txns : Session(t)
  <2>1. PICK t \in Txns : Session(t)
    BY <1>1
  <2>2. CASE prepare_commit(t)
    <3>1. job'.step = "log" /\ acked' = acked
      BY <2>2 DEF prepare_commit
    <3>. QED
      BY <3>1
  <2>3. CASE ~prepare_commit(t)
    BY <2>1, <2>3 DEF Session, begin_transaction, begin_durable, commit_empty_status,
                      commit_empty_wal, abort_wal, abort_status
  <2>. QED
    BY <2>2, <2>3
<1>2. CASE \E h \in 1 .. MaxTxn + 1 : compact_before(h)
  BY <1>2 DEF compact_before
<1>3. CASE Persist
  <2>1. job.step # "idle"
    BY <1>3 DEF Persist, log_page, log_resize, log_flush, mark_status_committed, apply_page,
                apply_resize, apply_sync, commit_append, commit_flush, publish_prepared
  <2>2. job \in Jobs
    BY <2>1, JobIs DEF Core
  <2>3. CASE \/ log_page \/ log_resize \/ log_flush \/ mark_status_committed \/ apply_page
             \/ apply_resize \/ apply_sync
    <3>1. job'.step \in {"log", "logged", "status", "apply", "resized", "commit"}
      BY <2>2, <2>3 DEF log_page, log_resize, log_flush, mark_status_committed, apply_page,
                        apply_resize, apply_sync, Jobs
    <3>2. acked' = acked
      BY <2>3 DEF log_page, log_resize, log_flush, mark_status_committed, apply_page,
                  apply_resize, apply_sync
    <3>. QED
      BY <3>1, <3>2
  <2>4. CASE commit_append
    BY <2>2, <2>4 DEF commit_append, Jobs
  <2>5. CASE commit_flush
    BY <2>2, <2>5 DEF commit_flush, Jobs
  <2>6. CASE publish_prepared
    BY <2>6, IdleIs DEF publish_prepared
  <2>. QED
    BY <1>3, <2>3, <2>4, <2>5, <2>6 DEF Persist
<1>4. CASE persist_fails_active \/ persist_fails_committed
  BY <1>4, IdleIs DEF persist_fails_active, persist_fails_committed
<1>5. CASE \E t \in Txns : begin_fails_flush(t) \/ begin_fails_status(t) \/ abort_fails(t)
  BY <1>5 DEF begin_fails_flush, begin_fails_status, abort_fails
<1>6. CASE checkpoint_sample \/ checkpoint_begin \/ checkpoint_end
  BY <1>6 DEF checkpoint_sample, checkpoint_begin, checkpoint_end
<1>7. CASE power_loss \/ process_crash
  <2>1. job' = Idle /\ acked' = acked
    BY <1>7 DEF power_loss, process_crash, LoseMemory
  <2>. QED
    BY <2>1, IdleIs
<1>8. CASE Recovery
  BY <1>8 DEF Recovery, recover, redo, Undo, undo_begin, undo_page, undo_resize,
              undo_compensation, recovery_finish, recovery_checkpoint_begin,
              recovery_checkpoint_end, reconcile_with_wal
<1>9. CASE UNCHANGED vars
  BY <1>9 DEF vars
<1>. QED
  BY <1>1, <1>2, <1>3, <1>4, <1>5, <1>6, <1>7, <1>8, <1>9 DEF Next

\* A COMMIT that returned, and one about to return, has its Commit record flushed.
LEMMA AcksStep ==
    ASSUME Core, [Next]_vars, AckedIsDurable, CommitIsLogged
    PROVE  AckedIsDurable' /\ CommitIsLogged'
<1>0. /\ wal \in Seq(Records) /\ Len(wal) \in Nat /\ synced \in 0 .. Len(wal)
      /\ durable_lsn \in 0 .. Len(wal) /\ LogTypes /\ Linked(wal)
  BY LenProperties DEF Core, Types, LogTypes, Pointers
<1>1. CASE power_loss
  <2>1. PICK n \in synced .. Len(wal) : wal' = SubSeq(wal, 1, n) /\ synced' = n
    BY <1>1 DEF power_loss
  <2>2. \A i \in 1 .. n : wal'[i] = wal[i]
    BY <1>0, <2>1, PrefixFacts
  <2>3. acked' = acked /\ job' = Idle
    BY <1>1 DEF power_loss, LoseMemory
  <2>4. AckedIsDurable'
    BY <1>0, <2>1, <2>2, <2>3 DEF AckedIsDurable
  <2>. QED
    BY <2>3, <2>4, IdleIs DEF CommitIsLogged
<1>2. CASE process_crash
  <2>1. acked' = acked /\ job' = Idle /\ UNCHANGED <<wal, synced>>
    BY <1>2 DEF process_crash, LoseMemory
  <2>2. AckedIsDurable'
    BY <2>1 DEF AckedIsDurable
  <2>. QED
    BY <2>1, <2>2, IdleIs DEF CommitIsLogged
<1>3. CASE recover
  <2>1. UNCHANGED <<acked, job, wal, synced>> /\ mode = "down"
    BY <1>3 DEF recover
  <2>2. job = Idle
    BY <2>1 DEF Core, Owners
  <2>3. AckedIsDurable'
    BY <2>1 DEF AckedIsDurable
  <2>. QED
    BY <2>1, <2>2, <2>3, IdleIs DEF CommitIsLogged
<1>4. CASE LogMoves
  <2>1. /\ Lsns(wal) \subseteq Lsns(wal') /\ \A i \in Lsns(wal) : wal'[i] = wal[i]
        /\ synced <= synced' /\ Len(wal') \in Nat /\ Len(wal) <= Len(wal')
        /\ \/ UNCHANGED <<synced, durable_lsn>>
           \/ synced' = Len(wal') /\ durable_lsn' = Len(wal')
    <3>1. Len(wal') \in Nat
      BY CoreStep, LenProperties DEF Core, Types, LogTypes
    <3>. QED
      BY <1>0, <1>4, <3>1 DEF LogMoves, Grows
  <2>2. synced \in Nat /\ durable_lsn \in Nat /\ Lsns(wal) = 1 .. Len(wal)
        /\ Lsns(wal') = 1 .. Len(wal') /\ synced' \in Nat
    BY <1>0, <2>1 DEF Lsns
  <2>3. \A t : (\E i \in 1 .. synced : wal[i].kind = "Commit" /\ wal[i].txn = t)
            => \E i \in 1 .. synced' : wal'[i].kind = "Commit" /\ wal'[i].txn = t
    BY <1>0, <2>1, <2>2
  <2>4. ASSUME NEW t, NEW i \in Lsns(wal), CommitAt(i, t)
        PROVE  CommitAt(i, t)' /\ (i > durable_lsn \/ i <= synced
                                       => i > durable_lsn' \/ i <= synced')
               /\ (i <= synced => i <= synced')
    <3>1. i \in 1 .. Len(wal)
      BY <2>2
    <3>. QED
      BY <1>0, <2>1, <2>2, <2>4, <3>1 DEF CommitAt
  <2>5. AckedIsDurable'
    <3>1. CASE acked' = acked
      BY <2>3, <3>1 DEF AckedIsDurable
    <3>2. CASE publish_prepared /\ acked' = acked \cup {job.txn}
      <4>1. PICK i \in Lsns(wal) : CommitAt(i, job.txn) /\ i <= synced
        BY <3>2 DEF publish_prepared, CommitIsLogged
      <4>2. \E j \in 1 .. synced : wal[j].kind = "Commit" /\ wal[j].txn = job.txn
        BY <2>2, <4>1 DEF CommitAt
      <4>. QED
        BY <2>3, <3>2, <4>2 DEF AckedIsDurable
    <3>3. CASE \E t \in Txns : commit_empty_wal(t) /\ acked' = acked \cup {t}
      <4>1. PICK t \in Txns : commit_empty_wal(t) /\ acked' = acked \cup {t}
        BY <3>3
      <4>. DEFINE r == Commit(t, last_lsn(wal, t))
      <4>2. wal' = Append(wal, r) /\ sync(Len(wal) + 1, Len(wal) + 1)
        BY <4>1 DEF commit_empty_wal, terminate
      <4>3. r.kind = "Commit" /\ r.txn = t
        BY RecordFields
      <4>. HIDE DEF r
      <4>4. synced' = Len(wal) + 1 /\ wal'[Len(wal) + 1] = r
        BY <1>0, <4>2, AppendMoves
      <4>5. \E i \in 1 .. synced' : wal'[i].kind = "Commit" /\ wal'[i].txn = t
        BY <1>0, <4>3, <4>4
      <4>. QED
        BY <2>3, <4>1, <4>5 DEF AckedIsDurable
    <3>. QED
      BY <3>1, <3>2, <3>3, AckSteps
  <2>6. ASSUME job'.step = "commit_flush"
        PROVE  \E i \in Lsns(wal') : CommitAt(i, job.txn)' /\ (i > durable_lsn' \/ i <= synced')
    <3>1. CASE job' = job
      <4>1. PICK i \in Lsns(wal) : CommitAt(i, job.txn) /\ (i > durable_lsn \/ i <= synced)
        BY <2>6, <3>1 DEF CommitIsLogged
      <4>2. CommitAt(i, job'.txn)
        BY <3>1, <4>1
      <4>. QED
        BY <2>1, <2>4, <3>1, <4>1, <4>2
    <3>2. CASE commit_append
      <4>. DEFINE r == Commit(job.txn, last_lsn(wal, job.txn))
      <4>1. wal' = Append(wal, r) /\ UNCHANGED <<synced, durable_lsn>> /\ job'.txn = job.txn
        <5>1. job \in Jobs
          BY <3>2, JobIs DEF commit_append, Core
        <5>. QED
          BY <3>2, <5>1 DEF commit_append, append, Jobs
      <4>2. r.kind = "Commit" /\ r.txn = job.txn
        BY RecordFields
      <4>. HIDE DEF r
      <4>3. Len(wal) + 1 \in Lsns(wal') /\ wal'[Len(wal) + 1] = r
        BY <1>0, <4>1, AppendMoves
      <4>4. Len(wal) + 1 > durable_lsn'
        BY <1>0, <4>1
      <4>. QED
        BY <4>1, <4>2, <4>3, <4>4 DEF CommitAt
    <3>. QED
      BY <2>6, <3>1, <3>2, AckSteps
  <2>7. ASSUME job'.step = "publish"
        PROVE  \E i \in Lsns(wal') : CommitAt(i, job.txn)' /\ i <= synced'
    <3>1. CASE job' = job
      <4>1. PICK i \in Lsns(wal) : CommitAt(i, job.txn) /\ i <= synced
        BY <2>7, <3>1 DEF CommitIsLogged
      <4>2. CommitAt(i, job'.txn)
        BY <3>1, <4>1
      <4>. QED
        BY <2>1, <2>4, <3>1, <4>1, <4>2
    <3>2. CASE commit_flush
      <4>1. /\ wal' = wal /\ sync(last_lsn(wal, job.txn), Len(wal)) /\ job'.txn = job.txn
            /\ job.step = "commit_flush"
        <5>1. job \in Jobs
          BY <3>2, JobIs DEF commit_flush, Core
        <5>. QED
          BY <3>2, <5>1 DEF commit_flush, Jobs
      <4>2. PICK i \in Lsns(wal) : CommitAt(i, job.txn) /\ (i > durable_lsn \/ i <= synced)
        BY <4>1 DEF CommitIsLogged
      <4>3. i <= last_lsn(wal, job.txn) /\ last_lsn(wal, job.txn) \in Nat /\ i \in Nat
            /\ i <= Len(wal)
        BY <1>0, <2>2, <4>2, LastLsnFacts DEF CommitAt
      <4>4. i <= synced'
        BY <1>0, <4>1, <4>2, <4>3 DEF sync
      <4>. QED
        BY <4>1, <4>2, <4>4 DEF CommitAt
    <3>. QED
      BY <2>7, <3>1, <3>2, AckSteps
  <2>. QED
    BY <2>5, <2>6, <2>7 DEF CommitIsLogged
<1>. QED
  BY <1>1, <1>2, <1>3, <1>4, LogSteps

\* A transaction whose COMMIT returned success has its Commit record in the part of the log that
\* no power loss takes away, through crashes, recoveries, checkpoints and failed calls:
\* commit_transaction_at and commit_empty flush before they return, and no restart shortens the
\* log below what was flushed.
THEOREM CommitsAreDurable == Spec => []AckedIsDurable
<1>1. Init => AckedIsDurable /\ CommitIsLogged
  BY IdleIs DEF Init, AckedIsDurable, CommitIsLogged
<1>2. Core /\ AckedIsDurable /\ CommitIsLogged /\ [Next]_vars => AckedIsDurable' /\ CommitIsLogged'
  BY AcksStep
<1>. QED
  BY <1>1, <1>2, CoreInvariant, PTL DEF Spec

(***************************************************************************)
(* The status document and the log.                                        *)
(***************************************************************************)
\* A transaction that may still abort, and one that is past that point.
Working(t)  == \/ phase[t] \in {"begun", "active", "failed", "aborting"}
               \/ (job.step \in Early /\ job.txn = t)
Deciding(t) == phase[t] = "empty" \/ (job.step \in Late /\ job.txn = t)

Settled(t) ==
    /\ Retained(t) /\ (Has(wal, t, "Commit") \/ Deciding(t)) =>
          status[t] = "Committed" /\ document.status[t] = "Committed"
    /\ Working(t) => status[t] # "Committed"
    /\ phase[t] = "begun" => ~Has(wal, t, "Commit")
    /\ mode = "up" /\ phase[t] \in {"none", "done", "lost", "gone"} /\ Retained(t)
           /\ status[t] = "Committed" => Has(wal, t, "Commit")

Floors ==
    /\ document.floor = retained_transaction_floor
    /\ retained_transaction_floor <= next_transaction_id /\ next_transaction_id >= 1
    /\ document.floor <= document.next /\ document.next >= 1
    /\ \A t \in Txns : phase[t] = "begun" => t = next_transaction_id

Agreement == Floors /\ \A t \in Txns : Settled(t)

\* What an append, and a cut, do to Has.
LEMMA HasAppend ==
    ASSUME wal \in Seq(Records), NEW r, wal' = Append(wal, r), NEW t
    PROVE  Has(wal', t, "Commit") <=> Has(wal, t, "Commit") \/ (r.kind = "Commit" /\ r.txn = t)
<1>1. /\ Len(wal') = Len(wal) + 1 /\ wal'[Len(wal) + 1] = r
      /\ \A i \in 1 .. Len(wal) : wal'[i] = wal[i]
      /\ Len(wal) \in Nat
  BY LenProperties
<1>2. Lsns(wal') = Lsns(wal) \cup {Len(wal) + 1} /\ \A i \in Lsns(wal) : wal'[i] = wal[i]
  BY <1>1 DEF Lsns
<1>. QED
  BY <1>1, <1>2 DEF Has

\* A Commit record appears in commit_append and commit_empty_wal only, and never disappears while
\* power lasts.
LEMMA HasSteps ==
    ASSUME Core, [Next]_vars, ~power_loss, NEW t
    PROVE  /\ Has(wal, t, "Commit") => Has(wal', t, "Commit")
           /\ Has(wal', t, "Commit") /\ ~Has(wal, t, "Commit") =>
                 \/ commit_append /\ job.txn = t
                 \/ t \in Txns /\ commit_empty_wal(t)
<1>1. wal \in Seq(Records)
  BY DEF Core, Types, LogTypes
<1>2. CASE wal' = wal
  BY <1>2
<1>3. CASE \E r : wal' = Append(wal, r) /\ Authored(r)
  <2>1. PICK r : wal' = Append(wal, r) /\ Authored(r)
    BY <1>3
  <2>2. Has(wal', t, "Commit") <=> Has(wal, t, "Commit") \/ (r.kind = "Commit" /\ r.txn = t)
    BY <1>1, <2>1, HasAppend
  <2>3. ASSUME r.kind = "Commit", r.txn = t
        PROVE  (commit_append /\ job.txn = t) \/ (t \in Txns /\ commit_empty_wal(t))
    BY <2>1, <2>3, Zenon DEF Authored
  <2>. QED
    BY <2>2, <2>3
<1>. QED
  BY <1>2, <1>3, RecordSteps DEF Writes

\* A transaction that a step does not concern.
LEMMA SettledStays ==
    ASSUME NEW t \in Txns, Settled(t),
           Has(wal', t, "Commit") <=> Has(wal, t, "Commit"),
           Retained(t)' => Retained(t),
           status'[t] = status[t],
           document'.status[t] \in {document.status[t], status[t]},
           phase'[t] = phase[t], Working(t)' => Working(t), Deciding(t)' => Deciding(t),
           mode' = "up" => mode = "up"
    PROVE  Settled(t)'
BY DEF Settled

\* A step that leaves statuses and sessions alone, and at most goes on with the job.
LEMMA AgreementStays ==
    ASSUME Agreement,
           \A t \in Txns : Has(wal', t, "Commit") <=> Has(wal, t, "Commit"),
           UNCHANGED <<status, next_transaction_id, retained_transaction_floor, document, phase>>,
           mode' = "up" => mode = "up",
           \/ job' = job
           \/ job'.txn = job.txn /\ job'.step \in Early /\ job.step \in Early
           \/ job'.txn = job.txn /\ job'.step \in Late /\ job.step \in Late
    PROVE  Agreement'
<1>1. Floors'
  BY DEF Agreement, Floors
<1>2. Early \cap Late = {}
  BY DEF Early, Late
<1>3. ASSUME NEW t \in Txns
      PROVE  Settled(t)'
  <2>1. (Working(t)' => Working(t)) /\ (Deciding(t)' => Deciding(t))
    BY <1>2 DEF Working, Deciding
  <2>2. Retained(t)' => Retained(t)
    BY DEF Retained
  <2>3. Settled(t)
    BY DEF Agreement
  <2>. QED
    BY <2>1, <2>2, <2>3, SettledStays
<1>. QED
  BY <1>1, <1>3 DEF Agreement

\* Only two steps decide a transaction, and both show elsewhere.
LEMMA QuietHas ==
    ASSUME Core, [Next]_vars, mode' # "down", phase' = phase,
           job' = job \/ job'.step # "commit_flush"
    PROVE  \A t \in Txns : Has(wal', t, "Commit") <=> Has(wal, t, "Commit")
<1>1. ~power_loss
  BY DEF power_loss, LoseMemory
<1>2. ~commit_append
  <2>1. ASSUME commit_append
        PROVE  FALSE
    <3>1. job.step = "commit" /\ job' = [job EXCEPT !.step = "commit_flush"] /\ job \in Jobs
      BY <2>1, JobIs DEF commit_append, Core
    <3>2. job'.step = "commit_flush"
      BY <3>1 DEF Jobs
    <3>. QED
      BY <3>1, <3>2
  <2>. QED
    BY <2>1
<1>3. \A t \in Txns : ~commit_empty_wal(t)
  BY DEF commit_empty_wal, SetPhase, Core, Types, SessionTypes
<1>. QED
  BY <1>1, <1>2, <1>3, HasSteps

\* A record of one transaction says nothing of the others.
LEMMA HasOthers ==
    ASSUME Core, NEW r, wal' = Append(wal, r), NEW t, r.kind = "Commit" => r.txn = t
    PROVE  /\ \A u \in Txns \ {t} : Has(wal', u, "Commit") <=> Has(wal, u, "Commit")
           /\ r.kind # "Commit" => (Has(wal', t, "Commit") <=> Has(wal, t, "Commit"))
           /\ r.kind = "Commit" => Has(wal', t, "Commit")
<1>1. wal \in Seq(Records)
  BY DEF Core, Types, LogTypes
<1>. QED
  BY <1>1, HasAppend

\* Nobody but t is concerned by a step of t's session or of its job.
LEMMA OthersSettled ==
    ASSUME Core, Agreement, NEW t \in Txns, NEW v, SetPhase(t, v),
           \A u \in Txns \ {t} : /\ Has(wal', u, "Commit") <=> Has(wal, u, "Commit")
                                 /\ status'[u] = status[u]
                                 /\ document'.status[u] \in {document.status[u], status[u]},
           UNCHANGED <<retained_transaction_floor, mode>>,
           \/ job' = job
           \/ job' = Idle /\ job # Idle /\ job.txn = t
           \/ job' # Idle /\ job'.txn = t /\ job = Idle
    PROVE  \A u \in Txns \ {t} : Settled(u)'
<1>1. ASSUME NEW u \in Txns \ {t}
      PROVE  Settled(u)'
  <2>1. phase'[u] = phase[u]
    BY DEF SetPhase, Core, Types, SessionTypes
  <2>2. (Working(u)' => Working(u)) /\ (Deciding(u)' => Deciding(u))
    BY <2>1, IdleIs DEF Working, Deciding, Early, Late
  <2>3. Retained(u)' => Retained(u)
    BY DEF Retained
  <2>4. Settled(u)
    BY DEF Agreement
  <2>. QED
    BY <2>1, <2>2, <2>3, <2>4, SettledStays
<1>. QED
  BY <1>1

\* The session's own phase, when it is not the committing one.
LEMMA OwnPhase ==
    ASSUME Core, NEW t \in Txns, NEW v, SetPhase(t, v), phase[t] # "persist", job' = job
    PROVE  /\ phase'[t] = v
           /\ Working(t)' <=> v \in {"begun", "active", "failed", "aborting"}
           /\ Deciding(t)' <=> v = "empty"
           /\ Working(t) <=> phase[t] \in {"begun", "active", "failed", "aborting"}
           /\ Deciding(t) <=> phase[t] = "empty"
<1>1. phase'[t] = v
  BY DEF SetPhase, Core, Types, SessionTypes
<1>2. job.step \in Early \cup Late => job # Idle
  BY IdleIs DEF Early, Late
<1>3. ~(job.step \in Early /\ job.txn = t) /\ ~(job.step \in Late /\ job.txn = t)
  BY <1>2 DEF Core, Owners
<1>. QED
  BY <1>1, <1>3 DEF Working, Deciding

\* The retained floor and the next id stay in order while neither moves.
LEMMA FloorsStay ==
    ASSUME Core, Floors, UNCHANGED <<next_transaction_id, retained_transaction_floor>>,
           document'.floor = document.floor,
           document'.next \in {document.next, next_transaction_id},
           phase' = phase \/ \E t \in Txns : \E v \in Phases \ {"begun"} : SetPhase(t, v)
    PROVE  Floors'
<1>1. \A u \in Txns : phase'[u] = "begun" => phase[u] = "begun"
  BY DEF SetPhase, Core, Types, SessionTypes
<1>. QED
  BY <1>1 DEF Floors

\* The Begin record of begin_durable is no Commit record, and its id is the next one.
LEMMA AgreementBegin ==
    ASSUME Core, Agreement, NEW t \in Txns, begin_transaction(t)
    PROVE  Agreement'
<1>1. /\ mode = "up" /\ phase[t] \in {"none", "gone"}
      /\ SetPhase(t, "begun") /\ UNCHANGED <<statusVars, mode, job>> /\ StatusUnlocked
      /\ wal' = Append(wal, Begin(t))
      /\ t = next_transaction_id /\ \A i \in Lsns(wal) : wal[i].txn < t
  BY CanBeginIsIdle DEF begin_transaction, CanBegin, append_and_flush, append
<1>2. UNCHANGED <<status, next_transaction_id, retained_transaction_floor, document>>
  BY <1>1 DEF statusVars
<1>3. \A u \in Txns : Has(wal', u, "Commit") <=> Has(wal, u, "Commit")
  BY <1>1, HasOthers, RecordFields
<1>4. \A u \in Txns \ {t} : Settled(u)'
  BY <1>1, <1>2, <1>3, OthersSettled
<1>5. ~Has(wal, t, "Commit")
  <2>1. t \in Nat
    BY PagesAreNumbers
  <2>. QED
    BY <1>1, <2>1 DEF Has
<1>6. Retained(t) /\ status[t] # "Committed"
  <2>1. Retained(t)
    BY <1>1, PagesAreNumbers DEF Retained, Agreement, Floors, Core, Types, StatusTypes
  <2>. QED
    BY <1>1, <1>5, <2>1 DEF Agreement, Settled
<1>7. Settled(t)'
  BY <1>1, <1>2, <1>3, <1>5, <1>6, OwnPhase DEF Settled
<1>8. Floors'
  <2>1. \A u \in Txns \ {t} : phase'[u] # "begun"
    BY <1>1 DEF SetPhase, StatusUnlocked, Core, Types, SessionTypes
  <2>. QED
    BY <1>1, <1>2, <2>1 DEF Agreement, Floors
<1>. QED
  BY <1>4, <1>7, <1>8 DEF Agreement

\* begin_durable stores the candidate in memory, also when it cannot be written.
LEMMA AgreementAllocate ==
    ASSUME Core, Agreement, NEW t \in Txns, begin_durable(t) \/ begin_fails_status(t)
    PROVE  Agreement'
<1>. DEFINE v == IF begin_durable(t) THEN "active" ELSE "lost"
<1>1. /\ phase[t] = "begun" /\ SetPhase(t, v) /\ v \in {"active", "lost"}
      /\ status' = [status EXCEPT ![t] = "InProgress"] /\ next_transaction_id' = t + 1
      /\ UNCHANGED <<retained_transaction_floor, wal, mode, job>>
      /\ write_document_atomic \/ UNCHANGED document
  BY DEF begin_durable, begin_fails_status, allocate_transaction, walVars
<1>. HIDE DEF v
<1>2. /\ status'[t] = "InProgress" /\ \A u \in Txns \ {t} : status'[u] = status[u]
      /\ status' \in [Txns -> Statuses] /\ t \in Nat /\ t = next_transaction_id
      /\ retained_transaction_floor \in Nat /\ document.next \in Nat
      /\ next_transaction_id' \in Nat /\ retained_transaction_floor' \in Nat
  BY <1>1, PagesAreNumbers DEF Core, Types, StatusTypes, Statuses, Agreement, Floors
<1>3. \/ document' = document
      \/ /\ document'.status = status' /\ document'.next = next_transaction_id'
         /\ document'.floor = retained_transaction_floor'
  BY <1>1, <1>2, WriteDocumentIs
<1>4. \A u \in Txns \ {t} : Settled(u)'
  BY <1>1, <1>2, <1>3, OthersSettled
<1>5. Settled(t)'
  <2>1. phase'[t] = v /\ ~Deciding(t)'
    BY <1>1, OwnPhase
  <2>2. ~Has(wal', t, "Commit")
    BY <1>1 DEF Agreement, Settled
  <2>. QED
    BY <1>1, <1>2, <2>1, <2>2 DEF Settled
<1>6. Floors'
  <2>1. \A u \in Txns : phase'[u] # "begun"
    <3>1. phase'[t] # "begun" /\ \A u \in Txns \ {t} : phase'[u] = phase[u]
      BY <1>1 DEF SetPhase, Core, Types, SessionTypes
    <3>2. \A u \in Txns : phase[u] = "begun" => u = t
      BY <1>2 DEF Agreement, Floors
    <3>. QED
      BY <3>1, <3>2
  <2>2. /\ document.floor = retained_transaction_floor
        /\ retained_transaction_floor <= next_transaction_id /\ next_transaction_id >= 1
        /\ document.floor <= document.next /\ document.next >= 1
    BY DEF Agreement, Floors
  <2>3. /\ retained_transaction_floor' <= next_transaction_id' /\ next_transaction_id' >= 1
    BY <1>1, <1>2, <2>2
  <2>4. /\ document'.floor = retained_transaction_floor'
        /\ document'.floor <= document'.next /\ document'.next >= 1
    BY <1>1, <1>3, <2>2, <2>3
  <2>. QED
    BY <2>1, <2>3, <2>4 DEF Floors
<1>. QED
  BY <1>4, <1>5, <1>6 DEF Agreement

\* finish leaves the other statuses alone and writes the document.
LEMMA FinishFacts ==
    ASSUME Core, NEW t \in Txns, NEW v \in Statuses, finish(t, v), Floors
    PROVE  /\ status[t] = "InProgress" /\ status'[t] = v /\ document'.status[t] = v
           /\ \A u \in Txns \ {t} : status'[u] = status[u] /\ document'.status[u] = status[u]
           /\ UNCHANGED <<next_transaction_id, retained_transaction_floor>>
           /\ document'.floor = document.floor /\ document'.next = next_transaction_id
<1>1. /\ status' \in [Txns -> Statuses] /\ write_document_atomic
      /\ UNCHANGED <<next_transaction_id, retained_transaction_floor>>
      /\ next_transaction_id' \in Nat /\ retained_transaction_floor' \in Nat
      /\ status' = [status EXCEPT ![t] = v] /\ status[t] = "InProgress"
      /\ status \in [Txns -> Statuses]
  BY DEF finish, Core, Types, StatusTypes
<1>2. /\ document'.status = status' /\ document'.next = next_transaction_id'
      /\ document'.floor = retained_transaction_floor'
  BY <1>1, WriteDocumentIs
<1>. QED
  BY <1>1, <1>2 DEF Floors

\* The end of a transaction without changes, or of one that failed.
LEMMA AgreementEnds ==
    ASSUME Core, Agreement, NEW t \in Txns,
           \/ commit_empty_status(t) \/ commit_empty_wal(t) \/ abort_wal(t) \/ abort_status(t)
           \/ abort_fails(t)
    PROVE  Agreement'
<1>0. {"empty", "done", "aborting", "lost"} \subseteq Phases \ {"begun"}
  BY DEF Phases
<1>1. CASE commit_empty_status(t)
  <2>1. /\ phase[t] = "active" /\ SetPhase(t, "empty") /\ finish(t, "Committed")
        /\ UNCHANGED <<wal, mode, job>>
    BY <1>1 DEF commit_empty_status, walVars
  <2>2. /\ status'[t] = "Committed" /\ document'.status[t] = "Committed"
        /\ \A u \in Txns \ {t} : status'[u] = status[u] /\ document'.status[u] = status[u]
        /\ UNCHANGED <<next_transaction_id, retained_transaction_floor>>
        /\ document'.floor = document.floor /\ document'.next = next_transaction_id
    BY <2>1, FinishFacts DEF Statuses, Agreement
  <2>3. \A u \in Txns \ {t} : Settled(u)'
    BY <2>1, <2>2, OthersSettled
  <2>4. Settled(t)'
    BY <2>1, <2>2, OwnPhase DEF Settled
  <2>5. Floors'
    BY <1>0, <2>1, <2>2, FloorsStay DEF Agreement
  <2>. QED
    BY <2>3, <2>4, <2>5 DEF Agreement
<1>2. CASE commit_empty_wal(t)
  <2>1. /\ phase[t] = "empty" /\ SetPhase(t, "done") /\ UNCHANGED <<statusVars, mode, job>>
        /\ wal' = Append(wal, Commit(t, last_lsn(wal, t)))
    BY <1>2 DEF commit_empty_wal, terminate
  <2>2. UNCHANGED <<status, next_transaction_id, retained_transaction_floor, document>>
    BY <2>1 DEF statusVars
  <2>3. /\ \A u \in Txns \ {t} : Has(wal', u, "Commit") <=> Has(wal, u, "Commit")
        /\ Has(wal', t, "Commit")
    BY <2>1, HasOthers, RecordFields
  <2>4. \A u \in Txns \ {t} : Settled(u)'
    BY <2>1, <2>2, <2>3, OthersSettled
  <2>5. Settled(t)'
    <3>1. Deciding(t) /\ ~Working(t)' /\ phase'[t] = "done"
      BY <2>1, OwnPhase
    <3>2. Retained(t)' <=> Retained(t)
      BY <2>2 DEF Retained
    <3>. QED
      BY <2>2, <2>3, <3>1, <3>2 DEF Agreement, Settled
  <2>6. Floors'
    BY <1>0, <2>1, <2>2, FloorsStay DEF Agreement
  <2>. QED
    BY <2>4, <2>5, <2>6 DEF Agreement
<1>3. CASE abort_wal(t) \/ abort_fails(t)
  <2>. DEFINE v == IF abort_wal(t) THEN "aborting" ELSE "lost"
  <2>1. /\ phase[t] \in {"active", "failed", "aborting"} /\ SetPhase(t, v)
        /\ v \in {"aborting", "lost"}
        /\ UNCHANGED <<statusVars, mode, job>>
        /\ wal' = wal \/ wal' = Append(wal, Abort(t, last_lsn(wal, t)))
    BY <1>3 DEF abort_wal, abort_fails, terminate
  <2>. HIDE DEF v
  <2>2. UNCHANGED <<status, next_transaction_id, retained_transaction_floor, document>>
    BY <2>1 DEF statusVars
  <2>3. \A u \in Txns : Has(wal', u, "Commit") <=> Has(wal, u, "Commit")
    BY <2>1, HasOthers, RecordFields
  <2>4. \A u \in Txns \ {t} : Settled(u)'
    BY <2>1, <2>2, <2>3, OthersSettled
  <2>5. Settled(t)'
    <3>1. Working(t) /\ ~Deciding(t)' /\ phase'[t] = v
      BY <2>1, OwnPhase
    <3>2. Retained(t)' <=> Retained(t)
      BY <2>2 DEF Retained
    <3>. QED
      BY <2>1, <2>2, <2>3, <3>1, <3>2 DEF Agreement, Settled
  <2>6. Floors'
    BY <1>0, <2>1, <2>2, FloorsStay DEF Agreement
  <2>. QED
    BY <2>4, <2>5, <2>6 DEF Agreement
<1>4. CASE abort_status(t)
  <2>1. /\ phase[t] = "aborting" /\ SetPhase(t, "done") /\ finish(t, "Aborted")
        /\ UNCHANGED <<wal, mode, job>>
    BY <1>4 DEF abort_status, walVars
  <2>2. /\ status[t] = "InProgress" /\ status'[t] = "Aborted" /\ document'.status[t] = "Aborted"
        /\ \A u \in Txns \ {t} : status'[u] = status[u] /\ document'.status[u] = status[u]
        /\ UNCHANGED <<next_transaction_id, retained_transaction_floor>>
        /\ document'.floor = document.floor /\ document'.next = next_transaction_id
    BY <2>1, FinishFacts DEF Statuses, Agreement
  <2>3. \A u \in Txns \ {t} : Settled(u)'
    BY <2>1, <2>2, OthersSettled
  <2>4. Settled(t)'
    <3>1. ~Deciding(t)' /\ ~Working(t)' /\ phase'[t] = "done"
      BY <2>1, OwnPhase
    <3>2. Retained(t)' <=> Retained(t)
      BY <2>2 DEF Retained
    <3>3. Retained(t) => ~Has(wal, t, "Commit")
      BY <2>2 DEF Agreement, Settled
    <3>. QED
      BY <2>1, <2>2, <3>1, <3>2, <3>3 DEF Settled
  <2>5. Floors'
    BY <1>0, <2>1, <2>2, FloorsStay DEF Agreement
  <2>. QED
    BY <2>3, <2>4, <2>5 DEF Agreement
<1>. QED
  BY <1>1, <1>2, <1>3, <1>4

\* persist_candidate starts, decides and ends.
LEMMA AgreementPrepare ==
    ASSUME Core, Agreement, NEW t \in Txns, prepare_commit(t)
    PROVE  Agreement'
<1>1. /\ phase[t] = "active" /\ job = Idle /\ SetPhase(t, "persist")
      /\ UNCHANGED <<wal, statusVars, mode>>
      /\ job'.txn = t /\ job'.step = "log"
  BY DEF prepare_commit, walVars
<1>2. /\ UNCHANGED <<status, next_transaction_id, retained_transaction_floor, document>>
      /\ job' # Idle
  BY <1>1, IdleIs DEF statusVars
<1>3. \A u \in Txns \ {t} : Settled(u)'
  BY <1>1, <1>2, OthersSettled
<1>4. Settled(t)'
  <2>1. phase'[t] = "persist" /\ Working(t) /\ ~Deciding(t)'
    BY <1>1 DEF SetPhase, Core, Types, SessionTypes, Working, Deciding, Late
  <2>2. Retained(t)' <=> Retained(t)
    BY <1>2 DEF Retained
  <2>. QED
    BY <1>1, <1>2, <2>1, <2>2 DEF Agreement, Settled
<1>5. Floors'
  BY <1>1, <1>2, FloorsStay DEF Agreement, Phases
<1>. QED
  BY <1>3, <1>4, <1>5 DEF Agreement

\* mark_status_committed writes the document before the log has the Commit record.
LEMMA AgreementMark ==
    ASSUME Core, Agreement, mark_status_committed
    PROVE  Agreement'
<1>0. job.step = "status" /\ job.txn \in Txns
  BY JobIs DEF mark_status_committed, Core
<1>. PICK t \in Txns : t = job.txn
  BY <1>0
<1>1. /\ job.step = "status" /\ finish(t, "Committed") /\ t = job.txn
      /\ UNCHANGED <<wal, phase, mode>>
      /\ job' = [job EXCEPT !.step = "apply", !.todo = Deltas(file, job.db) \cap 1 .. job.db.cnt]
  BY DEF mark_status_committed, walVars
<1>2. job \in Jobs /\ t \in Txns /\ phase[t] = "persist"
  BY <1>1, JobIs DEF Core
<1>3. job'.txn = t /\ job'.step = "apply"
  BY <1>1, <1>2 DEF Jobs
<1>4. /\ status'[t] = "Committed" /\ document'.status[t] = "Committed"
      /\ \A u \in Txns \ {t} : status'[u] = status[u] /\ document'.status[u] = status[u]
      /\ UNCHANGED <<next_transaction_id, retained_transaction_floor>>
      /\ document'.floor = document.floor /\ document'.next = next_transaction_id
  BY <1>1, <1>2, FinishFacts DEF Statuses, Agreement
<1>5. ASSUME NEW u \in Txns \ {t}
      PROVE  Settled(u)'
  <2>1. (Working(u)' => Working(u)) /\ (Deciding(u)' => Deciding(u))
    BY <1>1, <1>3 DEF Working, Deciding
  <2>2. Retained(u)' => Retained(u)
    BY <1>4 DEF Retained
  <2>3. Settled(u)
    BY DEF Agreement
  <2>. QED
    BY <1>1, <1>4, <2>1, <2>2, <2>3, SettledStays
<1>6. Settled(t)'
  <2>1. ~Working(t)' /\ phase'[t] = "persist"
    BY <1>1, <1>2, <1>3 DEF Working, Early
  <2>. QED
    BY <1>4, <2>1 DEF Settled
<1>7. Floors'
  BY <1>1, <1>4, FloorsStay DEF Agreement
<1>. QED
  BY <1>5, <1>6, <1>7 DEF Agreement

\* commit_append finds the status committed, in memory and in the document.
LEMMA AgreementCommits ==
    ASSUME Core, Agreement, commit_append
    PROVE  Agreement'
<1>0. job.step = "commit" /\ job.txn \in Txns
  BY JobIs DEF commit_append, Core
<1>. PICK t \in Txns : t = job.txn
  BY <1>0
<1>1. /\ job.step = "commit" /\ job' = [job EXCEPT !.step = "commit_flush"]
      /\ UNCHANGED <<statusVars, phase, mode>>
      /\ wal' = Append(wal, Commit(t, last_lsn(wal, t)))
  BY DEF commit_append, append
<1>2. job \in Jobs /\ t \in Txns /\ phase[t] = "persist"
  BY <1>1, JobIs DEF Core
<1>3. job'.txn = t /\ job'.step = "commit_flush"
  BY <1>1, <1>2 DEF Jobs
<1>4. UNCHANGED <<status, next_transaction_id, retained_transaction_floor, document>>
  BY <1>1 DEF statusVars
<1>5. \A u \in Txns \ {t} : Has(wal', u, "Commit") <=> Has(wal, u, "Commit")
  BY <1>1, HasOthers, RecordFields
<1>6. ASSUME NEW u \in Txns \ {t}
      PROVE  Settled(u)'
  <2>1. (Working(u)' => Working(u)) /\ (Deciding(u)' => Deciding(u))
    BY <1>1, <1>3 DEF Working, Deciding
  <2>2. Retained(u)' => Retained(u)
    BY <1>4 DEF Retained
  <2>3. Settled(u)
    BY DEF Agreement
  <2>. QED
    BY <1>1, <1>4, <1>5, <2>1, <2>2, <2>3, SettledStays
<1>7. Settled(t)'
  <2>1. ~Working(t)' /\ phase'[t] = "persist" /\ Deciding(t)
    BY <1>1, <1>2, <1>3 DEF Working, Deciding, Early, Late
  <2>2. Retained(t)' <=> Retained(t)
    BY <1>4 DEF Retained
  <2>. QED
    BY <1>4, <2>1, <2>2 DEF Agreement, Settled
<1>8. Floors'
  BY <1>1, <1>4, FloorsStay DEF Agreement
<1>. QED
  BY <1>6, <1>7, <1>8 DEF Agreement

\* Publishing, and each failure of persist_candidate, leave the two records in agreement.
LEMMA AgreementJobEnds ==
    ASSUME Core, Agreement, CommitIsLogged,
           publish_prepared \/ persist_fails_active \/ persist_fails_committed
    PROVE  Agreement'
<1>0. job.step # "idle" /\ job.txn \in Txns
  <2>1. job.step # "idle"
    BY DEF publish_prepared, persist_fails_active, persist_fails_committed
  <2>. QED
    BY <2>1, JobIs DEF Core
<1>. PICK t \in Txns : t = job.txn
  BY <1>0
<1>. DEFINE v == IF publish_prepared THEN "done"
                 ELSE IF persist_fails_active THEN "failed" ELSE "orphan"
<1>1. /\ job.step # "idle" /\ job' = Idle /\ SetPhase(t, v) /\ v \in {"done", "failed", "orphan"}
      /\ v = "done" => job.step = "publish"
      /\ v = "failed" => job.step \in Early
      /\ UNCHANGED <<wal, statusVars, mode>>
  BY DEF publish_prepared, persist_fails_active, persist_fails_committed, walVars, Early
<1>. HIDE DEF v
<1>2. job \in Jobs /\ t \in Txns /\ job # Idle /\ phase[t] = "persist"
  BY <1>1, JobIs DEF Core
<1>3. UNCHANGED <<status, next_transaction_id, retained_transaction_floor, document>>
  BY <1>1 DEF statusVars
<1>4. \A u \in Txns \ {t} : Settled(u)'
  BY <1>1, <1>2, <1>3, OthersSettled
<1>5. Settled(t)'
  <2>1. phase'[t] = v /\ ~Deciding(t)'
    <3>1. phase'[t] = v
      BY <1>1, <1>2 DEF SetPhase, Core, Types, SessionTypes
    <3>. QED
      BY <1>1, <3>1, IdleIs DEF Deciding, Late
  <2>2. Working(t)' => Working(t)
    BY <1>1, <2>1, IdleIs DEF Working, Early
  <2>3. v = "done" => Has(wal, t, "Commit")
    BY <1>1 DEF CommitIsLogged, CommitAt, Has
  <2>4. Retained(t)' <=> Retained(t)
    BY <1>3 DEF Retained
  <2>. QED
    BY <1>1, <1>2, <1>3, <2>1, <2>2, <2>3, <2>4 DEF Agreement, Settled
<1>6. Floors'
  <2>1. \E u \in Txns : \E w \in Phases \ {"begun"} : SetPhase(u, w)
    BY <1>1, <1>2 DEF Phases
  <2>. QED
    BY <1>3, <2>1, FloorsStay DEF Agreement
<1>. QED
  BY <1>2, <1>4, <1>5, <1>6 DEF Agreement

\* compact_before forgets statuses below the new floor only.
LEMMA AgreementCompact ==
    ASSUME Core, Agreement, NEW h \in 1 .. MaxTxn + 1, compact_before(h)
    PROVE  Agreement'
<1>1. /\ h \in retained_transaction_floor + 1 .. next_transaction_id /\ StatusUnlocked
      /\ status' = [t \in Txns |-> IF t < h /\ status[t] # "InProgress" THEN "None" ELSE status[t]]
      /\ retained_transaction_floor' = h /\ write_document_atomic
      /\ UNCHANGED <<wal, next_transaction_id, mode, phase, job>>
  BY DEF compact_before, walVars
<1>2. /\ h \in Nat /\ next_transaction_id \in Nat /\ retained_transaction_floor \in Nat
      /\ status \in [Txns -> Statuses]
  BY DurabilityAssumption DEF Core, Types, StatusTypes
<1>3. status' \in [Txns -> Statuses]
  BY <1>1, <1>2 DEF Statuses
<1>4. /\ document'.status = status' /\ document'.next = next_transaction_id' /\ document'.floor = h
  BY <1>1, <1>2, <1>3, WriteDocumentIs
<1>5. ASSUME NEW t \in Txns
      PROVE  Settled(t)'
  <2>1. t \in Nat
    BY PagesAreNumbers
  <2>2. Retained(t)' => Retained(t) /\ status'[t] = status[t]
    BY <1>1, <1>2, <2>1 DEF Retained
  <2>3. status'[t] \in {status[t], "None"}
    BY <1>1
  <2>4. (Working(t)' <=> Working(t)) /\ (Deciding(t)' <=> Deciding(t))
    BY <1>1 DEF Working, Deciding
  <2>5. Retained(t)' => document'.status[t] = status[t]
    BY <1>4, <2>2
  <2>6. Settled(t)
    BY DEF Agreement
  <2>. QED
    BY <1>1, <2>2, <2>3, <2>4, <2>5, <2>6 DEF Settled
<1>6. Floors'
  <2>1. h <= next_transaction_id /\ next_transaction_id >= 1
    BY <1>1, <1>2 DEF Agreement, Floors
  <2>. QED
    BY <1>1, <1>4, <2>1 DEF Agreement, Floors
<1>. QED
  BY <1>5, <1>6 DEF Agreement

\* A restart reads the document, which already says Committed of every Commit record.
LEMMA AgreementCrash ==
    ASSUME Core, Agreement, power_loss \/ process_crash
    PROVE  Agreement'
<1>1. \E kind : LoseMemory(kind)
  BY DEF power_loss, process_crash
<1>2. /\ mode' = "down" /\ job' = Idle
      /\ phase' = [t \in Txns |-> IF phase[t] = "none" THEN "none" ELSE "gone"]
      /\ status' = document.status /\ next_transaction_id' = document.next
      /\ retained_transaction_floor' = document.floor /\ UNCHANGED document
  BY <1>1 DEF LoseMemory
<1>3. \A t : Has(wal', t, "Commit") => Has(wal, t, "Commit")
  <2>1. CASE power_loss
    <3>1. /\ wal \in Seq(Records) /\ Linked(wal) /\ Len(wal) \in Nat
          /\ synced \in 0 .. Len(wal)
      BY LenProperties DEF Core, Types, LogTypes, Pointers
    <3>2. PICK n \in synced .. Len(wal) : wal' = SubSeq(wal, 1, n)
      BY <2>1 DEF power_loss
    <3>3. n \in 0 .. Len(wal)
      BY <3>1, <3>2
    <3>4. /\ Len(wal') = n /\ Lsns(wal') \subseteq Lsns(wal)
          /\ \A i \in 1 .. n : wal'[i] = wal[i]
      BY <3>1, <3>2, <3>3, PrefixFacts
    <3>. QED
      BY <3>4 DEF Has, Lsns
  <2>2. CASE process_crash
    BY <2>2 DEF process_crash
  <2>. QED
    BY <2>1, <2>2
<1>4. ASSUME NEW t \in Txns
      PROVE  Settled(t)' /\ phase'[t] # "begun"
  <2>1. phase'[t] \in {"none", "gone"} /\ ~Working(t)' /\ ~Deciding(t)'
    BY <1>2, IdleIs DEF Working, Deciding, Early, Late
  <2>2. Retained(t)' <=> Retained(t)
    BY <1>2 DEF Retained, Agreement, Floors
  <2>. QED
    BY <1>2, <1>3, <2>1, <2>2 DEF Agreement, Settled
<1>5. Floors'
  BY <1>2, <1>4 DEF Agreement, Floors
<1>. QED
  BY <1>4, <1>5 DEF Agreement

\* A transaction came out as committed exactly when the log has its Commit record.
LEMMA OutcomeIs ==
    ASSUME NEW w, NEW t
    PROVE  wal_outcome(w, t) = "Committed" <=> Has(w, t, "Commit")
<1>1. CASE Has(w, t, "Commit")
  BY <1>1 DEF wal_outcome
<1>2. CASE ~Has(w, t, "Commit")
  <2>1. CASE Has(w, t, "Abort")
    <3>1. wal_outcome(w, t) = "Aborted"
      BY <1>2, <2>1 DEF wal_outcome
    <3>. QED
      BY <1>2, <3>1
  <2>2. CASE ~Has(w, t, "Abort") /\ Has(w, t, "Begin")
    <3>1. wal_outcome(w, t) = "InProgress"
      BY <1>2, <2>2 DEF wal_outcome
    <3>. QED
      BY <1>2, <3>1
  <2>3. CASE ~Has(w, t, "Abort") /\ ~Has(w, t, "Begin")
    <3>1. wal_outcome(w, t) = "None"
      BY <1>2, <2>3 DEF wal_outcome
    <3>. QED
      BY <1>2, <3>1
  <2>. QED
    BY <2>1, <2>2, <2>3
<1>. QED
  BY <1>1, <1>2

\* What a restart makes of a status.
LEMMA ReconciledFacts ==
    ASSUME Agreement, NEW t \in Txns, Retained(t)
    PROVE  /\ Has(wal, t, "Commit") => reconciled(t) = "Committed"
           /\ reconciled(t) = "Committed" => Has(wal, t, "Commit")
<1>1. Has(wal, t, "Commit") => status[t] = "Committed"
  BY DEF Agreement, Settled
<1>2. wal_outcome(wal, t) = "Committed" <=> Has(wal, t, "Commit")
  BY OutcomeIs
<1>3. CASE Has(wal, t, "Commit")
  BY <1>1, <1>2, <1>3 DEF reconciled
<1>4. CASE ~Has(wal, t, "Commit")
  <2>1. reconciled(t) \in {"None", "Aborted"}
    BY <1>2, <1>4 DEF reconciled
  <2>. QED
    BY <1>4, <2>1
<1>. QED
  BY <1>3, <1>4

\* reconcile_with_wal never meets a Commit record without a committed status, and turns every
\* other retained transaction the log knows into an aborted one.
LEMMA AgreementReconcile ==
    ASSUME Core, Agreement, reconcile_with_wal
    PROVE  Agreement' /\ mode' = "up"
<1>1. /\ mode = "recovering"
      /\ mode' = IF \E t \in Txns : Contradicts(t) THEN "failed" ELSE "up"
      /\ next_transaction_id' = Larger(next_transaction_id, HighestTxn(wal) + 1)
      /\ status' = [t \in Txns |-> reconciled(t)]
      /\ UNCHANGED <<wal, retained_transaction_floor, phase, job>>
      /\ IF mode' = "up" THEN write_document_atomic ELSE UNCHANGED document
  BY DEF reconcile_with_wal, walVars, Recovering
<1>2. ~ \E t \in Txns : Contradicts(t)
  BY OutcomeIs DEF Contradicts, Agreement, Settled
<1>3. mode' = "up" /\ write_document_atomic
  BY <1>1, <1>2
<1>4. /\ next_transaction_id \in Nat /\ HighestTxn(wal) \in Nat /\ StatusTypes
      /\ retained_transaction_floor \in Nat
  BY HighestIs DEF Core, Types, StatusTypes, LogTypes
<1>5. /\ status' \in [Txns -> Statuses] /\ next_transaction_id' \in Nat
      /\ next_transaction_id' >= next_transaction_id
  BY <1>1, <1>4, ReconciledIs DEF Larger
<1>6. /\ document'.status = status' /\ document'.next = next_transaction_id'
      /\ document'.floor = retained_transaction_floor'
  BY <1>1, <1>3, <1>4, <1>5, WriteDocumentIs
<1>7. job = Idle /\ \A t \in Txns : phase[t] \in {"none", "gone"}
  BY <1>1 DEF Core, Owners
<1>8. ASSUME NEW t \in Txns
      PROVE  Settled(t)'
  <2>1. ~Working(t)' /\ ~Deciding(t)' /\ phase'[t] # "begun"
    BY <1>1, <1>7, IdleIs DEF Working, Deciding, Early, Late
  <2>2. Retained(t)' <=> Retained(t)
    BY <1>1 DEF Retained
  <2>3. status'[t] = reconciled(t) /\ document'.status[t] = reconciled(t)
    BY <1>1, <1>6
  <2>4. Retained(t) => (reconciled(t) = "Committed" <=> Has(wal, t, "Commit"))
    BY ReconciledFacts
  <2>. QED
    BY <1>1, <2>1, <2>2, <2>3, <2>4 DEF Settled
<1>9. Floors'
  <2>1. \A t \in Txns : phase'[t] # "begun"
    BY <1>1, <1>7
  <2>2. /\ retained_transaction_floor <= next_transaction_id /\ next_transaction_id >= 1
    BY DEF Agreement, Floors
  <2>. QED
    BY <1>1, <1>4, <1>5, <1>6, <2>1, <2>2 DEF Floors
<1>. QED
  BY <1>3, <1>8, <1>9 DEF Agreement

\* The steps that write neither a Commit record nor a status.
LEMMA AgreementQuiet ==
    ASSUME Core, Agreement, [Next]_vars,
           \/ log_page \/ log_resize \/ log_flush \/ apply_page \/ apply_resize \/ apply_sync
           \/ commit_flush
           \/ \E t \in Txns : begin_fails_flush(t)
           \/ checkpoint_sample \/ checkpoint_begin \/ checkpoint_end
           \/ recover \/ redo \/ (\E t \in Txns : Undo(t)) \/ recovery_finish
           \/ recovery_checkpoint_begin \/ recovery_checkpoint_end
           \/ UNCHANGED vars
    PROVE  Agreement'
<1>1. CASE \/ log_page \/ log_resize \/ log_flush \/ apply_page \/ apply_resize \/ apply_sync
           \/ commit_flush
  <2>1. /\ job.step \in Early \cup Late /\ job.step # "idle"
        /\ UNCHANGED <<statusVars, phase, mode>>
    BY <1>1 DEF log_page, log_resize, log_flush, apply_page, apply_resize, apply_sync,
                commit_flush, Early, Late
  <2>2. job \in Jobs /\ mode = "up"
    BY <2>1, JobIs DEF Core
  <2>3. /\ job'.txn = job.txn /\ job'.step # "commit_flush"
        /\ \/ job'.step \in Early /\ job.step \in Early
           \/ job'.step \in Late /\ job.step \in Late
    BY <1>1, <2>2 DEF log_page, log_resize, log_flush, apply_page, apply_resize, apply_sync,
                      commit_flush, Early, Late, Jobs
  <2>4. \A t \in Txns : Has(wal', t, "Commit") <=> Has(wal, t, "Commit")
    BY <2>1, <2>2, <2>3, QuietHas
  <2>. QED
    BY <2>1, <2>3, <2>4, AgreementStays DEF statusVars
<1>2. CASE \/ \E t \in Txns : begin_fails_flush(t)
           \/ checkpoint_sample \/ checkpoint_begin \/ checkpoint_end
  <2>1. UNCHANGED <<statusVars, phase, mode, job>> /\ mode = "up"
    BY <1>2 DEF begin_fails_flush, CanBegin, checkpoint_sample, checkpoint_begin, checkpoint_end,
                Core, Owners, Idle
  <2>2. \A t \in Txns : Has(wal', t, "Commit") <=> Has(wal, t, "Commit")
    BY <2>1, QuietHas
  <2>. QED
    BY <2>1, <2>2, AgreementStays DEF statusVars
<1>3. CASE \/ recover \/ redo \/ (\E t \in Txns : Undo(t)) \/ recovery_finish
           \/ recovery_checkpoint_begin \/ recovery_checkpoint_end
  <2>1. /\ UNCHANGED <<statusVars, phase, job>> /\ mode' \in {"recovering", "failed"}
    <3>1. CASE recover
      BY <3>1 DEF recover
    <3>2. CASE redo
      BY <3>2 DEF redo, Recovering
    <3>3. CASE \E t \in Txns : Undo(t)
      BY <3>3 DEF Undo, undo_begin, undo_page, undo_resize, undo_compensation, NextLoser,
                  Recovering
    <3>4. CASE recovery_finish
      BY <3>4 DEF recovery_finish, Recovering
    <3>5. CASE recovery_checkpoint_begin \/ recovery_checkpoint_end
      BY <3>5 DEF recovery_checkpoint_begin, recovery_checkpoint_end, Recovering
    <3>. QED
      BY <1>3, <3>1, <3>2, <3>3, <3>4, <3>5
  <2>2. \A t \in Txns : Has(wal', t, "Commit") <=> Has(wal, t, "Commit")
    BY <2>1, QuietHas
  <2>. QED
    BY <2>1, <2>2, AgreementStays DEF statusVars
<1>4. CASE UNCHANGED vars
  BY <1>4, AgreementStays DEF vars, walVars, statusVars
<1>. QED
  BY <1>1, <1>2, <1>3, <1>4

\* Every step keeps the agreement of the status document and the log.
LEMMA AgreementStep ==
    ASSUME Core, CommitIsLogged, Agreement, [Next]_vars
    PROVE  Agreement'
<1>1. CASE \E t \in Txns : Session(t)
  BY <1>1, AgreementBegin, AgreementAllocate, AgreementPrepare, AgreementEnds DEF Session
<1>2. CASE \E h \in 1 .. MaxTxn + 1 : compact_before(h)
  BY <1>2, AgreementCompact
<1>3. CASE Persist
  BY <1>3, AgreementQuiet, AgreementMark, AgreementCommits, AgreementJobEnds DEF Persist
<1>4. CASE persist_fails_active \/ persist_fails_committed
  BY <1>4, AgreementJobEnds
<1>5. CASE \E t \in Txns : begin_fails_flush(t) \/ begin_fails_status(t) \/ abort_fails(t)
  BY <1>5, AgreementQuiet, AgreementAllocate, AgreementEnds
<1>6. CASE checkpoint_sample \/ checkpoint_begin \/ checkpoint_end
  BY <1>6, AgreementQuiet
<1>7. CASE power_loss \/ process_crash
  BY <1>7, AgreementCrash
<1>8. CASE Recovery
  BY <1>8, AgreementQuiet, AgreementReconcile DEF Recovery
<1>9. CASE UNCHANGED vars
  BY <1>9, AgreementQuiet
<1>. QED
  BY <1>1, <1>2, <1>3, <1>4, <1>5, <1>6, <1>7, <1>8, <1>9 DEF Next

\* Nothing has begun: there is nothing to disagree about.
LEMMA AgreementInit ==
    ASSUME Init
    PROVE  Agreement
<1>1. /\ status = [t \in Txns |-> "None"] /\ next_transaction_id = 1
      /\ retained_transaction_floor = 1 /\ wal = <<>>
      /\ document = [status |-> status, next |-> 1, floor |-> 1]
      /\ phase = [t \in Txns |-> "none"] /\ job = Idle
  BY DEF Init
<1>2. Floors
  BY <1>1 DEF Floors
<1>3. \A t \in Txns : ~Has(wal, t, "Commit") /\ ~Working(t) /\ ~Deciding(t)
  BY <1>1, IdleIs, EmptySeq DEF Has, Lsns, Working, Deciding, Early, Late
<1>. QED
  BY <1>1, <1>2, <1>3 DEF Agreement, Settled

\* The status document and the log agree at every moment.
LEMMA AgreementInvariant == Spec => [](Agreement /\ CommitIsLogged)
<1>1. Init => Agreement /\ CommitIsLogged /\ AckedIsDurable
  BY AgreementInit, IdleIs DEF Init, CommitIsLogged, AckedIsDurable
<1>2. Core /\ CommitIsLogged /\ AckedIsDurable /\ Agreement /\ [Next]_vars
          => (CommitIsLogged /\ AckedIsDurable /\ Agreement)'
  BY AcksStep, AgreementStep
<1>. QED
  BY <1>1, <1>2, CoreInvariant, PTL DEF Spec

\* The document says Committed before the log does, and while the engine is up a retained
\* transaction that no session drives is Committed in the one exactly when it is in the other,
\* whichever calls failed: the order of mark_status_committed and commit_transaction_at, and
\* reconcile_with_wal.
THEOREM StatusesAreInTheLog == Spec => [](StatusBeforeCommit /\ StatusMatchesWal)
<1>1. Agreement => StatusBeforeCommit /\ StatusMatchesWal
  BY DEF Agreement, Settled, StatusBeforeCommit, StatusMatchesWal
<1>. QED
  BY <1>1, AgreementInvariant, PTL

\* reconcile_with_wal never stops a restart with its corruption error, a Commit record in the log
\* without a committed status.
THEOREM ReconciliationSucceeds == Spec => [][reconcile_with_wal => mode' = "up"]_vars
<1>1. Core /\ Agreement /\ [Next]_vars => [reconcile_with_wal => mode' = "up"]_vars
  BY AgreementReconcile
<1>. QED
  BY <1>1, CoreInvariant, AgreementInvariant, PTL DEF Spec

(***************************************************************************)
(* How the mode, the running recovery and the data file move.              *)
(***************************************************************************)
ModeMoves ==
    /\ mode' = "down" => power_loss \/ process_crash \/ UNCHANGED vars
    /\ mode' = "up" => mode = "up" \/ reconcile_with_wal
    /\ rec' # Idle => recover \/ (rec # Idle /\ rec'.last = rec.last)

\* A step of a session, of a commit or of a checkpoint finds the engine up and leaves it up.
LEMMA UpMoves ==
    ASSUME Core, mode = "up", mode' = mode, rec' = rec
    PROVE  ModeMoves
<1>. QED
  BY DEF ModeMoves

\* Only a crash takes the engine down, where only recover moves; only a reconciliation
\* brings it up; and a recovery keeps the end of the log it began with.
LEMMA ModeSteps ==
    ASSUME Core, [Next]_vars
    PROVE  ModeMoves
<1>1. CASE \E t \in Txns : Session(t)
  <2>1. PICK t \in Txns : Session(t)
    BY <1>1
  <2>2. mode = "up"
    <3>1. CASE begin_transaction(t)
      BY <3>1 DEF begin_transaction, CanBegin
    <3>2. CASE ~begin_transaction(t)
      <4>1. phase[t] \notin {"none", "gone"}
        BY <2>1, <3>2 DEF Session, begin_durable, allocate_transaction, prepare_commit,
                          commit_empty_status, commit_empty_wal, abort_wal, abort_status
      <4>. QED
        BY <4>1, BusyIsUp
    <3>. QED
      BY <3>1, <3>2
  <2>3. mode' = mode /\ rec' = rec
    BY <2>1 DEF Session, begin_transaction, begin_durable, prepare_commit, commit_empty_status,
                commit_empty_wal, abort_wal, abort_status
  <2>. QED
    BY <2>2, <2>3, UpMoves
<1>2. CASE \E h \in 1 .. MaxTxn + 1 : compact_before(h)
  BY <1>2, UpMoves DEF compact_before
<1>3. CASE Persist \/ persist_fails_active \/ persist_fails_committed
  <2>1. job.step # "idle"
    BY <1>3 DEF Persist, log_page, log_resize, log_flush, mark_status_committed, apply_page,
                apply_resize, apply_sync, commit_append, commit_flush, publish_prepared,
                persist_fails_active, persist_fails_committed
  <2>2. mode = "up"
    BY <2>1, JobIs DEF Core
  <2>3. mode' = mode /\ rec' = rec
    BY <1>3 DEF Persist, log_page, log_resize, log_flush, mark_status_committed, apply_page,
                apply_resize, apply_sync, commit_append, commit_flush, publish_prepared,
                persist_fails_active, persist_fails_committed
  <2>. QED
    BY <2>2, <2>3, UpMoves
<1>4. CASE \E t \in Txns : begin_fails_flush(t) \/ begin_fails_status(t) \/ abort_fails(t)
  <2>1. PICK t \in Txns : begin_fails_flush(t) \/ begin_fails_status(t) \/ abort_fails(t)
    BY <1>4
  <2>2. mode = "up"
    <3>1. CASE begin_fails_flush(t)
      BY <3>1 DEF begin_fails_flush, CanBegin
    <3>2. CASE begin_fails_status(t) \/ abort_fails(t)
      <4>1. phase[t] \notin {"none", "gone"}
        BY <3>2 DEF begin_fails_status, allocate_transaction, abort_fails
      <4>. QED
        BY <4>1, BusyIsUp
    <3>. QED
      BY <2>1, <3>1, <3>2
  <2>3. mode' = mode /\ rec' = rec
    BY <2>1 DEF begin_fails_flush, begin_fails_status, abort_fails
  <2>. QED
    BY <2>2, <2>3, UpMoves
<1>5. CASE checkpoint_sample \/ checkpoint_begin \/ checkpoint_end
  <2>1. mode = "up"
    BY <1>5 DEF checkpoint_sample, checkpoint_begin, checkpoint_end, Core, Owners, Idle
  <2>2. mode' = mode /\ rec' = rec
    BY <1>5 DEF checkpoint_sample, checkpoint_begin, checkpoint_end
  <2>. QED
    BY <2>1, <2>2, UpMoves
<1>6. CASE power_loss \/ process_crash
  BY <1>6 DEF ModeMoves, power_loss, process_crash, LoseMemory
<1>7. CASE Recovery
  <2>1. CASE recover
    BY <2>1 DEF recover, ModeMoves
  <2>2. CASE reconcile_with_wal
    BY <2>2 DEF reconcile_with_wal, ModeMoves
  <2>3. CASE redo
    <3>1. mode = "recovering" /\ rec \in Recoveries /\ rec # Idle
      BY <2>3, RecoveryIs DEF redo, RecoverySteps
    <3>2. PICK c : rec' = [rec EXCEPT !.pos = @ + 1, !.cnt = c]
      BY <2>3 DEF redo
    <3>3. rec'.last = rec.last
      BY <3>1, <3>2 DEF Recoveries
    <3>4. mode' \in {mode, "failed"}
      BY <2>3 DEF redo
    <3>. QED
      BY <3>1, <3>3, <3>4 DEF ModeMoves
  <2>4. CASE \E t \in Txns : Undo(t)
    <3>1. PICK t \in Txns : Undo(t)
      BY <2>4
    <3>2. mode = "recovering" /\ rec \in Recoveries /\ rec # Idle
      <4>1. Recovering("redo")
        BY <3>1 DEF Undo, undo_begin, undo_page, undo_resize, undo_compensation, NextLoser
      <4>. QED
        BY <4>1, RecoveryIs DEF RecoverySteps
    <3>3. \/ \E l : rec' = [rec EXCEPT !.undo[t] = l]
          \/ \E l, c : rec' = [rec EXCEPT !.undo[t] = l, !.cnt = c]
      <4>1. CASE undo_begin(t) \/ undo_compensation(t)
        BY <4>1 DEF undo_begin, undo_compensation
      <4>2. CASE undo_page(t)
        BY <4>2 DEF undo_page
      <4>3. CASE undo_resize(t)
        BY <4>3 DEF undo_resize
      <4>. QED
        BY <3>1, <4>1, <4>2, <4>3 DEF Undo
    <3>4. rec'.last = rec.last
      BY <3>2, <3>3 DEF Recoveries
    <3>5. mode' \in {mode, "failed"}
      BY <3>1 DEF Undo, undo_begin, undo_page, undo_resize, undo_compensation
    <3>. QED
      BY <3>2, <3>4, <3>5 DEF ModeMoves
  <2>5. CASE recovery_finish \/ recovery_checkpoint_begin \/ recovery_checkpoint_end
    <3>1. mode = "recovering" /\ rec \in Recoveries /\ rec # Idle
      <4>1. \E s \in RecoverySteps : Recovering(s)
        BY <2>5 DEF recovery_finish, recovery_checkpoint_begin, recovery_checkpoint_end,
                    RecoverySteps
      <4>. QED
        BY <4>1, RecoveryIs
    <3>2. \E s, n : rec' = [rec EXCEPT !.step = s] \/ rec' = [rec EXCEPT !.step = s, !.pos = n]
      BY <2>5 DEF recovery_finish, recovery_checkpoint_begin, recovery_checkpoint_end
    <3>3. rec'.last = rec.last
      BY <3>1, <3>2 DEF Recoveries
    <3>4. mode' \in {mode, "failed"}
      BY <2>5 DEF recovery_finish, recovery_checkpoint_begin, recovery_checkpoint_end
    <3>. QED
      BY <3>1, <3>3, <3>4 DEF ModeMoves
  <2>. QED
    BY <1>7, <2>1, <2>2, <2>3, <2>4, <2>5 DEF Recovery
<1>8. CASE UNCHANGED vars
  BY <1>8 DEF vars, ModeMoves, reconcile_with_wal, recover
<1>. QED
  BY <1>1, <1>2, <1>3, <1>4, <1>5, <1>6, <1>7, <1>8 DEF Next

\* The file changes in the second half of persist_candidate, in recovery and when power is lost.
LEMMA FileSteps ==
    ASSUME [Next]_vars
    PROVE  \/ file' = file
           \/ apply_page \/ apply_resize \/ apply_sync
           \/ redo \/ (\E t \in Txns : undo_page(t) \/ undo_resize(t)) \/ recovery_finish
           \/ power_loss
<1>1. CASE \E t \in Txns : Session(t)
  BY <1>1 DEF Session, begin_transaction, begin_durable, prepare_commit, commit_empty_status,
              commit_empty_wal, abort_wal, abort_status
<1>2. CASE \E h \in 1 .. MaxTxn + 1 : compact_before(h)
  BY <1>2 DEF compact_before
<1>3. CASE Persist \/ persist_fails_active \/ persist_fails_committed
  BY <1>3 DEF Persist, log_page, log_resize, log_flush, mark_status_committed,
              commit_append, commit_flush, publish_prepared,
              persist_fails_active, persist_fails_committed
<1>4. CASE \E t \in Txns : begin_fails_flush(t) \/ begin_fails_status(t) \/ abort_fails(t)
  BY <1>4 DEF begin_fails_flush, begin_fails_status, abort_fails
<1>5. CASE checkpoint_sample \/ checkpoint_begin \/ checkpoint_end
  BY <1>5 DEF checkpoint_sample, checkpoint_begin, checkpoint_end
<1>6. CASE power_loss \/ process_crash
  BY <1>6 DEF process_crash
<1>7. CASE Recovery
  BY <1>7 DEF Recovery, Undo, recover, undo_begin, undo_compensation, recovery_checkpoint_begin,
              recovery_checkpoint_end, reconcile_with_wal
<1>8. CASE UNCHANGED vars
  BY <1>8 DEF vars
<1>. QED
  BY <1>1, <1>2, <1>3, <1>4, <1>5, <1>6, <1>7, <1>8 DEF Next

(***************************************************************************)
(* The write-ahead rule.  WalManager::open believes that what it reads is  *)
(* on the disk, which a crash of the process alone does not make true: the *)
(* rule is a theorem for crashes that lose the unsynchronised writes.      *)
(***************************************************************************)
Trusted ==
    /\ durable_lsn <= synced
    /\ mode = "down" => synced = Len(wal)
    /\ rec # Idle => rec.last <= synced
    /\ OnlyLogged(file, synced)

\* The certain prefix of the log never shrinks, whatever the step.
LEMMA SyncedMoves ==
    ASSUME Core, Trusted, LogMoves
    PROVE  synced <= synced' /\ durable_lsn' <= synced' /\ synced \in Nat /\ synced <= Len(wal')
<1>1. synced \in Nat /\ durable_lsn \in Nat /\ Len(wal) \in Nat /\ synced <= Len(wal)
  BY LenProperties DEF Core, Types, LogTypes
<1>2. Len(wal) <= Len(wal')
  BY DEF LogMoves, Grows
<1>3. Len(wal') \in Nat
  BY <1>1, <1>2, LenProperties DEF LogMoves, Grows, Lsns
<1>. QED
  BY <1>1, <1>2, <1>3 DEF LogMoves, Trusted

\* What is older than a prefix of the log is older than a longer one.
LEMMA LoggedStays ==
    ASSUME NEW f \in Files, NEW l \in Nat, NEW m \in Nat, OnlyLogged(f, l), l <= m
    PROVE  OnlyLogged(f, m)
<1>. SUFFICES ASSUME NEW p \in Pages
              PROVE  f.page[p].lsn <= m /\ \A v \in f.maybe[p] : v.lsn <= m
  BY DEF OnlyLogged
<1>1. f.page[p] \in Versions /\ f.maybe[p] \subseteq Versions
  BY DEF Files
<1>2. f.page[p].lsn \in Nat /\ \A v \in f.maybe[p] : v.lsn \in Nat
  BY <1>1 DEF Versions
<1>. QED
  BY <1>2 DEF OnlyLogged

\* flush_page: the barrier makes the log durable through the LSN of the page.
LEMMA TrustedApplyPage ==
    ASSUME Core, Trusted, LogMoves, apply_page
    PROVE  OnlyLogged(file, synced)'
<1>. DEFINE p == Min(job.todo)
            l == LoggedLsn(job.txn, p)
<1>1. /\ job.step = "apply" /\ job.todo # {} /\ sync(l, Len(wal))
      /\ file' = WritePage(file, p, After(p, l)) /\ wal' = wal
  BY DEF apply_page
<1>2. job.db \in Dbs /\ p \in job.todo /\ p \in Pages /\ p \in Nat
  <2>1. job \in Jobs /\ job.todo \subseteq Pages /\ job.db \in Dbs
    BY <1>1, JobIs DEF Core
  <2>. QED
    BY <1>1, <2>1, PagesAreNumbers, MinFacts
<1>3. l \in Nat /\ l \in 0 .. Len(wal)
  BY <1>1, <1>2, LoggedLsnIs
<1>. HIDE DEF p, l
<1>4. After(p, l) \in Versions /\ After(p, l).lsn <= l
  <2>1. job.db.val[p] \in Int
    BY <1>2 DEF Dbs
  <2>. QED
    BY <1>3, <2>1, NoPageIsOld DEF After, Versions
<1>5. synced' \in Nat /\ l <= synced'
  <2>1. synced \in Nat /\ durable_lsn \in Nat /\ Len(wal) \in Nat
    BY LenProperties DEF Core, Types, LogTypes
  <2>. QED
    BY <1>1, <1>3, <2>1 DEF sync, Trusted
<1>6. OnlyLogged(file, synced') /\ file \in Files
  BY <1>5, SyncedMoves, LoggedStays DEF Core, Types, Trusted
<1>7. After(p, l).lsn \in Nat
  BY <1>4 DEF Versions
<1>8. OnlyLogged(WritePage(file, p, After(p, l)), synced')
  BY <1>2, <1>3, <1>4, <1>5, <1>6, <1>7, WritePageFacts
<1>. QED
  BY <1>1, <1>8 DEF OnlyLogged

\* redo writes images of records that are on the disk.
LEMMA TrustedRedo ==
    ASSUME Core, Trusted, LogMoves, redo
    PROVE  OnlyLogged(file, synced)'
<1>. DEFINE r == wal[rec.pos]
            next == redo_record(file, rec.cnt, r, rec.pos)
<1>1. /\ Recovering("redo") /\ rec.pos <= rec.last
      /\ file' = IF next.ok THEN next.file ELSE file
      /\ synced' = synced
  BY DEF redo, walVars
<1>2. /\ rec.pos \in Nat /\ rec.pos >= 1 /\ rec.last \in Nat /\ rec.last <= Len(wal)
      /\ rec.cnt \in Nat /\ rec # Idle
      /\ Len(wal) \in Nat /\ wal \in Seq(Records) /\ Linked(wal) /\ file \in Files
  BY <1>1, RecoveryIs DEF RecoverySteps
<1>3. r \in Records /\ Stamped(r, rec.pos)
  <2>1. rec.pos \in Lsns(wal)
    BY <1>1, <1>2 DEF Lsns
  <2>. QED
    BY <1>2, <2>1, LsnsAre DEF Linked, Fits
<1>4. synced \in Nat /\ rec.pos <= synced
  BY <1>1, <1>2 DEF Core, Types, LogTypes, Trusted
<1>5. OnlyLogged(next.file, synced)
  BY <1>2, <1>3, <1>4, RedoFacts DEF Trusted
<1>. HIDE DEF next
<1>6. OnlyLogged(file', synced')
  BY <1>1, <1>5 DEF Trusted
<1>. QED
  BY <1>6 DEF OnlyLogged

\* append_compensation flushes the record before the page it stamped is written.
LEMMA TrustedUndo ==
    ASSUME Core, Trusted, LogMoves, NEW t \in Txns, undo_page(t) \/ undo_resize(t)
    PROVE  OnlyLogged(file, synced)'
<1>. DEFINE r == wal[rec.undo[t]]
            l == Len(wal) + 1
            image == IF r.before = NoPage THEN NoPage ELSE [r.before EXCEPT !.lsn = l]
<1>1. NextLoser(t)
  BY DEF undo_page, undo_resize
<1>2. r \in Records /\ Len(wal) \in Nat /\ file \in Files
  BY <1>1, UndoIs
<1>3. OnlyLogged(file, synced') /\ synced' \in Nat
  <2>1. synced' \in Nat
    BY CoreUndo, LenProperties DEF Core, Types, LogTypes, Undo
  <2>. QED
    BY <2>1, <1>2, SyncedMoves, LoggedStays DEF Trusted
<1>4. CASE undo_page(t)
  <2>1. /\ r.kind = "PageUpdate"
        /\ file' = IF image = NoPage \/ Sparse(file, r.page) THEN file
                   ELSE WritePage(file, r.page, image)
        /\ \E s : append_and_flush(s)
    BY <1>4 DEF undo_page
  <2>2. r.page \in Nat /\ r.before \in Versions
    BY <1>2, <2>1, RecordKinds, PagesAreNumbers DEF PageUpdates
  <2>. HIDE DEF r
  <2>3. image \in Versions /\ image.lsn <= l
    <3>1. l \in Nat
      BY <1>2
    <3>. QED
      BY <2>2, <3>1, ImageIs
  <2>. HIDE DEF image
  <2>4. synced' = l
    BY <1>2, <2>1 DEF append_and_flush, sync, Core, Types, LogTypes
  <2>5. OnlyLogged(WritePage(file, r.page, image), synced')
    BY <1>2, <1>3, <2>2, <2>3, <2>4, WritePageFacts
  <2>6. OnlyLogged(file', synced')
    BY <1>3, <2>1, <2>5
  <2>. QED
    BY <2>6 DEF OnlyLogged
<1>5. CASE undo_resize(t)
  <2>1. r.kind = "Resize" /\ file' = SetLen(file, r.before_page_count)
    BY <1>5 DEF undo_resize
  <2>2. r.before_page_count \in Nat
    BY <1>2, <2>1, RecordKinds DEF Resizes
  <2>3. OnlyLogged(file', synced')
    BY <1>2, <1>3, <2>1, <2>2, SetLenFacts
  <2>. QED
    BY <2>3 DEF OnlyLogged
<1>. QED
  BY <1>4, <1>5

\* apply_resize, apply_sync and RecoveryDataFile::finish give no page a later LSN.
LEMMA TrustedResize ==
    ASSUME Core, Trusted, apply_resize \/ apply_sync \/ recovery_finish
    PROVE  OnlyLogged(file, synced)'
<1>1. file \in Files /\ synced \in Nat /\ synced' = synced /\ OnlyLogged(file, synced)
  BY DEF Core, Types, LogTypes, Trusted, apply_resize, apply_sync, recovery_finish, walVars
<1>2. CASE apply_resize
  <2>1. job.step # "idle" /\ file' = SetLen(file, job.db.cnt)
    BY <1>2 DEF apply_resize
  <2>2. job.db.cnt \in Nat
    BY <2>1, JobIs DEF Core, Dbs
  <2>3. OnlyLogged(file', synced)
    BY <1>1, <2>1, <2>2, SetLenFacts
  <2>. QED
    BY <1>1, <2>3 DEF OnlyLogged
<1>3. CASE apply_sync
  <2>1. OnlyLogged(file', synced)
    BY <1>1, <1>3, SyncFileFacts DEF apply_sync
  <2>. QED
    BY <1>1, <2>1 DEF OnlyLogged
<1>4. CASE recovery_finish
  <2>. DEFINE f == IF rec.cnt # rec.target THEN SetLen(file, rec.target) ELSE file
  <2>1. Recovering("redo") /\ file' = SyncFile(f)
    BY <1>4 DEF recovery_finish
  <2>2. rec.target \in Nat
    BY <2>1, RecoveryIs DEF RecoverySteps
  <2>3. f \in Files /\ OnlyLogged(f, synced)
    BY <1>1, <2>2, SetLenFacts
  <2>. HIDE DEF f
  <2>4. OnlyLogged(file', synced)
    BY <1>1, <2>1, <2>3, SyncFileFacts
  <2>. QED
    BY <1>1, <2>4 DEF OnlyLogged
<1>. QED
  BY <1>2, <1>3, <1>4

\* A power loss leaves at least the certain prefix, and of each page a version it had.
LEMMA TrustedPowerLoss ==
    ASSUME Core, Trusted, power_loss
    PROVE  Trusted'
<1>1. /\ durable_lsn' = 0 /\ mode' = "down" /\ rec' = Idle /\ file' \in AfterPowerLoss(file)
  BY DEF power_loss, LoseMemory
<1>2. PICK n \in synced .. Len(wal) : wal' = SubSeq(wal, 1, n) /\ synced' = n
  BY DEF power_loss
<1>3. synced \in Nat /\ wal \in Seq(Records) /\ Linked(wal) /\ n \in Nat /\ n \in 0 .. Len(wal)
      /\ Len(wal) \in Nat /\ synced <= n /\ file \in Files
  BY <1>2, LenProperties DEF Core, Types, LogTypes, Pointers
<1>4. Len(wal') = n
  BY <1>2, <1>3, PrefixFacts
<1>5. OnlyLogged(file, n)
  BY <1>3, LoggedStays DEF Trusted
<1>6. OnlyLogged(file', synced')
  BY <1>1, <1>2, <1>3, <1>5, PowerLossFacts
<1>. QED
  BY <1>1, <1>2, <1>3, <1>4, <1>6 DEF Trusted, OnlyLogged

\* Every step keeps the write-ahead rule, unless the process alone may crash.
LEMMA TrustedStep ==
    ASSUME "process" \notin Failures, Core, Trusted, [Next]_vars
    PROVE  Trusted'
<1>1. CASE power_loss
  BY <1>1, TrustedPowerLoss
<1>2. ~process_crash
  BY DEF process_crash, LoseMemory
<1>3. CASE recover
  <2>1. /\ mode = "down" /\ mode' = "recovering" /\ durable_lsn' = Len(wal)
        /\ rec'.last = Len(wal) /\ UNCHANGED <<wal, synced, file>>
    BY <1>3 DEF recover
  <2>2. Len(wal) \in Nat /\ synced = Len(wal)
    BY <2>1, LenProperties DEF Core, Types, LogTypes, Trusted
  <2>. QED
    BY <2>1, <2>2 DEF Trusted, OnlyLogged
<1>4. CASE ~power_loss /\ ~recover
  <2>1. LogMoves /\ ModeMoves
    BY <1>2, <1>4, LogSteps, ModeSteps
  <2>2. synced <= synced' /\ durable_lsn' <= synced' /\ synced \in Nat
    BY <2>1, SyncedMoves
  <2>3. synced' \in Nat
    BY CoreStep DEF Core, Types, LogTypes
  <2>4. mode' = "down" => synced' = Len(wal')
    BY <1>2, <1>4, <2>1 DEF ModeMoves, vars, walVars, Trusted
  <2>5. rec' # Idle => rec'.last <= synced'
    <3>1. rec # Idle => rec.last \in Nat
      BY DEF Core, Types, Recoveries
    <3>. QED
      BY <1>4, <2>1, <2>2, <2>3, <3>1 DEF ModeMoves, Trusted
  <2>6. OnlyLogged(file, synced)'
    <3>1. CASE file' = file
      <4>1. OnlyLogged(file, synced')
        BY <2>2, <2>3, LoggedStays DEF Core, Types, Trusted
      <4>. QED
        BY <3>1, <4>1 DEF OnlyLogged
    <3>. QED
      BY <1>4, <2>1, <3>1, FileSteps, TrustedApplyPage, TrustedRedo, TrustedUndo, TrustedResize
  <2>. QED
    BY <2>2, <2>4, <2>5, <2>6 DEF Trusted
<1>. QED
  BY <1>1, <1>3, <1>4

\* A fresh file holds pages of no record.
LEMMA TrustedInit ==
    ASSUME Init
    PROVE  Trusted
<1>1. PICK n \in PageCounts : file = NewFile(n)
  BY DEF Init
<1>2. OnlyLogged(file, 0)
  BY <1>1 DEF OnlyLogged, NewFile, NoPage
<1>. QED
  BY <1>2 DEF Init, Trusted, OnlyLogged

\* When a crash loses what was not synchronised, no version of a page that may be on the
\* disk is newer than the part of the log that certainly is (flush_page and its barrier).
THEOREM DataFollowsTheLog ==
    ASSUME "process" \notin Failures
    PROVE  Spec => []WalBeforeData
<1>1. Init => Trusted
  BY TrustedInit
<1>2. Core /\ Trusted /\ [Next]_vars => Trusted'
  BY TrustedStep
<1>3. Trusted => WalBeforeData
  BY DEF Trusted, OnlyLogged, WalBeforeData
<1>. QED
  BY <1>1, <1>2, <1>3, CoreInvariant, PTL DEF Spec

(***************************************************************************)
(* Transaction ids.  A Begin record that cannot be flushed stays in the    *)
(* log while its id is given out again, so the theorem is about the other  *)
(* failures.                                                               *)
(***************************************************************************)
Fresh ==
    mode = "up" => \A i \in Lsns(wal) :
        \/ wal[i].txn < next_transaction_id
        \/ wal[i].txn = next_transaction_id /\ \E t \in Txns : t = wal[i].txn /\ phase[t] = "begun"

IdsStay ==
    /\ next_transaction_id' = next_transaction_id
    /\ \A t \in Txns : phase[t] = "begun" => phase'[t] = "begun"

\* While the engine is up only begin_durable moves the next id, and only it ends its phase.
LEMMA NextIdSteps ==
    ASSUME Core, [Next]_vars, mode = "up", mode' = "up"
    PROVE  IdsStay \/ \E t \in Txns : allocate_transaction(t)
<1>0. phase \in [Txns -> Phases] /\ rec = Idle
  BY DEF Core, Types, SessionTypes, Owners
<1>1. CASE \E t \in Txns : Session(t)
  <2>1. PICK t \in Txns : Session(t)
    BY <1>1
  <2>2. CASE begin_durable(t)
    BY <2>2 DEF begin_durable
  <2>3. CASE begin_transaction(t)
    <3>1. phase[t] # "begun"
      BY <2>3, CanBeginIsIdle DEF begin_transaction
    <3>. QED
      BY <1>0, <2>3, <3>1 DEF begin_transaction, SetPhase, statusVars, IdsStay
  <2>4. CASE prepare_commit(t)
    BY <1>0, <2>4 DEF prepare_commit, SetPhase, statusVars, IdsStay
  <2>5. CASE commit_empty_status(t) \/ commit_empty_wal(t)
    BY <1>0, <2>5 DEF commit_empty_status, commit_empty_wal, finish, SetPhase, statusVars, IdsStay
  <2>6. CASE abort_wal(t) \/ abort_status(t)
    BY <1>0, <2>6 DEF abort_wal, abort_status, finish, SetPhase, statusVars, IdsStay
  <2>. QED
    BY <2>1, <2>2, <2>3, <2>4, <2>5, <2>6 DEF Session
<1>2. CASE \E h \in 1 .. MaxTxn + 1 : compact_before(h)
  BY <1>2 DEF compact_before, IdsStay
<1>3. CASE Persist \/ persist_fails_active \/ persist_fails_committed
  <2>1. CASE log_page \/ log_resize \/ log_flush
    BY <2>1 DEF log_page, log_resize, log_flush, statusVars, IdsStay
  <2>2. CASE mark_status_committed
    BY <2>2 DEF mark_status_committed, finish, IdsStay
  <2>3. CASE apply_page \/ apply_resize \/ apply_sync \/ commit_append \/ commit_flush
    BY <2>3 DEF apply_page, apply_resize, apply_sync, commit_append, commit_flush, statusVars,
                IdsStay
  <2>4. CASE publish_prepared \/ persist_fails_active \/ persist_fails_committed
    <3>1. job.step # "idle"
      BY <2>4 DEF publish_prepared, persist_fails_active, persist_fails_committed
    <3>2. job.txn \in Txns /\ phase[job.txn] = "persist"
      BY <3>1, JobIs DEF Core
    <3>3. \E v : SetPhase(job.txn, v)
      BY <2>4 DEF publish_prepared, persist_fails_active, persist_fails_committed
    <3>4. next_transaction_id' = next_transaction_id
      BY <2>4 DEF publish_prepared, persist_fails_active, persist_fails_committed, statusVars
    <3>. QED
      BY <1>0, <3>2, <3>3, <3>4 DEF SetPhase, IdsStay
  <2>. QED
    BY <1>3, <2>1, <2>2, <2>3, <2>4 DEF Persist
<1>4. CASE \E t \in Txns : begin_fails_flush(t) \/ begin_fails_status(t) \/ abort_fails(t)
  <2>1. CASE \E t \in Txns : begin_fails_flush(t)
    BY <2>1 DEF begin_fails_flush, statusVars, IdsStay
  <2>2. CASE \E t \in Txns : begin_fails_status(t)
    BY <2>2 DEF begin_fails_status
  <2>3. CASE \E t \in Txns : abort_fails(t)
    BY <1>0, <2>3 DEF abort_fails, SetPhase, statusVars, IdsStay
  <2>. QED
    BY <1>4, <2>1, <2>2, <2>3
<1>5. CASE checkpoint_sample \/ checkpoint_begin \/ checkpoint_end
  BY <1>5 DEF checkpoint_sample, checkpoint_begin, checkpoint_end, statusVars, IdsStay
<1>6. CASE power_loss \/ process_crash
  BY <1>6 DEF power_loss, process_crash, LoseMemory
<1>7. CASE Recovery
  <2>1. mode # "up"
    BY <1>7 DEF Recovery, recover, redo, Undo, undo_begin, undo_page, undo_resize,
                undo_compensation, NextLoser, recovery_finish, recovery_checkpoint_begin,
                recovery_checkpoint_end, reconcile_with_wal, Recovering
  <2>. QED
    BY <2>1
<1>8. CASE UNCHANGED vars
  BY <1>8 DEF vars, statusVars, IdsStay
<1>. QED
  BY <1>1, <1>2, <1>3, <1>4, <1>5, <1>6, <1>7, <1>8 DEF Next

\* Reconciliation takes the next id past every id the log has seen.
LEMMA FreshReconciled ==
    ASSUME Core, reconcile_with_wal
    PROVE  Fresh'
<1>1. wal' = wal /\ next_transaction_id' = Larger(next_transaction_id, HighestTxn(wal) + 1)
  BY DEF reconcile_with_wal, walVars
<1>2. wal \in Seq(Records) /\ next_transaction_id \in Nat
  BY DEF Core, Types, LogTypes, StatusTypes
<1>3. HighestTxn(wal) \in Nat /\ \A i \in Lsns(wal) : wal[i].txn <= HighestTxn(wal)
  BY <1>2, HighestIs
<1>4. HighestTxn(wal) < next_transaction_id' /\ next_transaction_id' \in Nat
  BY <1>1, <1>2, <1>3 DEF Larger
<1>5. \A i \in Lsns(wal) : wal[i].txn \in Nat
  <2>. SUFFICES ASSUME NEW i \in Lsns(wal) PROVE wal[i].txn \in 0 .. MaxTxn
    OBVIOUS
  <2>1. wal[i] \in Records
    BY <1>2, LsnsAre
  <2>. QED
    BY <2>1, RecordKinds
<1>6. \A i \in Lsns(wal) : wal[i].txn < next_transaction_id'
  BY <1>3, <1>4, <1>5
<1>. QED
  BY <1>1, <1>6 DEF Fresh

\* The records of transactions already numbered keep an id below the next one.
LEMMA OldRecordsStay ==
    ASSUME Core, Floors, Fresh, [Next]_vars, mode = "up", mode' = "up", NEW i \in Lsns(wal)
    PROVE  /\ \/ wal[i].txn < next_transaction_id'
              \/ /\ wal[i].txn = next_transaction_id'
                 /\ \E t \in Txns : t = wal[i].txn /\ phase'[t] = "begun"
           /\ wal[i].txn < next_transaction_id => wal[i].txn < next_transaction_id'
<1>1. next_transaction_id \in Nat /\ wal[i].txn \in Nat
  <2>1. wal[i] \in Records
    BY LsnsAre DEF Core, Types, LogTypes
  <2>2. wal[i].txn \in 0 .. MaxTxn
    BY <2>1, RecordKinds
  <2>. QED
    BY <2>2 DEF Core, Types, StatusTypes
<1>2. CASE IdsStay
  BY <1>2 DEF IdsStay, Fresh
<1>3. CASE \E t \in Txns : allocate_transaction(t)
  <2>1. next_transaction_id' = next_transaction_id + 1
    BY <1>3 DEF allocate_transaction, Floors
  <2>2. wal[i].txn <= next_transaction_id
    BY <1>1 DEF Fresh
  <2>. QED
    BY <1>1, <2>1, <2>2
<1>. QED
  BY <1>2, <1>3, NextIdSteps

\* A record written while the engine is up belongs to a transaction the log knows, or is the
\* Begin record of the next one.
LEMMA NewRecordIsKnown ==
    ASSUME "begin_flush" \notin Failures, Core, Floors, Fresh, [Next]_vars,
           mode = "up", mode' = "up",
           NEW r, wal' = Append(wal, r), Authored(r)
    PROVE  \/ r.txn < next_transaction_id'
           \/ /\ r.txn = next_transaction_id'
              /\ \E t \in Txns : t = r.txn /\ phase'[t] = "begun"
<1>1. next_transaction_id \in Nat /\ next_transaction_id >= 1
  BY DEF Core, Types, StatusTypes, Floors
<1>2. CASE r.txn = 0
  <2>1. next_transaction_id' >= 1 /\ next_transaction_id' \in Nat
    BY <1>1, NextIdSteps DEF IdsStay, allocate_transaction, Floors
  <2>. QED
    BY <1>2, <2>1
<1>3. CASE r.txn \in Txns /\ phase[r.txn] \notin {"none", "gone", "begun"}
  <2>1. PICK i \in Lsns(wal) : wal[i].txn = r.txn
    BY <1>3 DEF Core, Begun
  <2>2. wal[i].txn < next_transaction_id
    BY <1>3, <2>1 DEF Fresh
  <2>. QED
    BY <2>1, <2>2, OldRecordsStay
<1>4. CASE r.txn \in Txns /\ begin_transaction(r.txn)
  <2>1. r.txn = next_transaction_id /\ next_transaction_id' = next_transaction_id
    BY <1>4 DEF begin_transaction, CanBegin, statusVars
  <2>2. phase'[r.txn] = "begun"
    BY <1>4 DEF begin_transaction, SetPhase, Core, Types, SessionTypes
  <2>. QED
    BY <1>4, <2>1, <2>2
<1>5. CASE r.txn \in Txns /\ begin_fails_flush(r.txn)
  BY <1>5 DEF begin_fails_flush, Fault
<1>. QED
  BY <1>2, <1>3, <1>4, <1>5 DEF Authored

\* Every step keeps the next id ahead of the log, unless a Begin record can fail to be flushed.
LEMMA FreshStep ==
    ASSUME "begin_flush" \notin Failures, Core, Floors, Fresh, [Next]_vars
    PROVE  Fresh'
<1>1. CASE mode' # "up"
  BY <1>1 DEF Fresh
<1>2. CASE reconcile_with_wal
  BY <1>2, FreshReconciled
<1>3. CASE mode = "up" /\ mode' = "up"
  <2>1. ~power_loss
    BY <1>3 DEF power_loss, LoseMemory
  <2>2. Writes
    BY <2>1, RecordSteps
  <2>3. CASE wal' = wal
    BY <1>3, <2>3, OldRecordsStay DEF Fresh
  <2>4. CASE wal' # wal
    <3>1. PICK r : wal' = Append(wal, r) /\ Authored(r)
      BY <2>2, <2>4 DEF Writes
    <3>2. /\ Lsns(wal') = Lsns(wal) \cup {Len(wal) + 1} /\ wal'[Len(wal) + 1] = r
          /\ \A i \in Lsns(wal) : wal'[i] = wal[i]
      <4>1. wal \in Seq(Records)
        BY DEF Core, Types, LogTypes
      <4>. QED
        BY <3>1, <4>1, AppendProperties, LenProperties DEF Lsns
    <3>3. \/ r.txn < next_transaction_id'
          \/ /\ r.txn = next_transaction_id'
             /\ \E t \in Txns : t = r.txn /\ phase'[t] = "begun"
      BY <1>3, <3>1, NewRecordIsKnown
    <3>4. \A i \in Lsns(wal) :
             \/ wal[i].txn < next_transaction_id'
             \/ /\ wal[i].txn = next_transaction_id'
                /\ \E t \in Txns : t = wal[i].txn /\ phase'[t] = "begun"
      BY <1>3, OldRecordsStay
    <3>. QED
      BY <3>2, <3>3, <3>4 DEF Fresh
  <2>. QED
    BY <2>3, <2>4
<1>. QED
  BY <1>1, <1>2, <1>3, ModeSteps DEF ModeMoves

\* Whoever may begin next finds an id the log has not seen.
LEMMA FreshImplies ==
    ASSUME Core, Floors, Fresh
    PROVE  NextIdIsFresh
<1>. SUFFICES ASSUME mode = "up", StatusUnlocked
              PROVE  next_transaction_id > HighestTxn(wal)
  BY DEF NextIdIsFresh
<1>1. wal \in Seq(Records) /\ next_transaction_id \in Nat /\ next_transaction_id >= 1
  BY DEF Core, Types, LogTypes, StatusTypes, Floors
<1>2. \A i \in Lsns(wal) : wal[i].txn < next_transaction_id
  BY DEF Fresh, StatusUnlocked
<1>3. HighestTxn(wal) \in {0} \cup {wal[i].txn : i \in Lsns(wal)}
  <2>. DEFINE S == {0} \cup {wal[i].txn : i \in Lsns(wal)}
  <2>1. S \subseteq 0 .. MaxTxn /\ MaxTxn \in Nat
    <3>1. \A i \in Lsns(wal) : wal[i].txn \in 0 .. MaxTxn
      BY <1>1, LsnsAre, RecordKinds
    <3>. QED
      BY <3>1, DurabilityAssumption
  <2>2. S # {}
    OBVIOUS
  <2>. HIDE DEF S
  <2>3. Max(S) \in S
    BY <2>1, <2>2, MaxFacts
  <2>. QED
    BY <2>3 DEF S, HighestTxn
<1>. QED
  BY <1>1, <1>2, <1>3

\* The status document, the log and the next id agree at every moment, unless a Begin record
\* could not be flushed: begin_durable, finish, commit_transaction_at and reconcile_with_wal.
THEOREM StatusesAndLogAgree ==
    ASSUME "begin_flush" \notin Failures
    PROVE  Spec => []StatusAndLogAgree
<1>1. Init => Fresh
  BY EmptySeq DEF Init, Fresh, Lsns
<1>2. Core /\ Agreement /\ Fresh /\ [Next]_vars => Fresh'
  BY FreshStep DEF Agreement
<1>3. Core /\ Agreement /\ Fresh /\ StatusBeforeCommit /\ StatusMatchesWal => StatusAndLogAgree
  BY FreshImplies DEF Agreement, StatusAndLogAgree
<1>. QED
  BY <1>1, <1>2, <1>3, CoreInvariant, AgreementInvariant, StatusesAreInTheLog, PTL DEF Spec

(***************************************************************************)
(* What pages, records and databases hold.  The page count of a file, of a *)
(* record and of a database stays within the model's bound, and a page is  *)
(* an image some transaction wrote or cannot be read.  A database is       *)
(* published only from a file all of whose pages can be read: recovery     *)
(* ends with that check, except when the log is empty, and then nothing    *)
(* has been written to the file since it was synchronised (Untouched).     *)
(***************************************************************************)
PageImages == Image \cup {NoPage}

FileFits(f) ==
    /\ f.cnt \in Pages /\ f.maybe_cnt \subseteq Pages
    /\ \A p \in Pages : f.page[p] \in PageImages /\ f.maybe[p] \subseteq PageImages

DbFits(d) == d.cnt \in Pages /\ \A p \in 1 .. d.cnt : d.val[p] \in 0 .. MaxTxn

RecordFits(r) ==
    /\ r.kind = "PageUpdate" => r.before \in PageImages /\ r.after \in PageImages
    /\ r.kind = "Resize" => r.before_page_count \in Pages /\ r.after_page_count \in Pages
    /\ r.kind = "Compensation" =>
          r.page \in Pages /\ r.undo \in PageImages /\ r.resulting_page_count \in Pages

\* Synchronised and readable: a power loss leaves it as it is.
Settles(f) ==
    /\ Readable(f) /\ f.maybe_cnt = {f.cnt}
    /\ \A p \in Pages : f.maybe[p] = {f.page[p]}

RecordsFit == \A i \in Lsns(wal) : RecordFits(wal[i])

TablesFit ==
    /\ \A p \in Pages : dirty_pages[p] <= Len(wal)
    /\ transaction_dirty_pages \subseteq Txns \X Pages

DatabasesFit ==
    /\ mode = "up" => DbFits(mem)
    /\ job # Idle => DbFits(job.db) /\ job.before \in Pages

RecoveryFits ==
    /\ rec # Idle => rec.cnt \in Pages /\ rec.target \in Pages
    /\ mode = "recovering" /\ rec.step # "redo" => Readable(file)

\* The kinds of record that say nothing of the file.
Plain == {"Begin", "Commit", "Abort", "CheckpointBegin", "CheckpointEnd"}

\* begin_durable flushes the Begin record, so nothing is written before something is certain.
Untouched ==
    synced = 0 /\ mode # "failed" =>
        /\ Settles(file)
        /\ \A t \in Txns : phase[t] \in {"none", "gone"}
        /\ \A i \in Lsns(wal) : wal[i].kind \in Plain

IdsFit == next_transaction_id \in 1 .. MaxTxn + 1 /\ document.next \in 1 .. MaxTxn + 1

Contents ==
    /\ FileFits(file) /\ RecordsFit /\ TablesFit /\ DatabasesFit /\ RecoveryFits
    /\ Untouched /\ IdsFit

\* An image that can be read has the content of a transaction.
LEMMA ImagesAre ==
    /\ NoPage \in PageImages
    /\ \A v \in PageImages : v \in Versions /\ (v # NoPage => v \in Image)
    /\ \A v \in PageImages : v # NoPage => v.val \in 0 .. MaxTxn
    /\ \A l \in Nat, x \in 0 .. MaxTxn : [lsn |-> l, val |-> x] \in PageImages
    /\ \A v \in PageImages, l \in Nat : v # NoPage => [v EXCEPT !.lsn = l] \in PageImages
BY NoPageIsOld, DurabilityAssumption DEF PageImages, Image, Versions

\* DiskManager::write_page.
LEMMA WriteFits ==
    ASSUME NEW f \in Files, FileFits(f), NEW p \in Pages, NEW v \in PageImages
    PROVE  FileFits(WritePage(f, p, v))
<1>. DEFINE g == WritePage(f, p, v)
<1>1. f.page \in [Pages -> Versions] /\ f.maybe \in [Pages -> SUBSET Versions]
  BY DEF Files
<1>2. g.page = [f.page EXCEPT ![p] = v] /\ g.maybe = [f.maybe EXCEPT ![p] = @ \cup {v, NoPage}]
  BY DEF WritePage
<1>3. /\ g.cnt = IF p > f.cnt THEN p ELSE f.cnt
      /\ g.maybe_cnt = f.maybe_cnt \cup {IF p > f.cnt THEN p ELSE f.cnt}
  BY DEF WritePage
<1>. HIDE DEF g
<1>4. ASSUME NEW q \in Pages
      PROVE  g.page[q] \in PageImages /\ g.maybe[q] \subseteq PageImages
  <2>1. g.page[q] = v \/ g.page[q] = f.page[q]
    BY <1>1, <1>2
  <2>2. g.maybe[q] \subseteq f.maybe[q] \cup {v, NoPage}
    BY <1>1, <1>2
  <2>. QED
    BY <2>1, <2>2, ImagesAre DEF FileFits
<1>5. g.cnt \in Pages /\ g.maybe_cnt \subseteq Pages
  BY <1>3 DEF FileFits
<1>. QED
  BY <1>4, <1>5 DEF FileFits, g

\* truncate_pages.
LEMMA SetLenFits ==
    ASSUME NEW f, FileFits(f), NEW n \in Pages
    PROVE  FileFits(SetLen(f, n))
<1>1. /\ SetLen(f, n).page = [p \in Pages |-> IF p <= n THEN f.page[p] ELSE NoPage]
      /\ SetLen(f, n).maybe = [p \in Pages |-> IF p <= n THEN f.maybe[p] ELSE f.maybe[p] \cup {NoPage}]
      /\ SetLen(f, n).cnt = n /\ SetLen(f, n).maybe_cnt = f.maybe_cnt \cup {n}
  BY DEF SetLen
<1>. QED
  BY <1>1, ImagesAre DEF FileFits

\* sync_all.
LEMMA SyncFits ==
    ASSUME NEW f \in Files, FileFits(f)
    PROVE  /\ FileFits(SyncFile(f)) /\ SyncFile(f).page = f.page /\ SyncFile(f).cnt = f.cnt
           /\ Readable(SyncFile(f)) => Settles(SyncFile(f))
<1>1. /\ SyncFile(f).maybe = [p \in Pages |-> {f.page[p]}] /\ SyncFile(f).page = f.page
      /\ SyncFile(f).cnt = f.cnt /\ SyncFile(f).maybe_cnt = {f.cnt}
  BY DEF SyncFile, Files
<1>. QED
  BY <1>1 DEF FileFits, Settles

\* A power loss leaves images, and a synchronised file as it is.
LEMMA LossFits ==
    ASSUME NEW f, FileFits(f), NEW g \in AfterPowerLoss(f)
    PROVE  FileFits(g) /\ (Settles(f) => Settles(g))
<1>. DEFINE All == UNION {f.maybe[p] : p \in Pages}
            Cut(h, n) == [p \in Pages |-> IF p <= n THEN h[p] ELSE NoPage]
            Left(pg, n) == [page |-> pg, cnt |-> n, maybe |-> [p \in Pages |-> {pg[p]}],
                            maybe_cnt |-> {n}]
<1>1. PICK n \in f.maybe_cnt, h \in [Pages -> All] :
          /\ \A p \in Pages : h[p] \in f.maybe[p]
          /\ g = Left(Cut(h, n), n)
  BY DEF AfterPowerLoss
<1>2. /\ g.page = Cut(h, n) /\ g.maybe = [p \in Pages |-> {Cut(h, n)[p]}]
      /\ g.cnt = n /\ g.maybe_cnt = {n}
  BY <1>1
<1>3. n \in Pages
  BY DEF FileFits
<1>4. \A p \in Pages : Cut(h, n)[p] \in PageImages
  BY <1>1, ImagesAre DEF FileFits
<1>5. \A p \in Pages : p <= n => Cut(h, n)[p] = h[p]
  OBVIOUS
<1>. HIDE DEF Cut, Left
<1>6. FileFits(g)
  BY <1>2, <1>3, <1>4 DEF FileFits
<1>7. ASSUME Settles(f) PROVE Settles(g)
  <2>1. n = f.cnt /\ \A p \in Pages : h[p] = f.page[p]
    BY <1>1, <1>7 DEF Settles
  <2>2. \A p \in 1 .. n : p \in Pages /\ p <= n
    BY <1>3, DurabilityAssumption DEF Pages
  <2>3. \A p \in 1 .. n : g.page[p] # NoPage
    BY <1>2, <1>5, <1>7, <2>1, <2>2 DEF Settles, Readable
  <2>. QED
    BY <1>2, <2>3 DEF Settles, Readable
<1>. QED
  BY <1>6, <1>7

\* redo_record and apply_compensation write what the record holds.
LEMMA RedoFits ==
    ASSUME NEW f \in Files, FileFits(f), NEW c \in Pages, NEW r \in Records, RecordFits(r), NEW l
    PROVE  /\ FileFits(redo_record(f, c, r, l).file) /\ redo_record(f, c, r, l).cnt \in Pages
           /\ r.kind \in Plain => redo_record(f, c, r, l).file = f
<1>1. CASE r.kind = "PageUpdate" /\ r.after # NoPage /\ page_needs_redo(f, r.page, l)
  <2>. DEFINE ok == ~Sparse(f, r.page)
  <2>0. redo_record(f, c, r, l) = [file |-> WritePage(f, r.page, r.after),
                                   cnt |-> Larger(c, r.page), ok |-> ok]
    BY <1>1, Zenon DEF redo_record
  <2>. HIDE DEF ok
  <2>1. redo_record(f, c, r, l).file = WritePage(f, r.page, r.after)
        /\ redo_record(f, c, r, l).cnt = Larger(c, r.page)
    BY <2>0
  <2>2. r.page \in Pages /\ r.after \in PageImages
    BY <1>1, RecordKinds DEF PageUpdates, RecordFits
  <2>. QED
    BY <1>1, <2>1, <2>2, WriteFits DEF Larger, Plain
<1>2. CASE r.kind = "Resize"
  <2>1. redo_record(f, c, r, l).file = SetLen(f, r.after_page_count)
        /\ redo_record(f, c, r, l).cnt = r.after_page_count
    BY <1>2 DEF redo_record
  <2>. QED
    BY <1>2, <2>1, SetLenFits DEF RecordFits, Plain
<1>3. CASE r.kind = "Compensation"
  <2>. DEFINE n  == r.resulting_page_count
              f1 == IF n > c THEN SetLen(f, n) ELSE f
              write == r.undo # NoPage /\ page_needs_redo(f1, r.page, l)
              f2 == IF write THEN WritePage(f1, r.page, r.undo) ELSE f1
              c2 == IF write THEN Larger(Larger(c, n), r.page) ELSE Larger(c, n)
              f3 == IF n < c2 THEN SetLen(f2, n) ELSE f2
              ok == ~(write /\ Sparse(f1, r.page))
  <2>1. n \in Pages /\ r.undo \in PageImages /\ r.page \in Pages /\ n \in Nat
    BY <1>3, PagesAreNumbers DEF RecordFits
  <2>2. redo_record(f, c, r, l) = [file |-> f3, cnt |-> n, ok |-> ok]
    <3>1. redo_record(f, c, r, l) = apply_compensation(f, c, r, l)
      BY <1>3 DEF redo_record
    <3>2. apply_compensation(f, c, r, l) = [file |-> f3, cnt |-> n, ok |-> ok]
      BY Zenon DEF apply_compensation
    <3>. QED
      BY <3>1, <3>2
  <2>. HIDE DEF ok
  <2>3. FileFits(f1) /\ f1 \in Files
    BY <2>1, SetLenFits, SetLenFacts
  <2>. HIDE DEF f1
  <2>4. FileFits(f2)
    BY <2>1, <2>3, WriteFits
  <2>. HIDE DEF f2
  <2>5. FileFits(f3)
    BY <2>1, <2>4, SetLenFits
  <2>. HIDE DEF f3, n
  <2>. QED
    BY <1>3, <2>1, <2>2, <2>5 DEF Plain
<1>4. CASE /\ ~(r.kind = "PageUpdate" /\ r.after # NoPage /\ page_needs_redo(f, r.page, l))
           /\ r.kind # "Resize" /\ r.kind # "Compensation"
  <2>1. redo_record(f, c, r, l).file = f /\ redo_record(f, c, r, l).cnt = c
    BY <1>4 DEF redo_record
  <2>. QED
    BY <2>1
<1>. QED
  BY <1>1, <1>2, <1>3, <1>4

\* build_snapshot keeps what it does not change and writes the rest.
LEMMA CandidatesFit ==
    ASSUME NEW t \in Txns, NEW d \in Dbs, DbFits(d), NEW e \in Candidates(t, d)
    PROVE  DbFits(e)
<1>. DEFINE Val(n, W, p) == CASE p > n -> -1
                              [] p <= n /\ (p \in W \/ p > d.cnt) -> t
                              [] OTHER -> d.val[p]
<1>1. PICK n \in PageCounts, W \in SUBSET Pages :
          e = [cnt |-> n, val |-> [p \in Pages |-> Val(n, W, p)]]
  BY DEF Candidates
<1>2. n \in Pages /\ n \in Nat /\ t \in 0 .. MaxTxn /\ d.cnt \in Nat
  BY DurabilityAssumption, PagesAreNumbers DEF Pages, Txns, Dbs
<1>3. ASSUME NEW p \in 1 .. n
      PROVE  p \in Pages /\ Val(n, W, p) \in 0 .. MaxTxn
  <2>1. p \in Pages /\ p \in Nat /\ p <= n /\ 1 <= p
    BY <1>2, DurabilityAssumption DEF Pages
  <2>2. p <= d.cnt => d.val[p] \in 0 .. MaxTxn
    BY <1>2, <2>1 DEF DbFits
  <2>. QED
    BY <1>2, <2>1, <2>2
<1>4. e.cnt = n /\ e.val = [p \in Pages |-> Val(n, W, p)]
  BY <1>1
<1>. HIDE DEF Val
<1>. QED
  BY <1>2, <1>3, <1>4 DEF DbFits

\* DatabaseStore::open reads a database off a file that can be read.
LEMMA LoadFits ==
    ASSUME NEW f, FileFits(f), Readable(f)
    PROVE  DbFits(Load(f))
<1>1. Load(f).cnt = f.cnt /\ Load(f).val = [p \in Pages |-> f.page[p].val]
  BY DEF Load
<1>2. ASSUME NEW p \in 1 .. f.cnt
      PROVE  f.page[p].val \in 0 .. MaxTxn /\ p \in Pages
  <2>1. p \in Pages /\ f.page[p] # NoPage
    BY DurabilityAssumption DEF FileFits, Readable, Pages
  <2>. QED
    BY <2>1, ImagesAre DEF FileFits
<1>. QED
  BY <1>1, <1>2 DEF DbFits, FileFits

\* The page count recovery resizes to.
LEMMA FinalCountFits ==
    ASSUME NEW w \in Seq(Records), NEW n \in Pages, \A i \in Lsns(w) : RecordFits(w[i])
    PROVE  final_page_count(w, n) \in Pages
<1>. DEFINE resizes == {i \in Lsns(w) : w[i].kind = "Resize"}
            m == Max(resizes)
<1>1. CASE resizes # {}
  <2>1. resizes \subseteq 0 .. Len(w) /\ Len(w) \in Nat
    BY LsnsAre
  <2>2. m \in resizes
    BY <1>1, <2>1, MaxFacts
  <2>3. final_page_count(w, n) = IF Has(w, w[m].txn, "Commit") THEN w[m].after_page_count
                                 ELSE w[m].before_page_count
    BY <1>1 DEF final_page_count
  <2>. HIDE DEF m
  <2>. QED
    BY <2>2, <2>3 DEF RecordFits
<1>2. CASE resizes = {}
  BY <1>2 DEF final_page_count
<1>. QED
  BY <1>1, <1>2

\* The log names no transaction beyond the model's bound.
LEMMA HighestFits ==
    ASSUME NEW w \in Seq(Records)
    PROVE  HighestTxn(w) \in 0 .. MaxTxn
<1>. DEFINE S == {0} \cup {w[i].txn : i \in Lsns(w)}
<1>1. MaxTxn \in Nat /\ \A i \in Lsns(w) : w[i].txn \in 0 .. MaxTxn
  BY LsnsAre, RecordKinds, DurabilityAssumption
<1>2. S \subseteq 0 .. MaxTxn /\ S # {}
  BY <1>1
<1>3. HighestTxn(w) = Max(S)
  BY DEF HighestTxn
<1>. HIDE DEF S
<1>. QED
  BY <1>1, <1>2, <1>3, MaxFacts, Zenon

\* WalManager::open gives every page an entry that is in the log.
LEMMA ReplayedFits ==
    ASSUME NEW w \in Seq(Records)
    PROVE  /\ \A p \in Pages : replayed_dirty(w)[p] <= Len(w)
           /\ replayed_transaction_dirty(w) \subseteq Txns \X Pages
<1>. DEFINE Touched(t, p, j) == \E k \in 1 .. j : IsPageRecord(w[k]) /\ w[k].page = p /\ w[k].txn = t
            Cleared(p) == Max({0} \cup {j \in Lsns(w) : IsTerminal(w[j]) /\ Touched(w[j].txn, p, j)})
            Entries(p) == {i \in Lsns(w) : IsPageRecord(w[i]) /\ w[i].page = p /\ i > Cleared(p)}
            Entry(p) == IF Entries(p) = {} THEN 0 ELSE Min(Entries(p))
<1>1. ASSUME NEW p \in Pages
      PROVE  Entry(p) <= Len(w)
  <2>1. Entries(p) \subseteq Lsns(w) /\ Lsns(w) \subseteq 1 .. Len(w) /\ Len(w) \in Nat
        /\ Lsns(w) \subseteq Nat
    BY LsnsAre
  <2>. HIDE DEF Entries
  <2>2. Entries(p) # {} => Min(Entries(p)) \in Entries(p)
    BY <2>1, MinFacts
  <2>. QED
    BY <2>1, <2>2
<1>2. replayed_dirty(w) = [p \in Pages |-> Entry(p)]
  BY DEF replayed_dirty
<1>3. replayed_transaction_dirty(w) \subseteq Txns \X Pages
  BY DEF replayed_transaction_dirty
<1>. HIDE DEF Entry
<1>. QED
  BY <1>1, <1>2, <1>3

(***************************************************************************)
(* How the parts stand while most of the state does.                       *)
(***************************************************************************)
\* An append adds one record to those that fit.
LEMMA RecordsAppend ==
    ASSUME Core, RecordsFit, NEW r, RecordFits(r), wal' = Append(wal, r)
    PROVE  RecordsFit' /\ Len(wal') = Len(wal) + 1 /\ Len(wal) \in Nat
           /\ ((\A i \in Lsns(wal) : wal[i].kind \in Plain) /\ r.kind \in Plain
                  => \A i \in Lsns(wal') : wal'[i].kind \in Plain)
<1>1. /\ Len(wal') = Len(wal) + 1 /\ wal'[Len(wal) + 1] = r
      /\ \A i \in 1 .. Len(wal) : wal'[i] = wal[i]
      /\ Len(wal) \in Nat
  BY LenProperties DEF Core, Types, LogTypes
<1>2. \A i \in Lsns(wal') : i \in Lsns(wal) \/ i = Len(wal) + 1
  BY <1>1 DEF Lsns
<1>3. \A i \in Lsns(wal) : wal'[i] = wal[i]
  BY <1>1 DEF Lsns
<1>. QED
  BY <1>1, <1>2, <1>3 DEF RecordsFit

\* apply_record_state enters the page of the record.
LEMMA TablesAppend ==
    ASSUME Core, TablesFit, NEW r, append(r),
           IsPageRecord(r) => r.txn \in Txns /\ r.page \in Pages
    PROVE  TablesFit'
<1>1. Len(wal') = Len(wal) + 1 /\ Len(wal) \in Nat /\ dirty_pages \in [Pages -> Nat]
  BY LenProperties DEF Core, Types, LogTypes, append, Positions
<1>2. ASSUME NEW p \in Pages PROVE dirty_pages'[p] <= Len(wal')
  <2>1. dirty_pages'[p] = dirty_pages[p] \/ dirty_pages'[p] = Len(wal) + 1
    BY <1>1 DEF append
  <2>. QED
    BY <1>1, <2>1 DEF TablesFit
<1>3. transaction_dirty_pages' \subseteq Txns \X Pages
  BY DEF append, TablesFit
<1>. QED
  BY <1>2, <1>3 DEF TablesFit

\* mark_transaction_clean only takes entries out.
LEMMA TablesShrink ==
    ASSUME Core, TablesFit, Len(wal) <= Len(wal'), Len(wal') \in Nat,
           \/ UNCHANGED <<dirty_pages, transaction_dirty_pages>>
           \/ \E t : cleaned(t)
    PROVE  TablesFit'
<1>1. Len(wal) \in Nat /\ dirty_pages \in [Pages -> Nat]
  BY LenProperties DEF Core, Types, LogTypes, Positions
<1>2. ASSUME NEW p \in Pages PROVE dirty_pages'[p] <= Len(wal')
  <2>1. dirty_pages'[p] = dirty_pages[p] \/ dirty_pages'[p] = 0
    BY DEF cleaned
  <2>. QED
    BY <1>1, <2>1 DEF TablesFit
<1>3. transaction_dirty_pages' \subseteq Txns \X Pages
  BY DEF cleaned, TablesFit
<1>. QED
  BY <1>2, <1>3 DEF TablesFit

\* What the log and its tables do when a step appends a plain record, or none.
PlainLog ==
    \/ wal' = wal /\ (UNCHANGED <<dirty_pages, transaction_dirty_pages>> \/ \E t : cleaned(t))
    \/ \E r : /\ r.kind \in Plain /\ wal' = Append(wal, r)
              /\ append(r) \/ UNCHANGED <<dirty_pages, transaction_dirty_pages>> \/ \E t : cleaned(t)

\* A plain record fits.
LEMMA PlainLogFits ==
    ASSUME Core, RecordsFit, TablesFit, PlainLog
    PROVE  /\ RecordsFit' /\ TablesFit'
           /\ ((\A i \in Lsns(wal) : wal[i].kind \in Plain)
                  => \A i \in Lsns(wal') : wal'[i].kind \in Plain)
<1>1. Len(wal) \in Nat
  BY LenProperties DEF Core, Types, LogTypes
<1>2. CASE wal' = wal /\ (UNCHANGED <<dirty_pages, transaction_dirty_pages>> \/ \E t : cleaned(t))
  <2>1. TablesFit'
    BY <1>1, <1>2, TablesShrink
  <2>. QED
    BY <1>2, <2>1 DEF RecordsFit
<1>3. ASSUME NEW r, r.kind \in Plain, wal' = Append(wal, r),
             append(r) \/ UNCHANGED <<dirty_pages, transaction_dirty_pages>> \/ \E t : cleaned(t)
      PROVE  /\ RecordsFit' /\ TablesFit'
             /\ ((\A i \in Lsns(wal) : wal[i].kind \in Plain)
                    => \A i \in Lsns(wal') : wal'[i].kind \in Plain)
  <2>1. RecordFits(r) /\ ~IsPageRecord(r)
    BY <1>3 DEF RecordFits, Plain, IsPageRecord
  <2>2. /\ RecordsFit' /\ Len(wal') = Len(wal) + 1
        /\ ((\A i \in Lsns(wal) : wal[i].kind \in Plain)
                  => \A i \in Lsns(wal') : wal'[i].kind \in Plain)
    BY <1>3, <2>1, RecordsAppend
  <2>3. CASE append(r)
    BY <2>1, <2>2, <2>3, TablesAppend
  <2>4. CASE UNCHANGED <<dirty_pages, transaction_dirty_pages>> \/ \E t : cleaned(t)
    BY <1>1, <2>2, <2>4, TablesShrink
  <2>. QED
    BY <1>3, <2>2, <2>3, <2>4
<1>. QED
  BY <1>2, <1>3 DEF PlainLog

\* What is certain stays certain.
LEMMA SyncedStays ==
    ASSUME Core, LogMoves, synced # 0
    PROVE  synced' # 0
<1>1. synced \in Nat /\ Len(wal) \in Nat /\ synced <= Len(wal)
  BY LenProperties DEF Core, Types, LogTypes
<1>. QED
  BY <1>1 DEF LogMoves, Grows

\* While somebody is at work, something is certain.
LEMMA BusyIsSynced ==
    ASSUME Core, Contents, NEW t \in Txns, phase[t] \notin {"none", "gone"}
    PROVE  synced # 0 /\ mode = "up"
<1>1. mode = "up"
  BY BusyIsUp
<1>. QED
  BY <1>1 DEF Contents, Untouched

\* A step of a session, of VACUUM or of a checkpoint.
LEMMA SessionFits ==
    ASSUME Core, Contents, LogMoves, mode = "up", UNCHANGED <<file, mode, mem, job, rec>>,
           PlainLog, IdsFit',
           \/ synced' # 0
           \/ synced' = synced /\ phase' = phase
           \/ \E t \in Txns : phase[t] \notin {"none", "gone"}
    PROVE  Contents'
<1>1. RecordsFit' /\ TablesFit'
  BY PlainLogFits DEF Contents
<1>2. Untouched'
  <2>1. CASE synced' # 0
    BY <2>1 DEF Untouched
  <2>2. CASE synced' = synced /\ phase' = phase
    <3>1. Untouched
      BY DEF Contents
    <3>2. (\A i \in Lsns(wal) : wal[i].kind \in Plain) => \A i \in Lsns(wal') : wal'[i].kind \in Plain
      BY PlainLogFits DEF Contents
    <3>. QED
      BY <2>2, <3>1, <3>2 DEF Untouched
  <2>3. CASE \E t \in Txns : phase[t] \notin {"none", "gone"}
    BY <2>3, BusyIsSynced, SyncedStays DEF Untouched
  <2>. QED
    BY <2>1, <2>2, <2>3
<1>3. FileFits(file') /\ DatabasesFit' /\ RecoveryFits'
  BY DEF Contents, DatabasesFit, RecoveryFits
<1>. QED
  BY <1>1, <1>2, <1>3 DEF Contents

\* A step of persist_candidate.
LEMMA CommitFits ==
    ASSUME Core, Contents, LogMoves, NEW t \in Txns, phase[t] \notin {"none", "gone"},
           UNCHANGED <<mode, rec, statusVars>>,
           FileFits(file'), RecordsFit', TablesFit', mem' = mem \/ DbFits(mem'),
           job' # Idle => DbFits(job'.db) /\ job'.before \in Pages
    PROVE  Contents'
<1>1. synced' # 0 /\ mode = "up"
  BY BusyIsSynced, SyncedStays
<1>2. IdsFit'
  BY DEF Contents, IdsFit, statusVars
<1>3. DatabasesFit'
  BY DEF Contents, DatabasesFit
<1>4. RecoveryFits'
  BY <1>1 DEF Contents, RecoveryFits
<1>. QED
  BY <1>1, <1>2, <1>3, <1>4 DEF Contents, Untouched

(***************************************************************************)
(* Sessions, VACUUM and checkpoints.                                       *)
(***************************************************************************)
\* An id that is given out is one of the model's.
LEMMA AllocateFits ==
    ASSUME Contents, NEW t \in Txns, next_transaction_id' = t + 1,
           document' = document \/ write_document_atomic
    PROVE  IdsFit'
<1>1. t + 1 \in 1 .. MaxTxn + 1
  BY DurabilityAssumption DEF Txns
<1>2. document'.next = document.next \/ document'.next = next_transaction_id'
  BY DEF write_document_atomic
<1>. QED
  BY <1>1, <1>2 DEF Contents, IdsFit

\* The other steps leave the next id alone.
LEMMA IdsFitStay ==
    ASSUME Contents, next_transaction_id' = next_transaction_id,
           document' = document \/ write_document_atomic
    PROVE  IdsFit'
<1>1. document'.next = document.next \/ document'.next = next_transaction_id'
  BY DEF write_document_atomic
<1>. QED
  BY <1>1 DEF Contents, IdsFit

\* begin_transaction, begin_durable, commit_empty and abort_active.
LEMMA ContentsSession ==
    ASSUME Core, Core', Contents, LogMoves, NEW t \in Txns,
           \/ begin_transaction(t) \/ begin_durable(t) \/ commit_empty_status(t)
           \/ commit_empty_wal(t) \/ abort_wal(t) \/ abort_status(t)
    PROVE  Contents'
<1>0. Len(wal) \in Nat /\ durable_lsn <= Len(wal) /\ LogTypes
  BY LenProperties DEF Core, Types, LogTypes
<1>1. CASE begin_transaction(t)
  <2>1. /\ append(Begin(t)) /\ sync(Len(wal) + 1, Len(wal) + 1) /\ mode = "up"
        /\ UNCHANGED <<file, statusVars, mode, mem, job, rec>>
    BY <1>1 DEF begin_transaction, append_and_flush, CanBegin
  <2>2. PlainLog
    <3>1. Begin(t).kind \in Plain
      BY RecordFields DEF Plain
    <3>. QED
      BY <2>1, <3>1 DEF PlainLog, append
  <2>3. synced' # 0
    BY <1>0, <2>1 DEF sync, LogTypes
  <2>4. IdsFit'
    BY <2>1, IdsFitStay DEF statusVars
  <2>. QED
    BY <2>1, <2>2, <2>3, <2>4, SessionFits
<1>2. CASE begin_durable(t)
  <2>1. /\ phase[t] \notin {"none", "gone"} /\ next_transaction_id' = t + 1 /\ write_document_atomic
        /\ UNCHANGED <<walVars, file, mode, mem, job, rec>>
    BY <1>2 DEF begin_durable, allocate_transaction
  <2>2. PlainLog /\ mode = "up"
    BY <2>1, BusyIsUp DEF PlainLog, walVars
  <2>3. IdsFit'
    BY <2>1, AllocateFits
  <2>. QED
    BY <2>1, <2>2, <2>3, SessionFits
<1>3. CASE commit_empty_status(t) \/ abort_status(t)
  <2>1. /\ phase[t] \notin {"none", "gone"} /\ next_transaction_id' = next_transaction_id
        /\ write_document_atomic /\ UNCHANGED <<walVars, file, mode, mem, job, rec>>
    BY <1>3 DEF commit_empty_status, abort_status, finish
  <2>2. PlainLog /\ mode = "up"
    BY <2>1, BusyIsUp DEF PlainLog, walVars
  <2>3. IdsFit'
    BY <2>1, IdsFitStay
  <2>. QED
    BY <2>1, <2>2, <2>3, SessionFits
<1>4. CASE commit_empty_wal(t) \/ abort_wal(t)
  <2>1. PICK r : /\ r = Commit(t, last_lsn(wal, t)) \/ r = Abort(t, last_lsn(wal, t))
                 /\ terminate(r)
    BY <1>4 DEF commit_empty_wal, abort_wal
  <2>2. phase[t] \notin {"none", "gone"} /\ UNCHANGED <<statusVars, file, mode, mem, job, rec>>
    BY <1>4 DEF commit_empty_wal, abort_wal
  <2>3. PlainLog /\ mode = "up"
    <3>1. r.kind \in Plain
      BY <2>1, RecordFields DEF Plain
    <3>. QED
      BY <2>1, <2>2, <3>1, BusyIsUp DEF PlainLog, terminate
  <2>4. IdsFit'
    BY <2>2, IdsFitStay DEF statusVars
  <2>. QED
    BY <2>2, <2>3, <2>4, SessionFits
<1>. QED
  BY <1>1, <1>2, <1>3, <1>4

\* begin and abort that fail, compact_before, and the checkpoints of other sessions.
LEMMA ContentsBeside ==
    ASSUME Core, Core', Contents, LogMoves,
           \/ \E t \in Txns : begin_fails_flush(t) \/ begin_fails_status(t) \/ abort_fails(t)
           \/ \E h \in 1 .. MaxTxn + 1 : compact_before(h)
           \/ checkpoint_sample \/ checkpoint_begin \/ checkpoint_end
    PROVE  Contents'
<1>0. Len(wal) \in Nat /\ durable_lsn <= Len(wal) /\ LogTypes
  BY LenProperties DEF Core, Types, LogTypes
<1>1. ASSUME NEW t \in Txns, begin_fails_flush(t) PROVE Contents'
  <2>1. /\ append(Begin(t)) /\ mode = "up"
        /\ UNCHANGED <<synced, phase, file, statusVars, mode, mem, job, rec>>
    BY <1>1 DEF begin_fails_flush, CanBegin
  <2>2. PlainLog
    <3>1. Begin(t).kind \in Plain
      BY RecordFields DEF Plain
    <3>. QED
      BY <2>1, <3>1 DEF PlainLog, append
  <2>3. IdsFit'
    BY <2>1, IdsFitStay DEF statusVars
  <2>. QED
    BY <2>1, <2>2, <2>3, SessionFits
<1>2. ASSUME NEW t \in Txns, begin_fails_status(t) PROVE Contents'
  <2>1. /\ phase[t] \notin {"none", "gone"} /\ next_transaction_id' = t + 1 /\ document' = document
        /\ UNCHANGED <<walVars, file, mode, mem, job, rec>>
    BY <1>2 DEF begin_fails_status, allocate_transaction
  <2>2. PlainLog /\ mode = "up"
    BY <2>1, BusyIsUp DEF PlainLog, walVars
  <2>3. IdsFit'
    BY <2>1, AllocateFits
  <2>. QED
    BY <2>1, <2>2, <2>3, SessionFits
<1>3. ASSUME NEW t \in Txns, abort_fails(t) PROVE Contents'
  <2>1. /\ phase[t] \notin {"none", "gone"}
        /\ UNCHANGED <<dirty_pages, transaction_dirty_pages, statusVars, file, mode, mem, job, rec>>
        /\ wal' = wal \/ wal' = Append(wal, Abort(t, last_lsn(wal, t)))
    BY <1>3 DEF abort_fails
  <2>2. PlainLog /\ mode = "up"
    <3>1. Abort(t, last_lsn(wal, t)).kind \in Plain
      BY RecordFields DEF Plain
    <3>. QED
      BY <2>1, <3>1, BusyIsUp DEF PlainLog
  <2>3. IdsFit'
    BY <2>1, IdsFitStay DEF statusVars
  <2>. QED
    BY <2>1, <2>2, <2>3, SessionFits
<1>4. ASSUME NEW h \in 1 .. MaxTxn + 1, compact_before(h) PROVE Contents'
  <2>1. /\ mode = "up" /\ next_transaction_id' = next_transaction_id /\ write_document_atomic
        /\ UNCHANGED <<walVars, phase, file, mode, mem, job, rec>>
    BY <1>4 DEF compact_before
  <2>2. PlainLog /\ synced' = synced
    BY <2>1 DEF PlainLog, walVars
  <2>3. IdsFit'
    BY <2>1, IdsFitStay
  <2>. QED
    BY <2>1, <2>2, <2>3, SessionFits
<1>5. CASE checkpoint_sample
  <2>1. mode = "up" /\ UNCHANGED <<walVars, statusVars, phase, file, mode, mem, job, rec>>
    BY <1>5 DEF checkpoint_sample
  <2>2. PlainLog /\ synced' = synced
    BY <2>1 DEF PlainLog, walVars
  <2>3. IdsFit'
    BY <2>1, IdsFitStay DEF statusVars
  <2>. QED
    BY <2>1, <2>2, <2>3, SessionFits
<1>6. CASE checkpoint_begin \/ checkpoint_end
  <2>1. mode = "up"
    BY <1>6 DEF checkpoint_begin, checkpoint_end, Core, Owners, Idle
  <2>2. UNCHANGED <<statusVars, file, mode, mem, job, rec>>
    BY <1>6 DEF checkpoint_begin, checkpoint_end
  <2>3. PICK r : append_and_flush(r) /\ r.kind \in Plain
    <3>1. \A d : CheckpointBegin(d).kind \in Plain
      BY RecordFields DEF Plain
    <3>2. \A l : CheckpointEnd(l).kind \in Plain
      BY RecordFields DEF Plain
    <3>. QED
      BY <1>6, <3>1, <3>2 DEF checkpoint_begin, checkpoint_end
  <2>4. PlainLog
    BY <2>3 DEF PlainLog, append_and_flush, append
  <2>5. synced' # 0
    BY <1>0, <2>3 DEF append_and_flush, sync, LogTypes
  <2>6. IdsFit'
    BY <2>2, IdsFitStay DEF statusVars
  <2>. QED
    BY <2>1, <2>2, <2>4, <2>5, <2>6, SessionFits
<1>. QED
  BY <1>1, <1>2, <1>3, <1>4, <1>5, <1>6

(***************************************************************************)
(* persist_candidate.                                                      *)
(***************************************************************************)
\* The candidate fits because the published state does.
LEMMA ContentsPrepare ==
    ASSUME Core, Contents, LogMoves, NEW t \in Txns, prepare_commit(t)
    PROVE  Contents'
<1>1. /\ phase[t] \notin {"none", "gone"} /\ mem \in Dbs
      /\ UNCHANGED <<walVars, file, statusVars, mode, mem, rec>>
  BY DEF prepare_commit, Core, Types, SessionTypes
<1>2. mode = "up" /\ DbFits(mem)
  BY <1>1, BusyIsUp DEF Contents, DatabasesFit
<1>3. PICK d \in Candidates(t, mem) :
          job' = [step |-> "log", txn |-> t, db |-> d, before |-> file.cnt,
                  todo |-> Deltas(file, d)]
  BY DEF prepare_commit
<1>4. DbFits(job'.db) /\ job'.before \in Pages
  BY <1>1, <1>2, <1>3, CandidatesFit DEF Contents, FileFits
<1>5. PlainLog
  BY <1>1 DEF PlainLog, walVars
<1>6. RecordsFit' /\ TablesFit'
  BY <1>5, PlainLogFits DEF Contents
<1>. QED
  BY <1>1, <1>4, <1>6, CommitFits DEF Contents

\* The image log_prepared logs and apply_prepared writes.
LEMMA AfterFits ==
    ASSUME DbFits(job.db), NEW p \in Pages, NEW l \in Nat
    PROVE  After(p, l) \in PageImages
<1>1. CASE p <= job.db.cnt
  <2>1. p \in 1 .. job.db.cnt
    BY <1>1, DurabilityAssumption DEF DbFits, Pages
  <2>. QED
    BY <1>1, <2>1, ImagesAre DEF DbFits, After
<1>2. CASE ~(p <= job.db.cnt)
  BY <1>2, ImagesAre DEF After
<1>. QED
  BY <1>1, <1>2

\* The records and the file of a running commit hold images and counts of databases that fit.
LEMMA ContentsPersist ==
    ASSUME Core, Core', Contents, LogMoves, Persist
    PROVE  Contents'
<1>0. job.step # "idle"
  BY DEF Persist, log_page, log_resize, log_flush, mark_status_committed, apply_page,
         apply_resize, apply_sync, commit_append, commit_flush, publish_prepared
<1>1. /\ job \in Jobs /\ job # Idle /\ job.txn \in Txns /\ phase[job.txn] \notin {"none", "gone"}
      /\ mode = "up" /\ job.todo \subseteq Pages
  BY <1>0, JobIs DEF Core
<1>2. DbFits(job.db) /\ job.before \in Pages /\ FileFits(file) /\ RecordsFit /\ TablesFit
  BY <1>1 DEF Contents, DatabasesFit
<1>3. Len(wal) \in Nat /\ file \in Files /\ wal \in Seq(Records)
  BY LenProperties DEF Core, Types, LogTypes
<1>4. UNCHANGED <<mode, rec>>
  BY DEF Persist, log_page, log_resize, log_flush, mark_status_committed, apply_page,
         apply_resize, apply_sync, commit_append, commit_flush, publish_prepared
<1>5. CASE log_page
  <2>. DEFINE p == Min(job.todo)
              r == PageUpdate(job.txn, last_lsn(wal, job.txn), p, file.page[p],
                              After(p, Len(wal) + 1))
  <2>1. /\ job.todo # {} /\ append(r) /\ job' = [job EXCEPT !.todo = @ \ {p}]
        /\ UNCHANGED <<file, statusVars, mem>>
    BY <1>5 DEF log_page
  <2>2. p \in Pages
    BY <1>1, <2>1, PagesAreNumbers, MinFacts
  <2>. HIDE DEF p
  <2>3. file.page[p] \in PageImages /\ After(p, Len(wal) + 1) \in PageImages
    BY <1>2, <1>3, <2>2, AfterFits DEF FileFits
  <2>4. /\ r.kind = "PageUpdate" /\ r.before = file.page[p] /\ r.after = After(p, Len(wal) + 1)
        /\ r.txn = job.txn /\ r.page = p
    BY DEF PageUpdate
  <2>. HIDE DEF r
  <2>5. RecordFits(r)
    BY <2>3, <2>4 DEF RecordFits
  <2>6. RecordsFit' /\ TablesFit'
    BY <1>1, <1>2, <2>1, <2>2, <2>4, <2>5, RecordsAppend, TablesAppend DEF append
  <2>7. job'.db = job.db /\ job'.before = job.before
    BY <1>1, <2>1 DEF Jobs
  <2>. QED
    BY <1>1, <1>2, <1>4, <2>1, <2>6, <2>7, CommitFits
<1>6. CASE log_resize
  <2>. DEFINE r == Resize(job.txn, last_lsn(wal, job.txn), job.before, job.db.cnt)
  <2>1. /\ append(r) /\ job' = [job EXCEPT !.step = "logged"]
        /\ UNCHANGED <<file, statusVars, mem>>
    BY <1>6 DEF log_resize
  <2>2. r.kind = "Resize" /\ r.before_page_count = job.before /\ r.after_page_count = job.db.cnt
    BY DEF Resize
  <2>. HIDE DEF r
  <2>3. RecordFits(r) /\ ~IsPageRecord(r)
    BY <1>2, <2>2 DEF RecordFits, DbFits, IsPageRecord
  <2>4. RecordsFit' /\ TablesFit'
    BY <1>2, <2>1, <2>3, RecordsAppend, TablesAppend DEF append
  <2>5. job'.db = job.db /\ job'.before = job.before
    BY <1>1, <2>1 DEF Jobs
  <2>. QED
    BY <1>1, <1>2, <1>4, <2>1, <2>4, <2>5, CommitFits
<1>7. CASE log_flush \/ commit_append \/ commit_flush
  <2>1. UNCHANGED <<file, statusVars, mem>> /\ \E s : job' = [job EXCEPT !.step = s]
    BY <1>7 DEF log_flush, commit_append, commit_flush
  <2>2. PlainLog
    <3>1. Commit(job.txn, last_lsn(wal, job.txn)).kind \in Plain
      BY RecordFields DEF Plain
    <3>. QED
      BY <1>7, <3>1 DEF log_flush, commit_append, commit_flush, append, PlainLog
  <2>3. RecordsFit' /\ TablesFit'
    BY <1>2, <2>2, PlainLogFits
  <2>4. job'.db = job.db /\ job'.before = job.before
    BY <1>1, <2>1 DEF Jobs
  <2>. QED
    BY <1>1, <1>2, <1>4, <2>1, <2>3, <2>4, CommitFits
<1>8. CASE mark_status_committed
  <2>1. /\ next_transaction_id' = next_transaction_id /\ write_document_atomic
        /\ UNCHANGED <<walVars, file, mem, phase>>
        /\ \E s, d : job' = [job EXCEPT !.step = s, !.todo = d]
    BY <1>8 DEF mark_status_committed, finish
  <2>2. PlainLog
    BY <2>1 DEF PlainLog, walVars
  <2>3. RecordsFit' /\ TablesFit'
    BY <1>2, <2>2, PlainLogFits
  <2>4. job'.db = job.db /\ job'.before = job.before
    BY <1>1, <2>1 DEF Jobs
  <2>5. IdsFit' /\ synced' # 0
    BY <1>1, <2>1, IdsFitStay, BusyIsSynced, SyncedStays
  <2>6. DatabasesFit' /\ RecoveryFits' /\ Untouched'
    BY <1>1, <1>2, <1>4, <2>1, <2>4, <2>5 DEF Contents, DatabasesFit, RecoveryFits, Untouched
  <2>. QED
    BY <1>2, <2>1, <2>3, <2>5, <2>6 DEF Contents
<1>9. CASE apply_page
  <2>. DEFINE p == Min(job.todo)
              l == LoggedLsn(job.txn, p)
  <2>1. /\ job.step = "apply" /\ job.todo # {} /\ sync(l, Len(wal))
        /\ file' = WritePage(file, p, After(p, l)) /\ job' = [job EXCEPT !.todo = @ \ {p}]
        /\ UNCHANGED <<wal, dirty_pages, transaction_dirty_pages, statusVars, mem>>
    BY <1>9 DEF apply_page
  <2>2. p \in Pages /\ p \in job.todo
    BY <1>1, <2>1, PagesAreNumbers, MinFacts
  <2>. HIDE DEF p
  <2>3. l \in Nat
    BY <1>3, <2>1, <2>2, LoggedLsnIs
  <2>. HIDE DEF l
  <2>4. FileFits(file')
    BY <1>2, <1>3, <2>1, <2>2, <2>3, AfterFits, WriteFits
  <2>5. PlainLog
    BY <2>1 DEF PlainLog
  <2>6. RecordsFit' /\ TablesFit'
    BY <1>2, <2>5, PlainLogFits
  <2>7. job'.db = job.db /\ job'.before = job.before
    BY <1>1, <2>1 DEF Jobs
  <2>. QED
    BY <1>1, <1>2, <1>4, <2>1, <2>4, <2>6, <2>7, CommitFits
<1>10. CASE apply_resize \/ apply_sync
  <2>1. /\ file' = SetLen(file, job.db.cnt) \/ file' = SyncFile(file)
        /\ UNCHANGED <<walVars, statusVars, mem>> /\ \E s : job' = [job EXCEPT !.step = s]
    BY <1>10 DEF apply_resize, apply_sync
  <2>2. FileFits(file')
    BY <1>2, <1>3, <2>1, SetLenFits, SyncFits DEF DbFits
  <2>3. PlainLog
    BY <2>1 DEF PlainLog, walVars
  <2>4. RecordsFit' /\ TablesFit'
    BY <1>2, <2>3, PlainLogFits
  <2>5. job'.db = job.db /\ job'.before = job.before
    BY <1>1, <2>1 DEF Jobs
  <2>. QED
    BY <1>1, <1>2, <1>4, <2>1, <2>2, <2>4, <2>5, CommitFits
<1>11. CASE publish_prepared
  <2>1. mem' = job.db /\ job' = Idle /\ UNCHANGED <<walVars, file, statusVars>>
    BY <1>11 DEF publish_prepared
  <2>2. PlainLog
    BY <2>1 DEF PlainLog, walVars
  <2>3. RecordsFit' /\ TablesFit'
    BY <1>2, <2>2, PlainLogFits
  <2>. QED
    BY <1>1, <1>2, <1>4, <2>1, <2>3, CommitFits
<1>. QED
  BY <1>5, <1>6, <1>7, <1>8, <1>9, <1>10, <1>11 DEF Persist

\* A commit that fails leaves what it has done.
LEMMA ContentsFails ==
    ASSUME Core, Contents, LogMoves, persist_fails_active \/ persist_fails_committed
    PROVE  Contents'
<1>1. job.step # "idle"
  BY DEF persist_fails_active, persist_fails_committed
<1>2. job.txn \in Txns /\ phase[job.txn] \notin {"none", "gone"}
  BY <1>1, JobIs DEF Core
<1>3. job' = Idle /\ UNCHANGED <<walVars, file, statusVars, mode, mem, rec>>
  BY DEF persist_fails_active, persist_fails_committed
<1>4. PlainLog
  BY <1>3 DEF PlainLog, walVars
<1>5. RecordsFit' /\ TablesFit'
  BY <1>4, PlainLogFits DEF Contents
<1>. QED
  BY <1>2, <1>3, <1>5, CommitFits DEF Contents

(***************************************************************************)
(* Crashes and recovery.                                                   *)
(***************************************************************************)
\* A crash leaves images, and before the first flush the file as it was.
LEMMA ContentsCrash ==
    ASSUME Core, Core', Contents, power_loss \/ process_crash
    PROVE  Contents'
<1>0. \E kind : LoseMemory(kind)
  BY DEF power_loss, process_crash
<1>1. /\ mode \in {"up", "recovering"} /\ mode' = "down" /\ job' = Idle /\ rec' = Idle
      /\ phase' = [t \in Txns |-> IF phase[t] = "none" THEN "none" ELSE "gone"]
      /\ dirty_pages' = [p \in Pages |-> 0] /\ transaction_dirty_pages' = {}
      /\ next_transaction_id' = document.next /\ document' = document
  BY <1>0 DEF LoseMemory
<1>2. /\ wal \in Seq(Records) /\ synced \in Nat /\ Len(wal) \in Nat /\ synced <= Len(wal)
      /\ Len(wal') \in Nat
  BY LenProperties DEF Core, Types, LogTypes
<1>3. /\ FileFits(file') /\ (Settles(file) => Settles(file')) /\ (synced' = 0 => synced = 0)
      /\ Lsns(wal') \subseteq Lsns(wal) /\ \A i \in Lsns(wal') : wal'[i] = wal[i]
  <2>1. CASE power_loss
    <3>1. PICK n \in synced .. Len(wal) : wal' = SubSeq(wal, 1, n) /\ synced' = n
      BY <2>1 DEF power_loss
    <3>2. n \in 0 .. Len(wal)
      BY <1>2
    <3>3. Len(wal') = n /\ \A i \in 1 .. n : wal'[i] = wal[i]
      BY <1>2, <3>1, <3>2
    <3>4. Lsns(wal') \subseteq Lsns(wal) /\ \A i \in Lsns(wal') : wal'[i] = wal[i]
      BY <1>2, <3>2, <3>3 DEF Lsns
    <3>5. FileFits(file') /\ (Settles(file) => Settles(file'))
      BY <2>1, LossFits DEF power_loss, Contents
    <3>6. synced' = 0 => synced = 0
      BY <1>2, <3>1
    <3>. QED
      BY <3>4, <3>5, <3>6
  <2>2. CASE process_crash
    BY <2>2 DEF process_crash, Contents
  <2>. QED
    BY <2>1, <2>2
<1>4. RecordsFit' /\ TablesFit'
  BY <1>1, <1>2, <1>3 DEF Contents, RecordsFit, TablesFit
<1>5. Untouched'
  BY <1>1, <1>3 DEF Contents, Untouched
<1>6. DatabasesFit' /\ RecoveryFits' /\ IdsFit'
  BY <1>1 DEF Contents, DatabasesFit, RecoveryFits, IdsFit
<1>. QED
  BY <1>3, <1>4, <1>5, <1>6 DEF Contents

\* With an empty log there is nothing to redo: the file is the one it was.
LEMMA ContentsRecover ==
    ASSUME Core, Core', Contents, recover
    PROVE  Contents'
<1>1. /\ mode = "down" /\ mode' = "recovering" /\ dirty_pages' = replayed_dirty(wal)
      /\ transaction_dirty_pages' = replayed_transaction_dirty(wal)
      /\ UNCHANGED <<wal, synced, file, statusVars, phase, mem, job>>
  BY DEF recover
<1>2. /\ rec'.step = IF wal = <<>> THEN "reconcile" ELSE "redo"
      /\ rec'.cnt = file.cnt /\ rec'.target = final_page_count(wal, file.cnt)
  BY DEF recover
<1>3. /\ wal \in Seq(Records) /\ Len(wal) \in Nat /\ synced \in 0 .. Len(wal) /\ job = Idle
      /\ file.cnt \in Pages
  BY <1>1, LenProperties DEF Core, Types, LogTypes, Owners, Contents, FileFits
<1>4. TablesFit'
  BY <1>1, <1>3, ReplayedFits DEF TablesFit
<1>5. rec'.cnt \in Pages /\ rec'.target \in Pages
  BY <1>2, <1>3, FinalCountFits DEF Contents, RecordsFit
<1>6. wal = <<>> => Readable(file)
  <2>1. wal = <<>> => synced = 0
    BY <1>3
  <2>. QED
    BY <1>1, <2>1 DEF Contents, Untouched, Settles
<1>7. RecoveryFits'
  BY <1>1, <1>2, <1>5, <1>6 DEF RecoveryFits
<1>8. Untouched' /\ RecordsFit' /\ IdsFit' /\ DatabasesFit' /\ FileFits(file')
  BY <1>1, <1>3 DEF Contents, Untouched, RecordsFit, IdsFit, DatabasesFit, statusVars
<1>. QED
  BY <1>4, <1>7, <1>8 DEF Contents

\* A step of recovery that has still to check the file.
LEMMA RecoveryStands ==
    ASSUME Core, Contents, LogMoves, mode = "recovering", mode' \in {"recovering", "failed"},
           UNCHANGED <<statusVars, phase, mem, job>>, FileFits(file'), RecordsFit', TablesFit',
           rec'.cnt \in Pages /\ rec'.target \in Pages,
           mode' = "recovering" /\ rec'.step # "redo" => Readable(file'),
           mode' = "recovering" /\ synced' = 0 =>
               /\ synced = 0 => Settles(file')
               /\ \A i \in Lsns(wal') : wal'[i].kind \in Plain
    PROVE  Contents'
<1>1. job = Idle
  BY DEF Core, Owners
<1>2. synced' = 0 => synced = 0
  BY SyncedStays
<1>3. Untouched'
  BY <1>2 DEF Contents, Untouched
<1>4. IdsFit' /\ DatabasesFit' /\ RecoveryFits'
  BY <1>1 DEF Contents, IdsFit, DatabasesFit, RecoveryFits, statusVars
<1>. QED
  BY <1>3, <1>4 DEF Contents

\* redo writes what the log holds, which before the first flush is nothing.
LEMMA ContentsRedo ==
    ASSUME Core, Contents, LogMoves, redo
    PROVE  Contents'
<1>. DEFINE r == wal[rec.pos]
            next == redo_record(file, rec.cnt, r, rec.pos)
<1>1. /\ Recovering("redo") /\ rec.pos <= rec.last
      /\ file' = IF next.ok THEN next.file ELSE file
      /\ mode' = IF next.ok THEN mode ELSE "failed"
      /\ rec' = [rec EXCEPT !.pos = @ + 1, !.cnt = next.cnt]
      /\ UNCHANGED <<walVars, statusVars, phase, mem, job>>
  BY DEF redo
<1>2. /\ mode = "recovering" /\ rec.step = "redo" /\ rec \in Recoveries /\ rec # Idle
      /\ rec.pos \in Nat /\ rec.pos >= 1 /\ rec.last \in Nat /\ rec.last <= Len(wal)
      /\ Len(wal) \in Nat /\ wal \in Seq(Records) /\ file \in Files
  BY <1>1, RecoveryIs DEF RecoverySteps
<1>3. rec.pos \in Lsns(wal) /\ r \in Records
  <2>1. rec.pos \in Lsns(wal)
    BY <1>1, <1>2 DEF Lsns
  <2>. QED
    BY <1>2, <2>1, LsnsAre
<1>4. RecordFits(r) /\ FileFits(file) /\ rec.cnt \in Pages /\ rec.target \in Pages
  BY <1>2, <1>3 DEF Contents, RecordsFit, RecoveryFits
<1>5. /\ FileFits(next.file) /\ next.cnt \in Pages
      /\ r.kind \in Plain => next.file = file
  BY <1>2, <1>3, <1>4, RedoFits
<1>. HIDE DEF next
<1>6. FileFits(file') /\ mode' \in {"recovering", "failed"}
  BY <1>1, <1>2, <1>4, <1>5
<1>7. rec'.cnt = next.cnt /\ rec'.target = rec.target /\ rec'.step = rec.step
  BY <1>1, <1>2 DEF Recoveries
<1>8. PlainLog
  BY <1>1 DEF PlainLog, walVars
<1>9. RecordsFit' /\ TablesFit'
  BY <1>8, PlainLogFits DEF Contents
<1>10. mode' = "recovering" /\ synced' = 0 =>
          Settles(file') /\ \A i \in Lsns(wal') : wal'[i].kind \in Plain
  <2>1. wal' = wal /\ synced' = synced
    BY <1>1 DEF walVars
  <2>2. synced = 0 => Settles(file) /\ \A i \in Lsns(wal) : wal[i].kind \in Plain
    BY <1>2 DEF Contents, Untouched
  <2>3. synced = 0 => file' = file
    BY <1>1, <1>3, <1>5, <2>2
  <2>. QED
    BY <2>1, <2>2, <2>3
<1>. QED
  BY <1>1, <1>2, <1>4, <1>5, <1>6, <1>7, <1>9, <1>10, RecoveryStands

\* undo_losers puts back what the log holds, and makes its record durable first.
LEMMA ContentsUndo ==
    ASSUME Core, Contents, LogMoves, NEW t \in Txns, Undo(t)
    PROVE  Contents'
<1>. DEFINE r == wal[rec.undo[t]]
<1>0. NextLoser(t) /\ UNCHANGED <<statusVars, phase, mem, job>>
  BY DEF Undo, undo_begin, undo_page, undo_resize, undo_compensation
<1>1. /\ mode = "recovering" /\ rec.step = "redo" /\ rec \in Recoveries /\ rec # Idle
      /\ rec.undo[t] \in Lsns(wal) /\ r \in Records /\ Fits(r, wal, rec.undo[t])
      /\ Len(wal) \in Nat /\ wal \in Seq(Records) /\ file \in Files /\ LogTypes
  BY <1>0, UndoIs, IdleIs DEF Core, Types
<1>2. /\ RecordFits(r) /\ FileFits(file) /\ RecordsFit /\ TablesFit
      /\ rec.cnt \in Pages /\ rec.target \in Pages
  BY <1>1 DEF Contents, RecordsFit, RecoveryFits
<1>3. durable_lsn <= Len(wal) /\ durable_lsn \in Nat
  BY <1>1 DEF LogTypes
<1>4. CASE undo_begin(t)
  <2>1. /\ terminate(Abort(t, last_lsn(wal, t))) /\ UNCHANGED <<file, mode>>
        /\ rec' = [rec EXCEPT !.undo[t] = 0]
    BY <1>4 DEF undo_begin
  <2>2. PlainLog
    <3>1. Abort(t, last_lsn(wal, t)).kind \in Plain
      BY RecordFields DEF Plain
    <3>. QED
      BY <2>1, <3>1 DEF PlainLog, terminate
  <2>3. RecordsFit' /\ TablesFit'
    BY <1>2, <2>2, PlainLogFits
  <2>4. synced' # 0
    BY <1>1, <1>3, <2>1 DEF terminate, sync
  <2>5. rec'.cnt = rec.cnt /\ rec'.target = rec.target /\ rec'.step = rec.step
    BY <1>1, <2>1 DEF Recoveries
  <2>. QED
    BY <1>0, <1>1, <1>2, <2>1, <2>3, <2>4, <2>5, RecoveryStands
<1>5. CASE undo_page(t)
  <2>. DEFINE l == Len(wal) + 1
              image == IF r.before = NoPage THEN NoPage ELSE [r.before EXCEPT !.lsn = l]
              c == IF image = NoPage THEN rec.cnt ELSE Larger(rec.cnt, r.page)
              s == Compensation(t, last_lsn(wal, t), r.page, image, rec.cnt, r.prev)
  <2>1. /\ r.kind = "PageUpdate" /\ append_and_flush(s)
        /\ file' = IF image = NoPage \/ Sparse(file, r.page) THEN file
                   ELSE WritePage(file, r.page, image)
        /\ mode' = IF image # NoPage /\ Sparse(file, r.page) THEN "failed" ELSE mode
    BY <1>5 DEF undo_page
  <2>2. rec' = [rec EXCEPT !.undo[t] = r.prev, !.cnt = c]
    BY <1>5 DEF undo_page
  <2>3. r.page \in Pages /\ r.before \in PageImages
    BY <1>1, <1>2, <2>1, RecordKinds DEF PageUpdates, RecordFits
  <2>4. image \in PageImages
    <3>1. l \in Nat
      BY <1>1
    <3>. HIDE DEF l
    <3>. QED
      BY <2>3, <3>1, ImagesAre
  <2>. HIDE DEF image
  <2>5. c \in Pages
    BY <1>2, <2>3 DEF Larger
  <2>. HIDE DEF c
  <2>6. /\ s.kind = "Compensation" /\ s.txn = t /\ s.page = r.page /\ s.undo = image
        /\ s.resulting_page_count = rec.cnt
    BY DEF Compensation
  <2>. HIDE DEF s
  <2>7. RecordFits(s)
    BY <1>2, <2>3, <2>4, <2>6 DEF RecordFits
  <2>8. RecordsFit' /\ TablesFit'
    BY <1>2, <2>1, <2>3, <2>6, <2>7, RecordsAppend, TablesAppend DEF append_and_flush, append
  <2>9. FileFits(file')
    BY <1>1, <1>2, <2>1, <2>3, <2>4, WriteFits
  <2>10. synced' # 0 /\ mode' \in {"recovering", "failed"}
    BY <1>1, <1>3, <2>1 DEF append_and_flush, sync
  <2>11. rec'.cnt = c /\ rec'.target = rec.target /\ rec'.step = rec.step
    BY <1>1, <2>2 DEF Recoveries
  <2>. QED
    BY <1>0, <1>1, <1>2, <2>5, <2>8, <2>9, <2>10, <2>11, RecoveryStands
<1>6. CASE undo_resize(t)
  <2>. DEFINE n == r.before_page_count
              s == Compensation(t, last_lsn(wal, t), n, NoPage, n, r.prev)
  <2>1. /\ r.kind = "Resize" /\ append_and_flush(s) /\ file' = SetLen(file, n) /\ mode' = mode
        /\ rec' = [rec EXCEPT !.undo[t] = r.prev, !.cnt = n]
    BY <1>6 DEF undo_resize
  <2>2. n \in Pages
    BY <1>2, <2>1 DEF RecordFits
  <2>. HIDE DEF n
  <2>3. /\ s.kind = "Compensation" /\ s.txn = t /\ s.page = n /\ s.undo = NoPage
        /\ s.resulting_page_count = n
    BY DEF Compensation
  <2>. HIDE DEF s
  <2>4. RecordFits(s)
    BY <2>2, <2>3, ImagesAre DEF RecordFits
  <2>5. RecordsFit' /\ TablesFit'
    BY <1>2, <2>1, <2>2, <2>3, <2>4, RecordsAppend, TablesAppend DEF append_and_flush, append
  <2>6. FileFits(file')
    BY <1>2, <2>1, <2>2, SetLenFits
  <2>7. synced' # 0
    BY <1>1, <1>3, <2>1 DEF append_and_flush, sync
  <2>8. rec'.cnt = n /\ rec'.target = rec.target /\ rec'.step = rec.step
    BY <1>1, <2>1 DEF Recoveries
  <2>. QED
    BY <1>0, <1>1, <1>2, <2>1, <2>2, <2>5, <2>6, <2>7, <2>8, RecoveryStands
<1>7. CASE undo_compensation(t)
  <2>1. /\ UNCHANGED <<walVars, file, mode>>
        /\ rec' = [rec EXCEPT !.undo[t] = r.undo_next_lsn]
    BY <1>7 DEF undo_compensation
  <2>2. PlainLog
    BY <2>1 DEF PlainLog, walVars
  <2>3. RecordsFit' /\ TablesFit'
    BY <1>2, <2>2, PlainLogFits
  <2>4. synced' = 0 => Settles(file') /\ \A i \in Lsns(wal') : wal'[i].kind \in Plain
    BY <1>1, <2>1 DEF Contents, Untouched, walVars
  <2>5. rec'.cnt = rec.cnt /\ rec'.target = rec.target /\ rec'.step = rec.step
    BY <1>1, <2>1 DEF Recoveries
  <2>. QED
    BY <1>0, <1>1, <1>2, <2>1, <2>3, <2>4, <2>5, RecoveryStands
<1>. QED
  BY <1>4, <1>5, <1>6, <1>7 DEF Undo

\* RecoveryDataFile::finish goes on only if every page can be read.
LEMMA ContentsFinish ==
    ASSUME Core, Contents, LogMoves, recovery_finish
    PROVE  Contents'
<1>. DEFINE f == IF rec.cnt # rec.target THEN SetLen(file, rec.target) ELSE file
<1>1. /\ Recovering("redo") /\ file' = SyncFile(f) /\ mode' \in {mode, "failed"}
      /\ mode' # "failed" => Loadable(file')
      /\ rec' = [rec EXCEPT !.step = "checkpoint"]
      /\ UNCHANGED <<walVars, statusVars, phase, mem, job>>
  <2>1. mode' = IF Loadable(file') /\ file'.cnt = rec.target THEN mode ELSE "failed"
    BY DEF recovery_finish
  <2>. QED
    BY <2>1 DEF recovery_finish
<1>2. mode = "recovering" /\ rec \in Recoveries /\ rec # Idle /\ file \in Files /\ rec.target \in Nat
  BY <1>1, RecoveryIs DEF RecoverySteps
<1>3. rec.cnt \in Pages /\ rec.target \in Pages /\ FileFits(file)
  BY <1>2 DEF Contents, RecoveryFits
<1>4. f \in Files /\ FileFits(f)
  BY <1>2, <1>3, SetLenFacts, SetLenFits
<1>. HIDE DEF f
<1>5. FileFits(file') /\ (Readable(file') => Settles(file'))
  BY <1>1, <1>4, SyncFits
<1>6. mode' = "recovering" => Readable(file') /\ Settles(file')
  BY <1>1, <1>5 DEF Loadable
<1>7. PlainLog
  BY <1>1 DEF PlainLog, walVars
<1>8. RecordsFit' /\ TablesFit'
  BY <1>7, PlainLogFits DEF Contents
<1>9. rec'.cnt = rec.cnt /\ rec'.target = rec.target
  BY <1>1, <1>2 DEF Recoveries
<1>10. synced' = 0 => \A i \in Lsns(wal') : wal'[i].kind \in Plain
  BY <1>1, <1>2 DEF Contents, Untouched, walVars
<1>. QED
  BY <1>1, <1>2, <1>3, <1>5, <1>6, <1>8, <1>9, <1>10, RecoveryStands

\* The checkpoint at the end of recovery leaves the file as it was checked.
LEMMA ContentsRecoveryCheckpoint ==
    ASSUME Core, Contents, LogMoves, recovery_checkpoint_begin \/ recovery_checkpoint_end
    PROVE  Contents'
<1>1. /\ \E s \in RecoverySteps : s # "redo" /\ Recovering(s)
      /\ UNCHANGED <<file, statusVars, mode, phase, mem, job>>
      /\ \E s, n : rec' = [rec EXCEPT !.step = s] \/ rec' = [rec EXCEPT !.step = s, !.pos = n]
  BY DEF recovery_checkpoint_begin, recovery_checkpoint_end, RecoverySteps
<1>2. /\ mode = "recovering" /\ rec \in Recoveries /\ rec # Idle /\ rec.step # "redo"
      /\ Len(wal) \in Nat /\ LogTypes
  BY <1>1, RecoveryIs DEF Core, Types
<1>3. PICK r : append_and_flush(r) /\ r.kind \in Plain
  <2>1. \A d : CheckpointBegin(d).kind \in Plain
    BY RecordFields DEF Plain
  <2>2. \A l : CheckpointEnd(l).kind \in Plain
    BY RecordFields DEF Plain
  <2>. QED
    BY <2>1, <2>2 DEF recovery_checkpoint_begin, recovery_checkpoint_end
<1>4. PlainLog
  BY <1>3 DEF PlainLog, append_and_flush, append
<1>5. RecordsFit' /\ TablesFit'
  BY <1>4, PlainLogFits DEF Contents
<1>6. synced' # 0
  BY <1>2, <1>3 DEF append_and_flush, sync, LogTypes
<1>7. rec'.cnt = rec.cnt /\ rec'.target = rec.target
  BY <1>1, <1>2 DEF Recoveries
<1>8. Readable(file') /\ FileFits(file') /\ rec.cnt \in Pages /\ rec.target \in Pages
  BY <1>1, <1>2 DEF Contents, RecoveryFits
<1>. QED
  BY <1>1, <1>2, <1>5, <1>6, <1>7, <1>8, RecoveryStands

\* reconcile_with_wal publishes a database read off a file that can be read.
LEMMA ContentsReconcile ==
    ASSUME Core, Contents, LogMoves, reconcile_with_wal
    PROVE  Contents'
<1>1. /\ Recovering("reconcile") /\ mode' \in {"up", "failed"}
      /\ next_transaction_id' = Larger(next_transaction_id, HighestTxn(wal) + 1)
      /\ mem' = Load(file) /\ rec' = Idle
      /\ UNCHANGED <<walVars, file, phase, job>>
      /\ write_document_atomic \/ UNCHANGED document
  BY DEF reconcile_with_wal
<1>2. mode = "recovering" /\ rec.step = "reconcile" /\ rec # Idle /\ wal \in Seq(Records)
  BY <1>1, RecoveryIs DEF RecoverySteps
<1>3. Readable(file) /\ FileFits(file) /\ job = Idle
  BY <1>2 DEF Contents, RecoveryFits, Core, Owners
<1>4. DbFits(mem')
  BY <1>1, <1>3, LoadFits
<1>5. IdsFit'
  <2>1. HighestTxn(wal) + 1 \in 1 .. MaxTxn + 1
    BY <1>2, HighestFits, DurabilityAssumption
  <2>2. next_transaction_id' \in 1 .. MaxTxn + 1
    BY <1>1, <2>1 DEF Larger, Contents, IdsFit
  <2>3. document'.next = document.next \/ document'.next = next_transaction_id'
    BY <1>1 DEF write_document_atomic
  <2>. QED
    BY <2>2, <2>3 DEF Contents, IdsFit
<1>6. PlainLog
  BY <1>1 DEF PlainLog, walVars
<1>7. RecordsFit' /\ TablesFit'
  BY <1>6, PlainLogFits DEF Contents
<1>8. Untouched'
  BY <1>1, <1>2 DEF Contents, Untouched, walVars
<1>9. DatabasesFit' /\ RecoveryFits'
  BY <1>1, <1>3, <1>4 DEF DatabasesFit, RecoveryFits
<1>. QED
  BY <1>1, <1>3, <1>5, <1>7, <1>8, <1>9 DEF Contents

\* A fresh file can be read.
LEMMA ContentsInit ==
    ASSUME Init
    PROVE  Contents
<1>1. PICK n \in PageCounts : file = NewFile(n) /\ mem = InitDb(n)
  BY DEF Init
<1>2. n \in Pages /\ n \in Nat /\ 0 \in 0 .. MaxTxn /\ \A p \in 1 .. n : p \in Pages /\ p <= n
  BY DurabilityAssumption DEF Pages
<1>. DEFINE page == [p \in Pages |-> IF p <= n THEN [lsn |-> 0, val |-> 0] ELSE NoPage]
<1>3. /\ file.page = page /\ file.cnt = n /\ file.maybe = [p \in Pages |-> {page[p]}]
      /\ file.maybe_cnt = {n}
  BY <1>1 DEF NewFile
<1>4. \A p \in Pages : page[p] \in PageImages /\ (p <= n => page[p] # NoPage)
  BY <1>2, ImagesAre, NoPageIsOld
<1>. HIDE DEF page
<1>5. FileFits(file)
  <2>1. \A p \in Pages : file.page[p] \in PageImages /\ file.maybe[p] = {file.page[p]}
    BY <1>3, <1>4
  <2>2. file.cnt \in Pages /\ file.maybe_cnt \subseteq Pages
    BY <1>2, <1>3
  <2>. QED
    BY <2>1, <2>2 DEF FileFits
<1>6. Settles(file)
  BY <1>2, <1>3, <1>4 DEF Settles, Readable
<1>7. DbFits(mem)
  BY <1>1, <1>2 DEF InitDb, DbFits
<1>8. /\ wal = <<>> /\ synced = 0 /\ dirty_pages = [p \in Pages |-> 0]
      /\ transaction_dirty_pages = {} /\ next_transaction_id = 1
      /\ document = [status |-> status, next |-> 1, floor |-> 1]
      /\ mode = "up" /\ phase = [t \in Txns |-> "none"] /\ job = Idle /\ rec = Idle
  BY DEF Init
<1>9. Lsns(wal) = {} /\ Len(wal) = 0
  BY <1>8 DEF Lsns
<1>10. RecordsFit /\ TablesFit /\ Untouched
  BY <1>6, <1>8, <1>9 DEF RecordsFit, TablesFit, Untouched
<1>11. DatabasesFit /\ RecoveryFits
  BY <1>7, <1>8 DEF DatabasesFit, RecoveryFits
<1>12. IdsFit
  BY <1>8, DurabilityAssumption DEF IdsFit
<1>. QED
  BY <1>5, <1>10, <1>11, <1>12 DEF Contents

\* Every step keeps what pages, records and databases hold.
LEMMA ContentsStep ==
    ASSUME Core, Core', Contents, [Next]_vars
    PROVE  Contents'
<1>1. CASE power_loss \/ process_crash
  BY <1>1, ContentsCrash
<1>2. CASE recover
  BY <1>2, ContentsRecover
<1>3. CASE UNCHANGED vars
  BY <1>3 DEF vars, walVars, statusVars, Contents, RecordsFit, TablesFit, DatabasesFit,
              RecoveryFits, Untouched, IdsFit
<1>4. CASE LogMoves
  <2>1. CASE \E t \in Txns : Session(t)
    BY <1>4, <2>1, ContentsSession, ContentsPrepare DEF Session
  <2>2. CASE \/ \E h \in 1 .. MaxTxn + 1 : compact_before(h)
             \/ \E t \in Txns : begin_fails_flush(t) \/ begin_fails_status(t) \/ abort_fails(t)
             \/ checkpoint_sample \/ checkpoint_begin \/ checkpoint_end
    BY <1>4, <2>2, ContentsBeside
  <2>3. CASE Persist
    BY <1>4, <2>3, ContentsPersist
  <2>4. CASE persist_fails_active \/ persist_fails_committed
    BY <1>4, <2>4, ContentsFails
  <2>5. CASE Recovery
    <3>1. CASE \E t \in Txns : Undo(t)
      BY <1>4, <3>1, ContentsUndo
    <3>2. CASE redo
      BY <1>4, <3>2, ContentsRedo
    <3>3. CASE recovery_finish
      BY <1>4, <3>3, ContentsFinish
    <3>4. CASE recovery_checkpoint_begin \/ recovery_checkpoint_end
      BY <1>4, <3>4, ContentsRecoveryCheckpoint
    <3>5. CASE reconcile_with_wal
      BY <1>4, <3>5, ContentsReconcile
    <3>. QED
      BY <1>2, <2>5, <3>1, <3>2, <3>3, <3>4, <3>5 DEF Recovery
  <2>. QED
    BY <1>1, <1>3, <2>1, <2>2, <2>3, <2>4, <2>5 DEF Next
<1>. QED
  BY <1>1, <1>2, <1>4, LogSteps

\* The positions, page images, statuses and modes are the ones the code's types allow: whatever
\* crashed or failed before, no page of a database that is served is one that cannot be read
\* (load_state after recover), and no id beyond the next one is given out.
THEOREM DurabilityTypeCorrect == Spec => []TypeOK
<1>1. Init => Core /\ Contents
  BY CoreInit, ContentsInit
<1>2. Core /\ Contents /\ [Next]_vars => Core' /\ Contents'
  BY CoreStep, ContentsStep
<1>3. Core /\ Contents => TypeOK
  <2>. SUFFICES ASSUME Core, Contents PROVE TypeOK
    OBVIOUS
  <2>1. /\ Len(wal) \in Nat /\ synced \in 0 .. Len(wal) /\ durable_lsn \in 0 .. Len(wal)
        /\ dirty_pages \in [Pages -> Nat]
    BY LenProperties DEF Core, Types, LogTypes, Positions
  <2>2. dirty_pages \in [Pages -> 0 .. Len(wal)]
    BY <2>1 DEF Contents, TablesFit
  <2>3. file.page \in [Pages -> Image \cup {NoPage}]
    <3>1. file.page \in [Pages -> Versions]
      BY DEF Core, Types, Files
    <3>. QED
      BY <3>1 DEF Contents, FileFits, PageImages
  <2>4. /\ status \in [Txns -> {"None", "InProgress", "Committed", "Aborted"}]
        /\ mode \in {"up", "down", "recovering", "failed"} /\ acked \subseteq Txns
    BY DEF Core, Types, StatusTypes, SessionTypes, Statuses, Modes
  <2>. QED
    BY <2>1, <2>2, <2>3, <2>4 DEF TypeOK, Contents, TablesFit, FileFits, IdsFit
<1>. QED
  BY <1>1, <1>2, <1>3, PTL DEF Spec

=============================================================================
