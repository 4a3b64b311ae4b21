----------------------------- MODULE Durability -----------------------------
(***************************************************************************)
(* The durability protocol of OrdaDB: how a committing transaction drives  *)
(* the write-ahead log, the transaction status document and the data file  *)
(* (persist_candidate), how checkpoints run beside it, and how a restart   *)
(* rebuilds the database (WalManager::open, recover, reconcile_with_wal).  *)
(*                                                                         *)
(* A database is a vector of pages.  The content of a page is abstracted   *)
(* to the transaction that last changed it, 0 for the initial content; the *)
(* metadata page 1 changes in every commit, because it holds the           *)
(* generation.  An LSN is the position of its record in the log.           *)
(*                                                                         *)
(* Writes to the data file and to the log reach the disk only when they    *)
(* are synchronised: for each page the model keeps every version a power   *)
(* loss may leave behind, and for the log the prefix that is certain.      *)
(***************************************************************************)
EXTENDS Integers, Sequences, FiniteSetsExt

CONSTANTS
    MaxPages,       \* model bound on the pages of the data file
    PageCounts,     \* the page counts a database may have
    MaxTxn,         \* model bound on transaction ids (u64 in the code)
    MaxCrashes,     \* model bound on restarts
    MaxFaults,      \* model bound on failed operating system calls
    MaxCheckpoints, \* model bound on checkpoints outside recovery
    Failures        \* the failures that may happen, of the kinds below

ASSUME DurabilityAssumption ==
    /\ MaxPages \in Nat \ {0} /\ MaxTxn \in Nat /\ MaxCrashes \in Nat
    /\ MaxFaults \in Nat /\ MaxCheckpoints \in Nat
    /\ Failures \subseteq {"power", "process", "begin_flush", "begin", "active", "committed", "abort"}
    /\ PageCounts \subseteq 1 .. MaxPages

Pages == 1 .. MaxPages
Txns  == 1 .. MaxTxn

VARIABLES
    wal,          \* the log file as the process reads it
    synced,       \* length of the prefix of the log that a power loss keeps
    durable_lsn,  \* what WalState believes about synced
    dirty_pages,  \* WalState.dirty_pages: page -> recLSN, 0 when absent
    transaction_dirty_pages, \* pairs <<transaction, page>>
    file,         \* the data file
    status,       \* TransactionStatusStore.state in memory: statuses, "None" when absent
    next_transaction_id,
    retained_transaction_floor,
    document,     \* the transaction status document on the disk
    mode,         \* "up", "down", "recovering" or "failed"
    phase,        \* how far the session of each transaction has come
    mem,          \* the published DatabaseState
    job,          \* the running persist_candidate (the engine state lock is held)
    checkpoint,   \* the running WalManager::checkpoint
    rec,          \* the running recovery
    acked,        \* history: transactions whose COMMIT returned success
    cands,        \* history: the candidate each transaction logged
    budget        \* history: crashes, faults and checkpoints so far

walVars == <<wal, synced, durable_lsn, dirty_pages, transaction_dirty_pages>>
statusVars == <<status, next_transaction_id, retained_transaction_floor, document>>
vars == <<walVars, file, statusVars, mode, phase, mem, job, checkpoint, rec, acked, cands, budget>>

-----------------------------------------------------------------------------
(* Pages, databases and the data file.                                     *)

\* A page image.  NoPage stands for one that cannot be read: beyond the end
\* of the file, filled with zeros, or torn (its checksum does not match).
NoPage == [lsn |-> 0, val |-> -1]
Image  == [lsn : Nat, val : 0 .. MaxTxn]

\* A database without LSNs, as build_snapshot produces it.
Db == [cnt : Pages, val : [Pages -> -1 .. MaxTxn]]

NewFile(n) ==
    LET page == [p \in Pages |-> IF p <= n THEN [lsn |-> 0, val |-> 0] ELSE NoPage]
    IN  [page |-> page, cnt |-> n, maybe |-> [p \in Pages |-> {page[p]}], maybe_cnt |-> {n}]

\* DiskManager::write_page: writing one page past the end extends the file.
WritePage(f, p, image) ==
    LET n == IF p > f.cnt THEN p ELSE f.cnt
    IN  [page  |-> [f.page EXCEPT ![p] = image], cnt |-> n,
         maybe |-> [f.maybe EXCEPT ![p] = @ \cup {image, NoPage}],
         maybe_cnt |-> f.maybe_cnt \cup {n}]

\* truncate_pages (set_len): a shorter file forgets pages, a longer one
\* reads as zeros.
SetLen(f, n) ==
    [page  |-> [p \in Pages |-> IF p <= n THEN f.page[p] ELSE NoPage], cnt |-> n,
     maybe |-> [p \in Pages |-> IF p <= n THEN f.maybe[p] ELSE f.maybe[p] \cup {NoPage}],
     maybe_cnt |-> f.maybe_cnt \cup {n}]

\* A bug: the data file is not synchronised before the Commit record.
SyncFile_skipped(f) == f

SyncFile(f) ==
    [f EXCEPT !.maybe = [p \in Pages |-> {f.page[p]}], !.maybe_cnt = {f.cnt}]

\* The files a power loss can leave behind.
AfterPowerLoss(f) ==
    LET versions == UNION {f.maybe[p] : p \in Pages}
        Cut(g, n) == [p \in Pages |-> IF p <= n THEN g[p] ELSE NoPage]
        Left(pg, n) == [page |-> pg, cnt |-> n, maybe |-> [p \in Pages |-> {pg[p]}], maybe_cnt |-> {n}]
    IN  {Left(Cut(g, n), n) : n \in f.maybe_cnt,
                              g \in {h \in [Pages -> versions] : \A p \in Pages : h[p] \in f.maybe[p]}}

\* DatabaseStore::open: the state the file holds.
Load(f) == [cnt |-> f.cnt, val |-> [p \in Pages |-> f.page[p].val]]

\* RecoveryDataFile::finish: every page of the file can be read.
Readable(f) == \A p \in 1 .. f.cnt : f.page[p] # NoPage

\* load_state: the file is readable, and the manifest on page 1 refers to
\* every page of it and to no other.  The manifest on an image with content t
\* is the one t wrote.
Loadable(f) == Readable(f) /\ f.cnt = cands[f.page[1].val].cnt

-----------------------------------------------------------------------------
(* The log.  Record constructors, then what WalState derives from records. *)

Begin(t)      == [kind |-> "Begin", txn |-> t, prev |-> 0]
Commit(t, l)  == [kind |-> "Commit", txn |-> t, prev |-> l]
Abort(t, l)   == [kind |-> "Abort", txn |-> t, prev |-> l]
PageUpdate(t, l, p, b, a) ==
    [kind |-> "PageUpdate", txn |-> t, prev |-> l, page |-> p, before |-> b, after |-> a]
Resize(t, l, b, a) ==
    [kind |-> "Resize", txn |-> t, prev |-> l, before_page_count |-> b, after_page_count |-> a]
Compensation(t, l, p, u, n, next) ==
    [kind |-> "Compensation", txn |-> t, prev |-> l, page |-> p, undo |-> u,
     resulting_page_count |-> n, undo_next_lsn |-> next]
CheckpointBegin(dirty) == [kind |-> "CheckpointBegin", txn |-> 0, dirty_pages |-> dirty]
CheckpointEnd(l)       == [kind |-> "CheckpointEnd", txn |-> 0, begin_lsn |-> l]

Lsns(w) == 1 .. Len(w)
IsPageRecord(r) == r.kind \in {"PageUpdate", "Compensation"}
IsTerminal(r)   == r.kind \in {"Commit", "Abort"}

Has(w, t, kind) == \E i \in Lsns(w) : w[i].txn = t /\ w[i].kind = kind

\* last_by_transaction, 0 when the transaction has no record.
last_lsn(w, t) == Max({0} \cup {i \in Lsns(w) : w[i].txn = t})

\* WalState.transaction_outcomes.
wal_outcome(w, t) ==
    CASE Has(w, t, "Commit") -> "Committed"
      [] Has(w, t, "Abort") /\ ~Has(w, t, "Commit") -> "Aborted"
      [] Has(w, t, "Begin") /\ ~Has(w, t, "Commit") /\ ~Has(w, t, "Abort") -> "InProgress"
      [] OTHER -> "None"

\* A bug: the recLSN is the LSN after the record.
append_late_recLSN(r) ==
    /\ wal' = Append(wal, r)
    /\ IF IsPageRecord(r)
       THEN /\ dirty_pages' = [dirty_pages EXCEPT ![r.page] = IF @ = 0 THEN Len(wal) + 2 ELSE @]
            /\ transaction_dirty_pages' = transaction_dirty_pages \cup {<<r.txn, r.page>>}
       ELSE UNCHANGED <<dirty_pages, transaction_dirty_pages>>

\* append_locked with apply_record_state: only page records change more than
\* the log itself.
append(r) ==
    /\ wal' = Append(wal, r)
    /\ IF IsPageRecord(r)
       THEN /\ dirty_pages' = [dirty_pages EXCEPT ![r.page] = IF @ = 0 THEN Len(wal) + 1 ELSE @]
            /\ transaction_dirty_pages' = transaction_dirty_pages \cup {<<r.txn, r.page>>}
       ELSE UNCHANGED <<dirty_pages, transaction_dirty_pages>>

\* mark_transaction_clean.
cleaned(t) ==
    /\ dirty_pages' = [p \in Pages |-> IF <<t, p>> \in transaction_dirty_pages THEN 0 ELSE dirty_pages[p]]
    /\ transaction_dirty_pages' = {d \in transaction_dirty_pages : d[1] # t}

\* A bug: the last record is taken for durable.
sync_off_by_one(requested, appended) ==
    IF durable_lsn + 1 >= requested
    THEN UNCHANGED <<synced, durable_lsn>>
    ELSE synced' = appended /\ durable_lsn' = appended

\* sync_locked: skipped when the requested LSN is believed durable.
sync(requested, appended) ==
    IF durable_lsn >= requested
    THEN UNCHANGED <<synced, durable_lsn>>
    ELSE synced' = appended /\ durable_lsn' = appended

\* An append made durable before anything else of its caller happens.
append_and_flush(r) == append(r) /\ sync(Len(wal) + 1, Len(wal) + 1)

\* A bug: the terminal record is not flushed.
terminate_unflushed(r) ==
    /\ wal' = Append(wal, r)
    /\ UNCHANGED <<synced, durable_lsn>>
    /\ cleaned(r.txn)

\* A terminal record, its flush, and mark_transaction_clean.
terminate(r) ==
    /\ wal' = Append(wal, r)
    /\ sync(Len(wal) + 1, Len(wal) + 1)
    /\ cleaned(r.txn)

\* WalManager::open replays every record with clear_terminal: the entry of a
\* page is its first record after the last terminal record of a transaction
\* that had touched it.
replayed_dirty(w) ==
    LET Touched(t, p, j) == \E k \in 1 .. j : IsPageRecord(w[k]) /\ w[k].page = p /\ w[k].txn = t
        Cleared(p) == Max({0} \cup {j \in Lsns(w) : IsTerminal(w[j]) /\ Touched(w[j].txn, p, j)})
        Entries(p) == {i \in Lsns(w) : IsPageRecord(w[i]) /\ w[i].page = p /\ i > Cleared(p)}
    IN  [p \in Pages |-> IF Entries(p) = {} THEN 0 ELSE Min(Entries(p))]

replayed_transaction_dirty(w) ==
    {d \in Txns \X Pages :
        /\ wal_outcome(w, d[1]) = "InProgress"
        /\ \E i \in Lsns(w) : IsPageRecord(w[i]) /\ w[i].txn = d[1] /\ w[i].page = d[2]}

-----------------------------------------------------------------------------
(* Sessions.  phase[t]: "none", "begun" (inside begin_durable, which holds *)
(* the status lock), "active", "persist", "failed" (a session that will    *)
(* abort), "empty" and "aborting" (half way through commit_empty and       *)
(* abort_active), "done", "orphan" (dropped after its status was           *)
(* committed), "lost" (dropped, its abort or its begin having failed) and  *)
(* "gone" (lost in a crash).                                               *)

Idle == [step |-> "idle"]

StatusUnlocked == \A t \in Txns : phase[t] # "begun"

SetPhase(t, v) == phase' = [phase EXCEPT ![t] = v]

\* write_document_atomic: the document on the disk becomes the candidate.
write_document_atomic ==
    document' = [status |-> status', next |-> next_transaction_id', floor |-> retained_transaction_floor']

\* allocate_transaction gives out t, and validate_append_chain accepts its
\* Begin record: the log knows no transaction with this or a later id.
CanBegin(t) ==
    /\ mode = "up" /\ StatusUnlocked
    /\ t = next_transaction_id
    /\ \A i \in Lsns(wal) : wal[i].txn < t

\* TransactionStatusStore::begin_durable: the Begin record is durable before
\* the document names the transaction.
begin_transaction(t) ==
    /\ CanBegin(t)
    /\ append_and_flush(Begin(t))
    /\ SetPhase(t, "begun")
    /\ UNCHANGED <<file, statusVars, mode, mem, job, checkpoint, rec, acked, cands, budget>>

allocate_transaction(t) ==
    /\ phase[t] = "begun"
    /\ status' = [status EXCEPT ![t] = "InProgress"]
    /\ next_transaction_id' = t + 1
    /\ UNCHANGED retained_transaction_floor

begin_durable(t) ==
    /\ allocate_transaction(t)
    /\ write_document_atomic
    /\ SetPhase(t, "active")
    /\ UNCHANGED <<walVars, file, mode, mem, job, checkpoint, rec, acked, cands, budget>>

\* TransactionStatusStore::finish.
finish(t, outcome) ==
    /\ StatusUnlocked
    /\ status[t] = "InProgress"
    /\ status' = [status EXCEPT ![t] = outcome]
    /\ UNCHANGED <<next_transaction_id, retained_transaction_floor>>
    /\ write_document_atomic

\* DurableTransaction::abort_active, also run by Drop.
abort_wal(t) ==
    /\ phase[t] \in {"active", "failed"}
    /\ terminate(Abort(t, last_lsn(wal, t)))
    /\ SetPhase(t, "aborting")
    /\ UNCHANGED <<file, statusVars, mode, mem, job, checkpoint, rec, acked, cands, budget>>

abort_status(t) ==
    /\ phase[t] = "aborting"
    /\ finish(t, "Aborted")
    /\ SetPhase(t, "done")
    /\ UNCHANGED <<walVars, file, mode, mem, job, checkpoint, rec, acked, cands, budget>>

\* A bug: commit_empty leaves the document alone.
commit_empty_status_unwritten(t) ==
    /\ phase[t] = "active" /\ StatusUnlocked
    /\ SetPhase(t, "empty")
    /\ UNCHANGED <<walVars, statusVars, file, mode, mem, job, checkpoint, rec, acked, cands, budget>>

\* DurableTransaction::commit_empty, for a transaction without changes.
commit_empty_status(t) ==
    /\ phase[t] = "active"
    /\ finish(t, "Committed")
    /\ SetPhase(t, "empty")
    /\ UNCHANGED <<walVars, file, mode, mem, job, checkpoint, rec, acked, cands, budget>>

commit_empty_wal(t) ==
    /\ phase[t] = "empty"
    /\ terminate(Commit(t, last_lsn(wal, t)))
    /\ SetPhase(t, "done")
    /\ acked' = acked \cup {t}
    /\ UNCHANGED <<file, statusVars, mode, mem, job, checkpoint, rec, cands, budget>>

\* VACUUM, once it has committed: compact_before a horizon that no live
\* snapshot is older than.
compact_before(h) ==
    /\ mode = "up" /\ StatusUnlocked
    /\ h \in retained_transaction_floor + 1 .. next_transaction_id
    /\ \A t \in Txns : phase[t] \in {"active", "persist", "failed", "empty", "aborting"} => h <= t
    /\ status' = [t \in Txns |-> IF t < h /\ status[t] # "InProgress" THEN "None" ELSE status[t]]
    /\ retained_transaction_floor' = h
    /\ UNCHANGED <<walVars, file, next_transaction_id, mode, phase, mem, job, checkpoint, rec, acked, cands, budget>>
    /\ write_document_atomic

-----------------------------------------------------------------------------
(* persist_candidate, step by step.  One at a time: the caller holds the   *)
(* write lock of the engine state.                                         *)

\* The databases a transaction can turn d into.
Candidates(t, d) ==
    {[cnt |-> n, val |-> [p \in Pages |-> CASE p > n -> -1
                                           [] p <= n /\ (p \in W \/ p > d.cnt) -> t
                                           [] OTHER -> d.val[p]]] :
        n \in PageCounts, W \in {S \in SUBSET Pages : 1 \in S}}

\* prepare_commit: the pages whose content differs from the file.
Deltas(f, d) == {p \in Pages : f.page[p].val # d.val[p]}

prepare_commit(t) ==
    /\ phase[t] = "active" /\ job = Idle
    /\ \E d \in Candidates(t, mem) :
          /\ job' = [step |-> "log", txn |-> t, db |-> d, before |-> file.cnt, todo |-> Deltas(file, d)]
          /\ cands' = [cands EXCEPT ![t] = d]
    /\ SetPhase(t, "persist")
    /\ UNCHANGED <<walVars, file, statusVars, mode, mem, checkpoint, rec, acked, budget>>

After(p, l) == IF p <= job.db.cnt THEN [lsn |-> l, val |-> job.db.val[p]] ELSE NoPage

\* log_prepared: one PageUpdate per delta in page order, then a Resize, then
\* one flush.
log_page ==
    /\ job.step = "log" /\ job.todo # {}
    /\ LET p == Min(job.todo)
       IN  /\ append(PageUpdate(job.txn, last_lsn(wal, job.txn), p, file.page[p], After(p, Len(wal) + 1)))
           /\ job' = [job EXCEPT !.todo = @ \ {p}]
    /\ UNCHANGED <<synced, durable_lsn, file, statusVars, mode, phase, mem, checkpoint, rec, acked, cands, budget>>

log_resize ==
    /\ job.step = "log" /\ job.todo = {} /\ job.before # job.db.cnt
    /\ append(Resize(job.txn, last_lsn(wal, job.txn), job.before, job.db.cnt))
    /\ job' = [job EXCEPT !.step = "logged"]
    /\ UNCHANGED <<synced, durable_lsn, file, statusVars, mode, phase, mem, checkpoint, rec, acked, cands, budget>>

log_flush ==
    /\ \/ job.step = "logged"
       \/ job.step = "log" /\ job.todo = {} /\ job.before = job.db.cnt
    /\ sync(last_lsn(wal, job.txn), Len(wal))
    /\ job' = [job EXCEPT !.step = "status"]
    /\ UNCHANGED <<wal, dirty_pages, transaction_dirty_pages, file, statusVars, mode, phase, mem, checkpoint, rec, acked, cands, budget>>

mark_status_committed ==
    /\ job.step = "status"
    /\ finish(job.txn, "Committed")
    /\ job' = [job EXCEPT !.step = "apply", !.todo = Deltas(file, job.db) \cap 1 .. job.db.cnt]
    /\ UNCHANGED <<walVars, file, mode, phase, mem, checkpoint, rec, acked, cands, budget>>

\* The LSN that log_prepared gave to the after image of page p.
LoggedLsn(t, p) == Max({i \in Lsns(wal) : wal[i].kind = "PageUpdate" /\ wal[i].txn = t /\ wal[i].page = p})

\* apply_prepared: every page goes through BufferPool::flush_page, whose
\* barrier first flushes the log through the LSN of the page.
apply_page ==
    /\ job.step = "apply" /\ job.todo # {}
    /\ LET p == Min(job.todo)
           l == LoggedLsn(job.txn, p)
       IN  /\ sync(l, Len(wal))
           /\ file' = WritePage(file, p, After(p, l))
           /\ job' = [job EXCEPT !.todo = @ \ {p}]
    /\ UNCHANGED <<wal, dirty_pages, transaction_dirty_pages, statusVars, mode, phase, mem, checkpoint, rec, acked, cands, budget>>

apply_resize ==
    /\ job.step = "apply" /\ job.todo = {} /\ job.before # job.db.cnt
    /\ file' = SetLen(file, job.db.cnt)
    /\ job' = [job EXCEPT !.step = "resized"]
    /\ UNCHANGED <<walVars, statusVars, mode, phase, mem, checkpoint, rec, acked, cands, budget>>

apply_sync ==
    /\ \/ job.step = "resized"
       \/ job.step = "apply" /\ job.todo = {} /\ job.before = job.db.cnt
    /\ file' = SyncFile(file)
    /\ job' = [job EXCEPT !.step = "commit"]
    /\ UNCHANGED <<walVars, statusVars, mode, phase, mem, checkpoint, rec, acked, cands, budget>>

\* commit_transaction_at.
commit_append ==
    /\ job.step = "commit"
    /\ append(Commit(job.txn, last_lsn(wal, job.txn)))
    /\ job' = [job EXCEPT !.step = "commit_flush"]
    /\ UNCHANGED <<synced, durable_lsn, file, statusVars, mode, phase, mem, checkpoint, rec, acked, cands, budget>>

commit_flush ==
    /\ job.step = "commit_flush"
    /\ sync(last_lsn(wal, job.txn), Len(wal))
    /\ cleaned(job.txn)
    /\ job' = [job EXCEPT !.step = "publish"]
    /\ UNCHANGED <<wal, file, statusVars, mode, phase, mem, checkpoint, rec, acked, cands, budget>>

\* publish_prepared, finish_commit, and the new DatabaseState.
publish_prepared ==
    /\ job.step = "publish"
    /\ mem' = job.db
    /\ SetPhase(job.txn, "done")
    /\ acked' = acked \cup {job.txn}
    /\ job' = Idle
    /\ UNCHANGED <<walVars, file, statusVars, mode, checkpoint, rec, cands, budget>>

-----------------------------------------------------------------------------
(* Failed operating system calls.  The session gets an error and drops its *)
(* DurableTransaction, if it has one; the engine stays up.                 *)

Fault(kind) ==
    /\ kind \in Failures /\ budget.faults < MaxFaults
    /\ budget' = [budget EXCEPT !.faults = @ + 1]

\* An append, the flush or the status write fails while the transaction is
\* still Active: Drop will abort it.
persist_fails_active ==
    /\ job.step \in {"log", "logged", "status"}
    /\ Fault("active")
    /\ SetPhase(job.txn, "failed")
    /\ job' = Idle
    /\ UNCHANGED <<walVars, file, statusVars, mode, mem, checkpoint, rec, acked, cands>>

\* A page write, the resize, the sync or the Commit record fails after the
\* status was committed: Drop only forgets the transaction.
persist_fails_committed ==
    /\ job.step \in {"apply", "resized", "commit", "commit_flush"}
    /\ Fault("committed")
    /\ SetPhase(job.txn, "orphan")
    /\ job' = Idle
    /\ UNCHANGED <<walVars, file, statusVars, mode, mem, checkpoint, rec, acked, cands>>

\* begin_transaction: the Begin record is written and cannot be flushed.
\* begin_durable returns before it stores the candidate, so the id stays next.
begin_fails_flush(t) ==
    /\ CanBegin(t)
    /\ Fault("begin_flush")
    /\ append(Begin(t))
    /\ UNCHANGED <<synced, durable_lsn, file, statusVars, mode, phase, mem, job, checkpoint, rec, acked, cands>>

\* A bug: begin_durable returns before it stores the candidate.
begin_fails_status_forgotten(t) ==
    /\ phase[t] = "begun" /\ Fault("begin")
    /\ SetPhase(t, "lost")
    /\ UNCHANGED <<walVars, statusVars, file, mode, mem, job, checkpoint, rec, acked, cands>>

\* begin_durable: the document cannot be replaced; the candidate is kept in
\* memory all the same, so that the id is not given out again.
begin_fails_status(t) ==
    /\ allocate_transaction(t)
    /\ Fault("begin")
    /\ SetPhase(t, "lost")
    /\ UNCHANGED <<walVars, document, file, mode, mem, job, checkpoint, rec, acked, cands>>

\* Drop discards the error of abort_active: the Abort record cannot be
\* written, or not be flushed, or the document cannot be replaced.
abort_fails(t) ==
    /\ phase[t] \in {"active", "failed", "aborting"}
    /\ Fault("abort")
    /\ \/ UNCHANGED wal
       \/ phase[t] # "aborting" /\ wal' = Append(wal, Abort(t, last_lsn(wal, t)))
    /\ SetPhase(t, "lost")
    /\ UNCHANGED <<synced, durable_lsn, dirty_pages, transaction_dirty_pages, statusVars, file, mode, mem, job,
                   checkpoint, rec, acked, cands>>

-----------------------------------------------------------------------------
(* checkpoint_shared: another session's checkpoint, beside the commit.     *)

Earlier(a, b) == IF a = 0 THEN b ELSE IF b = 0 \/ a < b THEN a ELSE b

checkpoint_sample ==
    /\ mode = "up" /\ checkpoint = Idle /\ budget.checkpoints < MaxCheckpoints
    /\ checkpoint' = [step |-> "sampled", dirty |-> dirty_pages]
    /\ budget' = [budget EXCEPT !.checkpoints = @ + 1]
    /\ UNCHANGED <<walVars, file, statusVars, mode, phase, mem, job, rec, acked, cands>>

\* The dirty pages are read again under the lock that appends the record.
checkpoint_begin ==
    /\ checkpoint.step = "sampled"
    /\ append_and_flush(CheckpointBegin([p \in Pages |-> Earlier(dirty_pages[p], checkpoint.dirty[p])]))
    /\ checkpoint' = [step |-> "begun", lsn |-> Len(wal) + 1]
    /\ UNCHANGED <<file, statusVars, mode, phase, mem, job, rec, acked, cands, budget>>

checkpoint_end ==
    /\ checkpoint.step = "begun"
    /\ append_and_flush(CheckpointEnd(checkpoint.lsn))
    /\ checkpoint' = Idle
    /\ UNCHANGED <<file, statusVars, mode, phase, mem, job, rec, acked, cands, budget>>

-----------------------------------------------------------------------------
(* Crashes: whatever the process held in memory is gone.                   *)

InitDb(n) == [cnt |-> n, val |-> [p \in Pages |-> IF p <= n THEN 0 ELSE -1]]

LoseMemory(kind) ==
    /\ kind \in Failures /\ mode \in {"up", "recovering"} /\ budget.crashes < MaxCrashes
    /\ budget' = [budget EXCEPT !.crashes = @ + 1]
    /\ mode' = "down"
    /\ phase' = [t \in Txns |-> IF phase[t] = "none" THEN "none" ELSE "gone"]
    /\ durable_lsn' = 0
    /\ dirty_pages' = [p \in Pages |-> 0]
    /\ transaction_dirty_pages' = {}
    /\ mem' = InitDb(1)
    /\ job' = Idle /\ checkpoint' = Idle /\ rec' = Idle
    /\ status' = document.status
    /\ next_transaction_id' = document.next /\ retained_transaction_floor' = document.floor
    /\ UNCHANGED <<document, acked, cands>>

\* The machine stops: unsynchronised writes may be lost, kept or torn.  A
\* record that is cut short at the end of the log is truncated by scan_file.
power_loss ==
    /\ LoseMemory("power")
    /\ \E n \in synced .. Len(wal) : wal' = SubSeq(wal, 1, n) /\ synced' = n
    /\ file' \in AfterPowerLoss(file)

\* The process dies: the operating system still has every write.
process_crash ==
    /\ LoseMemory("process")
    /\ UNCHANGED <<wal, synced, file>>

-----------------------------------------------------------------------------
(* Recovery.                                                               *)

\* find_last_complete_checkpoint: the LSN of its Begin record, or 0.
find_last_complete_checkpoint(w) ==
    LET ends == {i \in Lsns(w) : w[i].kind = "CheckpointEnd"}
    IN  IF ends = {} THEN 0 ELSE w[Max(ends)].begin_lsn

\* analyze: the dirty page table at the crash.
analyzed_dirty(w) ==
    LET c == find_last_complete_checkpoint(w)
        Later(p) == {i \in c + 1 .. Len(w) : IsPageRecord(w[i]) /\ w[i].page = p}
        AtCheckpoint(p) == IF c = 0 THEN 0 ELSE w[c].dirty_pages[p]
    IN  [p \in Pages |-> IF AtCheckpoint(p) # 0 THEN AtCheckpoint(p)
                         ELSE IF Later(p) # {} THEN Min(Later(p)) ELSE 0]

\* redo_start_lsn, past the end when no page is dirty.
redo_start(w) ==
    LET starts == {analyzed_dirty(w)[p] : p \in Pages} \ {0}
    IN  IF starts = {} THEN Len(w) + 1 ELSE Min(starts)

\* A bug: the analysis looks at the last record of a transaction only.
losers_just_begun(w) == {t \in Txns : last_lsn(w, t) # 0 /\ w[last_lsn(w, t)].kind = "Begin"}

losers(w) == {t \in Txns : wal_outcome(w, t) = "InProgress"}

\* The last Resize record decides, by the outcome of its transaction.
final_page_count(w, n) ==
    LET resizes == {i \in Lsns(w) : w[i].kind = "Resize"}
        r == w[Max(resizes)]
    IN  IF resizes = {} THEN n
        ELSE IF Has(w, r.txn, "Commit") THEN r.after_page_count ELSE r.before_page_count

\* WalManager::open, then recover up to the end of the analysis.  An empty
\* log needs no recovery.
recover ==
    /\ mode = "down"
    /\ mode' = "recovering"
    /\ durable_lsn' = Len(wal)
    /\ dirty_pages' = replayed_dirty(wal)
    /\ transaction_dirty_pages' = replayed_transaction_dirty(wal)
    /\ rec' = [step   |-> IF wal = <<>> THEN "reconcile" ELSE "redo",
               pos    |-> redo_start(wal),
               last   |-> Len(wal),
               cnt    |-> file.cnt,
               target |-> final_page_count(wal, file.cnt),
               undo   |-> [t \in Txns |-> IF t \in losers(wal) THEN last_lsn(wal, t) ELSE 0]]
    /\ UNCHANGED <<wal, synced, file, statusVars, phase, mem, job, checkpoint, acked, cands, budget>>

page_needs_redo(f, p, l) == f.page[p].lsn < l

\* RecoveryDataFile::apply_page refuses to leave a hole.
Sparse(f, p) == p > f.cnt + 1

Larger(a, b) == IF a < b THEN b ELSE a

\* apply_compensation: grow, write, shrink.
apply_compensation(f, c, r, l) ==
    LET n  == r.resulting_page_count
        f1 == IF n > c THEN SetLen(f, n) ELSE f
        write == r.undo # NoPage /\ page_needs_redo(f1, r.page, l)
        f2 == IF write THEN WritePage(f1, r.page, r.undo) ELSE f1
        c2 == IF write THEN Larger(Larger(c, n), r.page) ELSE Larger(c, n)
    IN  [file |-> IF n < c2 THEN SetLen(f2, n) ELSE f2, cnt |-> n, ok |-> ~(write /\ Sparse(f1, r.page))]

\* redo_record: the file and the page count after the record at l.
redo_record(f, c, r, l) ==
    CASE r.kind = "PageUpdate" /\ r.after # NoPage /\ page_needs_redo(f, r.page, l) ->
            [file |-> WritePage(f, r.page, r.after), cnt |-> Larger(c, r.page), ok |-> ~Sparse(f, r.page)]
      [] r.kind = "Resize" ->
            [file |-> SetLen(f, r.after_page_count), cnt |-> r.after_page_count, ok |-> TRUE]
      [] r.kind = "Compensation" -> apply_compensation(f, c, r, l)
      [] OTHER -> [file |-> f, cnt |-> c, ok |-> TRUE]

Recovering(step) == mode = "recovering" /\ rec.step = step

redo ==
    /\ Recovering("redo") /\ rec.pos <= rec.last
    /\ LET next == redo_record(file, rec.cnt, wal[rec.pos], rec.pos)
       IN  /\ file' = IF next.ok THEN next.file ELSE file
           /\ mode' = IF next.ok THEN mode ELSE "failed"
           /\ rec' = [rec EXCEPT !.pos = @ + 1, !.cnt = next.cnt]
    /\ UNCHANGED <<walVars, statusVars, phase, mem, job, checkpoint, acked, cands, budget>>

\* undo_losers: the loser with the highest LSN left to undo is next.
NextLoser(t) ==
    /\ Recovering("redo") /\ rec.pos > rec.last
    /\ rec.undo[t] # 0 /\ \A u \in Txns : rec.undo[u] <= rec.undo[t]

undo_begin(t) ==
    /\ NextLoser(t) /\ wal[rec.undo[t]].kind = "Begin"
    /\ terminate(Abort(t, last_lsn(wal, t)))
    /\ rec' = [rec EXCEPT !.undo[t] = 0]
    /\ UNCHANGED <<file, statusVars, mode, phase, mem, job, checkpoint, acked, cands, budget>>

\* append_compensation stamps the before image with the LSN of its record.
undo_page(t) ==
    LET r == wal[rec.undo[t]]
        l == Len(wal) + 1
        image == IF r.before = NoPage THEN NoPage ELSE [r.before EXCEPT !.lsn = l]
    IN  /\ NextLoser(t) /\ r.kind = "PageUpdate"
        /\ append_and_flush(Compensation(t, last_lsn(wal, t), r.page, image, rec.cnt, r.prev))
        /\ file' = IF image = NoPage \/ Sparse(file, r.page) THEN file ELSE WritePage(file, r.page, image)
        /\ mode' = IF image # NoPage /\ Sparse(file, r.page) THEN "failed" ELSE mode
        /\ rec' = [rec EXCEPT !.undo[t] = r.prev,
                              !.cnt = IF image = NoPage THEN @ ELSE Larger(@, r.page)]
        /\ UNCHANGED <<statusVars, phase, mem, job, checkpoint, acked, cands, budget>>

undo_resize(t) ==
    LET r == wal[rec.undo[t]]
        n == r.before_page_count
    IN  /\ NextLoser(t) /\ r.kind = "Resize"
        /\ append_and_flush(Compensation(t, last_lsn(wal, t), n, NoPage, n, r.prev))
        /\ file' = SetLen(file, n)
        /\ rec' = [rec EXCEPT !.undo[t] = r.prev, !.cnt = n]
        /\ UNCHANGED <<statusVars, mode, phase, mem, job, checkpoint, acked, cands, budget>>

\* A bug: undo does not follow undo_next_lsn.
undo_compensation_stuck(t) ==
    /\ NextLoser(t) /\ wal[rec.undo[t]].kind = "Compensation"
    /\ UNCHANGED vars

\* A Compensation of an earlier recovery: continue where it left off.
undo_compensation(t) ==
    /\ NextLoser(t) /\ wal[rec.undo[t]].kind = "Compensation"
    /\ rec' = [rec EXCEPT !.undo[t] = wal[rec.undo[t]].undo_next_lsn]
    /\ UNCHANGED <<walVars, file, statusVars, mode, phase, mem, job, checkpoint, acked, cands, budget>>

\* Resize to the final page count, synchronise, validate every page, and open
\* the store read-only.
recovery_finish ==
    /\ Recovering("redo") /\ rec.pos > rec.last /\ \A t \in Txns : rec.undo[t] = 0
    /\ file' = SyncFile(IF rec.cnt # rec.target THEN SetLen(file, rec.target) ELSE file)
    /\ mode' = IF Loadable(file') /\ file'.cnt = rec.target THEN mode ELSE "failed"
    /\ rec' = [rec EXCEPT !.step = "checkpoint"]
    /\ UNCHANGED <<walVars, statusVars, phase, mem, job, checkpoint, acked, cands, budget>>

recovery_checkpoint_begin ==
    /\ Recovering("checkpoint")
    /\ append_and_flush(CheckpointBegin(dirty_pages))
    /\ rec' = [rec EXCEPT !.step = "checkpoint_end", !.pos = Len(wal) + 1]
    /\ UNCHANGED <<file, statusVars, mode, phase, mem, job, checkpoint, acked, cands, budget>>

recovery_checkpoint_end ==
    /\ Recovering("checkpoint_end")
    /\ append_and_flush(CheckpointEnd(rec.pos))
    /\ rec' = [rec EXCEPT !.step = "reconcile"]
    /\ UNCHANGED <<file, statusVars, mode, phase, mem, job, checkpoint, acked, cands, budget>>

HighestTxn(w) == Max({0} \cup {w[i].txn : i \in Lsns(w)})

Retained(t) == t >= retained_transaction_floor

Contradicts(t) == Retained(t) /\ wal_outcome(wal, t) = "Committed" /\ status[t] # "Committed"

reconciled(t) ==
    CASE ~Retained(t) -> status[t]
      [] Retained(t) /\ status[t] = "None" /\ wal_outcome(wal, t) = "None" -> "None"
      [] Retained(t) /\ status[t] = "Committed" /\ wal_outcome(wal, t) = "Committed" -> "Committed"
      [] OTHER -> "Aborted"

reconcile_with_wal ==
    /\ Recovering("reconcile")
    /\ mode' = IF \E t \in Txns : Contradicts(t) THEN "failed" ELSE "up"
    /\ next_transaction_id' = Larger(next_transaction_id, HighestTxn(wal) + 1)
    /\ status' = [t \in Txns |-> reconciled(t)]
    /\ mem' = Load(file)
    /\ rec' = Idle
    /\ UNCHANGED <<walVars, file, retained_transaction_floor, phase, job, checkpoint, acked, cands, budget>>
    /\ IF mode' = "up" THEN write_document_atomic ELSE UNCHANGED document

-----------------------------------------------------------------------------

Init ==
    /\ \E n \in PageCounts : file = NewFile(n) /\ mem = InitDb(n)
                       /\ cands = [t \in 0 .. MaxTxn |-> InitDb(n)]
    /\ wal = <<>> /\ synced = 0 /\ durable_lsn = 0
    /\ dirty_pages = [p \in Pages |-> 0] /\ transaction_dirty_pages = {}
    /\ status = [t \in Txns |-> "None"] /\ next_transaction_id = 1 /\ retained_transaction_floor = 1
    /\ document = [status |-> status, next |-> 1, floor |-> 1]
    /\ mode = "up" /\ phase = [t \in Txns |-> "none"]
    /\ job = Idle /\ checkpoint = Idle /\ rec = Idle
    /\ acked = {} /\ budget = [crashes |-> 0, faults |-> 0, checkpoints |-> 0]

Persist ==
    \/ log_page \/ log_resize \/ log_flush \/ mark_status_committed
    \/ apply_page \/ apply_resize \/ apply_sync
    \/ commit_append \/ commit_flush \/ publish_prepared

Session(t) ==
    \/ begin_transaction(t) \/ begin_durable(t) \/ prepare_commit(t)
    \/ commit_empty_status(t) \/ commit_empty_wal(t) \/ abort_wal(t) \/ abort_status(t)

Undo(t) == undo_begin(t) \/ undo_page(t) \/ undo_resize(t) \/ undo_compensation(t)

Recovery ==
    \/ recover \/ redo \/ (\E t \in Txns : Undo(t)) \/ recovery_finish
    \/ recovery_checkpoint_begin \/ recovery_checkpoint_end \/ reconcile_with_wal

Next ==
    \/ \E t \in Txns : Session(t)
    \/ \E h \in 1 .. MaxTxn + 1 : compact_before(h)
    \/ Persist \/ persist_fails_active \/ persist_fails_committed
    \/ \E t \in Txns : begin_fails_flush(t) \/ begin_fails_status(t) \/ abort_fails(t)
    \/ checkpoint_sample \/ checkpoint_begin \/ checkpoint_end
    \/ power_loss \/ process_crash
    \/ Recovery

Spec == Init /\ [][Next]_vars

\* Engine::open runs recovery to its end; nothing else is assumed.
FairSpec == Spec /\ WF_vars(Recovery)

-----------------------------------------------------------------------------
(* Properties.                                                             *)

\* The log positions, page images, statuses and modes are the ones the code's
\* types allow; dirty page entries and durable_lsn never point past the log.
TypeOK ==
    /\ synced \in Nat /\ synced <= Len(wal)
    /\ durable_lsn \in 0 .. Len(wal)
    /\ dirty_pages \in [Pages -> 0 .. Len(wal)]
    /\ transaction_dirty_pages \subseteq Txns \X Pages
    /\ file.cnt \in Pages
    /\ file.page \in [Pages -> Image \cup {NoPage}]
    /\ status \in [Txns -> {"None", "InProgress", "Committed", "Aborted"}]
    /\ next_transaction_id \in 1 .. MaxTxn + 1
    /\ mode \in {"up", "down", "recovering", "failed"}
    /\ acked \subseteq Txns

\* The database of the last transaction with changes whose Commit record is
\* in the log.
LastCommitted ==
    LET winners == {i \in Lsns(wal) : wal[i].kind = "Commit" /\ Has(wal, wal[i].txn, "PageUpdate")}
    IN  IF winners = {} THEN cands[0] ELSE cands[wal[Max(winners)].txn]

\* Whenever no commit is running and no operating system call has failed, the
\* data file and the published state are exactly the database of the last
\* committed transaction: nothing of a loser is left and nothing of a winner is
\* missing, whatever crashed before and whichever checkpoints ran.
StoreIsLastCommitted ==
    mode = "up" /\ job = Idle /\ budget.faults = 0 => Load(file) = LastCommitted /\ mem = LastCommitted

\* A restart publishes exactly the database of the last committed transaction:
\* this is what it has before the first session begins.
RecoveredIsLastCommitted ==
    mode = "up" /\ (\A t \in Txns : phase[t] \in {"none", "gone"}) => mem = LastCommitted

\* A transaction whose COMMIT succeeded has its Commit record in the part of
\* the log that no power loss takes away.
AckedIsDurable == \A t \in acked : \E i \in 1 .. synced : wal[i].kind = "Commit" /\ wal[i].txn = t

\* The status document says Committed before the log does, so a restart never
\* finds a Commit record without a committed status.
StatusBeforeCommit ==
    \A t \in Txns : Has(wal, t, "Commit") /\ Retained(t) => status[t] = "Committed"

\* After a restart a transaction that no session is driving is Committed in
\* the document exactly when it is Committed in the log.
StatusMatchesWal ==
    mode = "up" => \A t \in Txns : phase[t] \in {"none", "done", "lost", "gone"} /\ Retained(t) =>
        (status[t] = "Committed" <=> Has(wal, t, "Commit"))

\* While the engine is up the next id is one the log has not seen, also after
\* a begin_durable that failed: otherwise validate_append_chain refuses every
\* later BEGIN.
NextIdIsFresh == mode = "up" /\ StatusUnlocked => next_transaction_id > HighestTxn(wal)

\* What the two durable records of a transaction say of each other: the document is
\* first, after a restart they agree, and neither is about the next transaction.
StatusAndLogAgree == StatusBeforeCommit /\ StatusMatchesWal /\ NextIdIsFresh

\* No version of a page that may be on the disk is newer than the part of the
\* log that is certainly on the disk.  After a crash of the process alone this
\* can be false: WalManager::open takes the log it reads for synchronised.
WalBeforeData == \A p \in Pages : \A v \in file.maybe[p] : v.lsn <= synced

\* Recovery and reconciliation never stop with a corruption error.
RecoverySucceeds == mode # "failed"

\* A restart always completes.
RestartCompletes == mode \in {"down", "recovering"} ~> mode = "up"
=============================================================================
