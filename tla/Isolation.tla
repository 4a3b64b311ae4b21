------------------------------ MODULE Isolation ------------------------------
(***************************************************************************)
(* Transactions of the engine's SQL sessions: begin, statements,           *)
(* savepoints and commit, at the isolation levels the engine offers.       *)
(*                                                                         *)
(*  - the transaction manager (ordadb-transaction/src/mvcc_parts): ids,    *)
(*    snapshots, tuple visibility, safe snapshots;                         *)
(*  - the SSI manager (ordadb-transaction/src/ssi.rs): table predicates    *)
(*    read and written, rw-dependencies, commit validation, cleanup;       *)
(*  - the session (ordadb-engine/src/engine_parts/session_*.rs,            *)
(*    storage_read_stream.rs): base and working state, merge at commit,    *)
(*    row locks, savepoints, the write lock on the published state.        *)
(*                                                                         *)
(* What a row holds is abstracted to who wrote it: versions[r] is the      *)
(* sequence of the creators (xmin) of the row's tuple versions, and the    *)
(* deleter (xmax) of a version is the creator of the next one.  A write    *)
(* stands for an INSERT, UPDATE or DELETE of the row.  The WAL and the     *)
(* data file behind a commit are the subject of module Durability.         *)
(***************************************************************************)
EXTENDS Naturals, Sequences, FiniteSets, FiniteSetsExt

CONSTANTS
    N,       \* transactions the history has: their ids are 1..N
    Rows,    \* rows of the database
    Kinds,   \* kinds of DML: "keyed" (WHERE key = k) or "scan"
    Setups   \* records, one of which each behaviour has:
             \*   table_of              [Rows -> tables]
             \*   levels                [1..N -> SUBSET Levels]: what a BEGIN may ask for
             \*   statements            bound: statements per transaction
             \*   savepoints            whether sessions use SAVEPOINT / ROLLBACK TO
             \*   overlap               what a BEGIN may overlap: "begin" (other
             \*                         snapshots), "commit"
             \*   maximum_transactions  SsiManagerOptions

Levels == {"ReadCommitted", "RepeatableRead", "Serializable", "Deferrable"}
Frozen == 0                       \* FROZEN_TRANSACTION_ID: a creator all see
Txns == 1..N
Tables == UNION {{s.table_of[r] : r \in Rows} : s \in Setups}

ASSUME NAssumption == N \in Nat \ {0}
ASSUME RowAssumption == Rows # {}
ASSUME KindAssumption == Kinds \subseteq {"keyed", "scan"}
ASSUME SetupAssumption ==
    \A s \in Setups :
        /\ s.table_of \in [Rows -> Tables]
        /\ s.levels \in [Txns -> SUBSET Levels]
        /\ s.statements \in Nat /\ s.maximum_transactions \in Nat \ {0}
        /\ s.savepoints \in BOOLEAN /\ s.overlap \subseteq {"begin", "commit"}

VARIABLES
    setup,                \* the member of Setups a behaviour has
    allocated,            \* last id given out by TransactionStatusStore::begin_durable
    next_transaction_id,  \* TransactionManager.next_transaction_id
    session,              \* per transaction: its ActiveSqlTransaction
    versions,             \* the published DatabaseState: tuple versions per row
    ssi,                  \* SsiState.transactions
    seen                  \* history: <<row, creator>> pairs a transaction has read

vars == <<setup, allocated, next_transaction_id, session, versions, ssi, seen>>

(***************************************************************************)
(* Session phases, in the order a transaction goes through them.           *)
(*   "allocated"  begin_durable returned the id                            *)
(*   "raised"     register has raised the manager's high-water mark        *)
(*   "idle"       between statements                                       *)
(*   "statement"  begin_statement returned, the state is not read yet      *)
(*   "waiting"    a DML statement in acquire_dml_locks                     *)
(*   "failed"     a statement failed, ROLLBACK [TO] is expected            *)
(*   "validated"  the SSI check of COMMIT passed                           *)
(*   "marked"     holds the state's write lock, status is Committed        *)
(*   "completed"  finish_commit removed it from the manager's active map   *)
(***************************************************************************)
Unbegun == {"none", "allocated", "raised"}
Ended == {"committed", "aborted"}
Active == {"idle", "statement", "waiting", "failed", "validated", "marked"}
Phases == Unbegun \cup Active \cup {"completed"} \cup Ended

Snapshots == [xmin : 1..N+1, xmax : 1..N+1, in_progress : SUBSET Txns]

NoSnapshot == [xmin |-> 1, xmax |-> 1, in_progress |-> {}]
Initially == [r \in Rows |-> <<Frozen>>]
NoSavepoint == [taken |-> FALSE, base |-> Initially, working |-> {}, locks |-> {},
                predicates |-> [reads |-> {}, writes |-> {}]]

NoSsi == [live |-> FALSE, committed |-> FALSE, reads |-> {}, writes |-> {},
          incoming |-> {}, outgoing |-> {}]

Phase(t) == session[t].phase
ActiveSet == {t \in Txns : Phase(t) \in Active}
UsesSsi(t) == session[t].level \in {"Serializable", "Deferrable"}

(* TransactionStatusStore: mark_status_committed comes before publication. *)
Committed(t) == t = Frozen \/ Phase(t) \in {"marked", "completed", "committed"}

(* The RwLock of the published state is held for writing from the merge of *)
(* a COMMIT to the assignment `*state = candidate`.                        *)
StateLocked == \E t \in Txns : Phase(t) \in {"marked", "completed"}

-----------------------------------------------------------------------------
(***************************************************************************)
(* Snapshots and visibility.                                               *)
(***************************************************************************)
(* Mutant: the set of running transactions is not copied into a snapshot.  *)
snapshot_locked_empty(t) ==
    [xmin |-> t, xmax |-> next_transaction_id, in_progress |-> {}]

snapshot_locked(t) ==
    LET in_progress == ActiveSet \ {t} IN
    [xmin |-> IF in_progress = {} THEN t ELSE Min(in_progress),
     xmax |-> next_transaction_id,
     in_progress |-> in_progress]

sees_transaction(snapshot, t) == t < snapshot.xmax /\ t \notin snapshot.in_progress

(* Whether t's snapshot shows what u did, once u's status is Committed.    *)
Sees(t, u) == u = Frozen \/ sees_transaction(session[t].snapshot, u)

(* Mutant: the deletion is not looked at.                                  *)
tuple_visible_undeleted(t, chain) ==
    {chain[i] : i \in {j \in DOMAIN chain : Committed(chain[j]) /\ Sees(t, chain[j])}}

(* Versions of a chain that tuple_visible shows to t: the creator is seen  *)
(* and committed, and the deleter (the next creator) is not.               *)
tuple_visible(t, chain) ==
    LET Shown(i) == Committed(chain[i]) /\ Sees(t, chain[i])
    IN {chain[i] : i \in {j \in DOMAIN chain : Shown(j)
                             /\ (j < Len(chain) => ~Shown(j + 1))}}

(* Mutant: the state is read without waiting for the writer.               *)
committed_snapshot_dirty == TRUE

(* committed_snapshot reads the state under its read lock.                 *)
committed_snapshot == ~StateLocked

global_xmin_excluding(t) ==
    LET others == ActiveSet \ {t} IN
    IF others = {} THEN next_transaction_id
    ELSE Min({session[u].snapshot.xmin : u \in others})

unsafe_writer_active(t) ==
    \E u \in ActiveSet \ {t} : session[u].level = "Serializable"

(* Restriction of the histories.  Between its id and its registration a    *)
(* BEGIN may run beside other BEGINs and snapshots only with "begin" in    *)
(* overlap, and beside a COMMIT only with "commit" in it.                  *)
Beginning(u) == Phase(u) \in {"allocated", "raised"}
Committing(u) == Phase(u) \in {"validated", "marked", "completed"}

MaySnapshot(t) == "begin" \in setup.overlap \/ ~\E u \in Txns \ {t} : Beginning(u)
MayBegin(t) == MaySnapshot(t) /\ ("commit" \in setup.overlap \/ ~\E u \in Txns : Committing(u))
MayCommit == "commit" \in setup.overlap \/ ~\E u \in Txns : Beginning(u)

-----------------------------------------------------------------------------
(***************************************************************************)
(* The SSI manager, as functions on SsiState s.                            *)
(***************************************************************************)
(* Mutant: only the reader's side of the edge is stored.                   *)
add_dependencies_half(s, pairs) ==
    [u \in Txns |-> [s[u] EXCEPT
        !.outgoing = @ \cup {p[2] : p \in {q \in pairs : q[1] = u}}]]

add_dependencies(s, pairs) ==
    [u \in Txns |-> [s[u] EXCEPT
        !.outgoing = @ \cup {p[2] : p \in {q \in pairs : q[1] = u}},
        !.incoming = @ \cup {p[1] : p \in {q \in pairs : q[2] = u}}]]

Others(s, t) == {u \in Txns \ {t} : s[u].live}

(* SsiManager::begin refuses a transaction when its table is full.         *)
ssi_full(s) == Cardinality({u \in Txns : s[u].live}) >= setup.maximum_transactions
ssi_begin(s, t) == [s EXCEPT ![t] = [NoSsi EXCEPT !.live = TRUE]]

record_read(s, t, table) ==
    LET writers == {u \in Others(s, t) : /\ ~s[u].committed \/ ~Sees(t, u)
                                         /\ table \in s[u].writes}
    IN add_dependencies([s EXCEPT ![t].reads = @ \cup {table}], {<<t, u>> : u \in writers})

record_write(s, t, table) ==
    LET readers == {u \in Others(s, t) : table \in s[u].reads}
    IN add_dependencies([s EXCEPT ![t].writes = @ \cup {table}], {<<u, t>> : u \in readers})

(* SsiManager::commit refuses a pivot, and otherwise marks it committed.   *)
Dangerous(s, t) ==
    /\ \E u \in s[t].incoming : s[u].live /\ s[u].committed
    /\ s[t].outgoing # {}

(* Mutant: the record is not marked.                                       *)
ssi_commit_unmarked(s, t) == s
ssi_commit(s, t) == [s EXCEPT ![t].committed = TRUE]

ssi_savepoint(s, t) == [reads |-> s[t].reads, writes |-> s[t].writes]

remove_transactions(s, gone) ==
    [u \in Txns |-> IF u \in gone THEN NoSsi
                    ELSE [s[u] EXCEPT !.incoming = @ \ gone, !.outgoing = @ \ gone]]

ssi_abort(s, t) == remove_transactions(s, {t})

cleanup_before(s, horizon) ==
    remove_transactions(s, {u \in Txns : /\ s[u].live /\ s[u].committed
                                         /\ u < horizon
                                         /\ session[u].snapshot.xmax < horizon})

(* Mutant: the edges of the predicates that remain are not derived again.  *)
ssi_rollback_to_edgeless(s, t, saved) ==
    [remove_transactions(s, {t}) EXCEPT
        ![t] = [s[t] EXCEPT !.reads = saved.reads, !.writes = saved.writes,
                            !.incoming = {}, !.outgoing = {}]]

(* ssi.rollback_to: the predicates of the savepoint, every edge of t       *)
(* dropped and derived again from the predicates that remain.              *)
ssi_rollback_to(s, t, saved) ==
    LET kept == [remove_transactions(s, {t}) EXCEPT
                    ![t] = [s[t] EXCEPT !.reads = saved.reads, !.writes = saved.writes,
                                        !.incoming = {}, !.outgoing = {}]]
    IN add_dependencies(kept,
          {<<t, u>> : u \in {v \in Others(kept, t) : saved.reads \cap kept[v].writes # {}}}
          \cup {<<u, t>> : u \in {v \in Others(kept, t) : kept[v].reads \cap saved.writes # {}}})

-----------------------------------------------------------------------------
(***************************************************************************)
(* BEGIN: DurableTransaction::begin takes the id from the status store,    *)
(* then TransactionManager::register raises the high-water mark and, under *)
(* the manager's lock, takes the snapshot and enters the active map.       *)
(***************************************************************************)
begin_durable(t) ==
    /\ t = allocated + 1
    /\ MayBegin(t)
    /\ allocated' = t
    /\ \E level \in setup.levels[t] :
          session' = [session EXCEPT ![t].phase = "allocated", ![t].level = level]
    /\ UNCHANGED <<setup, next_transaction_id, versions, ssi, seen>>

raise_high_water(t) ==
    /\ Phase(t) = "allocated"
    /\ next_transaction_id' = IF t + 1 > next_transaction_id THEN t + 1
                              ELSE next_transaction_id
    /\ session' = [session EXCEPT ![t].phase = "raised"]
    /\ UNCHANGED <<setup, allocated, versions, ssi, seen>>

(* register, then SsiManager::begin; when the SSI table is full the begun  *)
(* transaction is dropped, which aborts it.                                *)
register(t) ==
    /\ Phase(t) = "raised"
    /\ MaySnapshot(t)
    /\ IF UsesSsi(t) /\ ssi_full(ssi)
       THEN /\ session' = [session EXCEPT ![t].phase = "aborted"]
            /\ UNCHANGED ssi
       ELSE /\ session' = [session EXCEPT ![t].phase = "idle",
                                          ![t].snapshot = snapshot_locked(t)]
            /\ ssi' = IF UsesSsi(t) THEN ssi_begin(ssi, t) ELSE ssi
    /\ UNCHANGED <<setup, allocated, next_transaction_id, versions, seen>>

-----------------------------------------------------------------------------
(***************************************************************************)
(* Statements.  begin_active_statement chooses the snapshot: a Read        *)
(* Committed statement takes a new one, a deferrable transaction waits for *)
(* its safe one before its first statement.  The state is read afterwards. *)
(***************************************************************************)
NeedsSafeSnapshot(t) == session[t].level = "Deferrable" /\ ~session[t].safe

(* Enter a statement with a snapshot.  (The SSI record's copy of the       *)
(* snapshot is refreshed with it: nothing is tracked yet at that point.)   *)
Enter(t, snapshot) ==
    /\ session' = [session EXCEPT ![t].phase = "statement", ![t].snapshot = snapshot,
                                  ![t].safe = TRUE,
                                  ![t].statements = @ + 1]
    /\ UNCHANGED <<setup, allocated, next_transaction_id, versions, ssi, seen>>

MayStart(t) == Phase(t) = "idle" /\ session[t].statements < setup.statements

begin_statement(t) ==
    /\ MayStart(t)
    /\ ~NeedsSafeSnapshot(t)
    /\ IF session[t].level = "ReadCommitted"
       THEN MaySnapshot(t) /\ Enter(t, snapshot_locked(t))
       ELSE Enter(t, session[t].snapshot)

wait_for_safe_snapshot(t) ==
    /\ MayStart(t)
    /\ NeedsSafeSnapshot(t)
    /\ MaySnapshot(t)
    /\ ~unsafe_writer_active(t)
    /\ Enter(t, snapshot_locked(t))

Fail(t) == session' = [session EXCEPT ![t].phase = "failed"]

(* A cancelled wait for the safe snapshot fails the statement.             *)
cancel_safe_snapshot(t) ==
    /\ MayStart(t)
    /\ NeedsSafeSnapshot(t)
    /\ unsafe_writer_active(t)
    /\ Fail(t)
    /\ UNCHANGED <<setup, allocated, next_transaction_id, versions, ssi, seen>>

(* Mutant: the merge does not compare the versions.                        *)
MergeConflict_unchecked(t) == FALSE

(* merge_dml_candidate: a version that the transaction superseded in its   *)
(* base has been superseded by someone else in the latest state.           *)
MergeConflict(t) ==
    \E w \in session[t].working : Len(versions[w[1]]) # Len(session[t].base[w[1]])

(* refresh_read_committed_candidate rebases the working state of a Read    *)
(* Committed transaction on the latest state, or fails the statement.      *)
Rebases(t) == session[t].level = "ReadCommitted" /\ session[t].working # {}

Base(t) == IF Rebases(t) THEN versions ELSE session[t].base

refresh_conflict(t) ==
    /\ Phase(t) = "statement"
    /\ committed_snapshot
    /\ Rebases(t) /\ MergeConflict(t)
    /\ Fail(t)
    /\ UNCHANGED <<setup, allocated, next_transaction_id, versions, ssi, seen>>

(* The versions of row r a statement of t works on: the ones visible in    *)
(* the published state, or, once t has a working state, the ones of that.  *)
View(t, r) ==
    IF session[t].working = {} THEN tuple_visible(t, versions[r])
    ELSE IF Rebases(t) THEN {versions[r][Len(versions[r])]}
    ELSE tuple_visible(t, session[t].base[r])

OwnRows(t) == {w[1] : w \in session[t].working}

(* What reading the rows adds to the history; a Read Committed transaction *)
(* promises consistency per statement only, so its history starts again.   *)
Observe(t, rows) ==
    LET now == UNION {{<<r, w>> : w \in View(t, r)} : r \in rows \ OwnRows(t)}
    IN seen' = [seen EXCEPT ![t] = IF session[t].level = "ReadCommitted" THEN now
                                   ELSE @ \cup now]

RowsOf(table) == {r \in Rows : setup.table_of[r] = table}

(* statement_read_predicates: a SELECT records the tables it reads.        *)
select(t, table) ==
    /\ Phase(t) = "statement"
    /\ committed_snapshot
    /\ ~(Rebases(t) /\ MergeConflict(t))
    /\ RowsOf(table) # {}
    /\ Observe(t, RowsOf(table))
    /\ ssi' = IF UsesSsi(t) THEN record_read(ssi, t, table) ELSE ssi
    /\ session' = [session EXCEPT ![t].phase = "idle", ![t].base = Base(t)]
    /\ UNCHANGED <<setup, allocated, next_transaction_id, versions>>

(* UPDATE or DELETE computes its candidate on the view.  The rows its WHERE*)
(* clause looks at are read, but statement_read_table_ids names no table   *)
(* for it.  A target version that someone has superseded is refused        *)
(* (delete_version), a write in a read-only transaction too; otherwise the *)
(* statement goes on to its locks with the view as its base.               *)
Target(t, r) == IF session[t].working = {} THEN versions[r] ELSE Base(t)[r]

Superseded(t, r) ==
    /\ r \notin OwnRows(t)
    /\ View(t, r) # {Target(t, r)[Len(Target(t, r))]}

update(t, r, kind) ==
    /\ Phase(t) = "statement"
    /\ committed_snapshot
    /\ ~(Rebases(t) /\ MergeConflict(t))
    /\ Observe(t, IF kind = "scan" THEN RowsOf(setup.table_of[r]) ELSE {r})
    /\ LET base == IF session[t].working = {} THEN versions ELSE Base(t) IN
       IF session[t].level = "Deferrable" \/ Superseded(t, r)
       THEN session' = [session EXCEPT ![t].phase = "failed",
                           ![t].base = IF session[t].working = {} THEN @ ELSE base]
       ELSE session' = [session EXCEPT ![t].phase = "waiting", ![t].want = r,
                                       ![t].base = base]
    /\ UNCHANGED <<setup, allocated, next_transaction_id, versions, ssi>>

(* LockKey::Row names the table and the ordinal of the version replaced.   *)
RowKey(t) == <<session[t].want, Len(session[t].base[session[t].want])>>
RowLocked(t) == \E u \in Txns \ {t} : RowKey(t) \in session[u].locks

(* acquire_dml_locks returned: record_write, base and working are stored.  *)
(* The replaced version is kept with the row: <<row, creator>>.            *)
locks_acquired(t) ==
    /\ Phase(t) = "waiting"
    /\ LET r == session[t].want
           chain == session[t].base[r] IN
       IF r \in OwnRows(t)
       THEN session' = [session EXCEPT ![t].phase = "idle"]
       ELSE /\ ~RowLocked(t)
            /\ session' = [session EXCEPT ![t].phase = "idle",
                              ![t].locks = @ \cup {RowKey(t)},
                              ![t].working = @ \cup {<<r, chain[Len(chain)]>>}]
    /\ ssi' = IF UsesSsi(t) THEN record_write(ssi, t, setup.table_of[session[t].want]) ELSE ssi
    /\ UNCHANGED <<setup, allocated, next_transaction_id, versions, seen>>

(* Deadlock victim, lock timeout or cancellation while waiting.            *)
lock_refused(t) ==
    /\ Phase(t) = "waiting"
    /\ RowLocked(t)
    /\ Fail(t)
    /\ UNCHANGED <<setup, allocated, next_transaction_id, versions, ssi, seen>>

-----------------------------------------------------------------------------
(***************************************************************************)
(* SAVEPOINT and ROLLBACK TO: base, working, locks and SSI predicates.     *)
(***************************************************************************)
create_sql_savepoint(t) ==
    /\ setup.savepoints
    /\ Phase(t) = "idle"
    /\ ~session[t].savepoint.taken
    /\ session' = [session EXCEPT ![t].savepoint =
                     [taken |-> TRUE, base |-> session[t].base,
                      working |-> session[t].working, locks |-> session[t].locks,
                      predicates |-> ssi_savepoint(ssi, t)]]
    /\ UNCHANGED <<setup, allocated, next_transaction_id, versions, ssi, seen>>

rollback_to_sql_savepoint(t) ==
    /\ Phase(t) \in {"idle", "failed"}
    /\ session[t].savepoint.taken
    /\ LET saved == session[t].savepoint IN
       /\ session' = [session EXCEPT ![t].phase = "idle", ![t].base = saved.base,
                                     ![t].working = saved.working, ![t].locks = saved.locks]
       /\ ssi' = IF UsesSsi(t) THEN ssi_rollback_to(ssi, t, saved.predicates)
                 ELSE ssi
    /\ UNCHANGED <<setup, allocated, next_transaction_id, versions, seen>>

-----------------------------------------------------------------------------
(***************************************************************************)
(* COMMIT and ROLLBACK.                                                    *)
(***************************************************************************)
(* Dropping the transaction: SSI record, locks, status, active map.        *)
Drop(t) ==
    /\ session' = [session EXCEPT ![t].phase = "aborted", ![t].locks = {}]
    /\ ssi' = ssi_abort(ssi, t)

(* SsiTransactionGuard::validate_commit.                                   *)
validate_commit(t) ==
    /\ Phase(t) = "idle"
    /\ MayCommit
    /\ IF UsesSsi(t) /\ Dangerous(ssi, t)
       THEN Drop(t)
       ELSE /\ session' = [session EXCEPT ![t].phase = "validated"]
            /\ ssi' = IF UsesSsi(t)
                      THEN cleanup_before(ssi_commit(ssi, t), global_xmin_excluding(t))
                      ELSE ssi
    /\ UNCHANGED <<setup, allocated, next_transaction_id, versions, seen>>

(* Under the write lock: merge, then persist_candidate up to the status.   *)
merge_candidate(t) ==
    /\ Phase(t) = "validated"
    /\ session[t].working # {}
    /\ ~StateLocked
    /\ IF MergeConflict(t) THEN Drop(t)
       ELSE session' = [session EXCEPT ![t].phase = "marked"] /\ UNCHANGED ssi
    /\ UNCHANGED <<setup, allocated, next_transaction_id, versions, seen>>

(* finish_commit: out of the active map, the state is not yet replaced.    *)
finish_commit(t) ==
    /\ Phase(t) = "marked"
    /\ session' = [session EXCEPT ![t].phase = "completed"]
    /\ UNCHANGED <<setup, allocated, next_transaction_id, versions, ssi, seen>>

(* *state = candidate, the write lock and then the row locks are released. *)
publish(t) ==
    /\ Phase(t) = "completed"
    /\ versions' = [r \in Rows |-> IF r \in OwnRows(t) THEN Append(versions[r], t)
                                   ELSE versions[r]]
    /\ session' = [session EXCEPT ![t].phase = "committed", ![t].locks = {}]
    /\ UNCHANGED <<setup, allocated, next_transaction_id, ssi, seen>>

commit_empty(t) ==
    /\ Phase(t) = "validated"
    /\ session[t].working = {}
    /\ session' = [session EXCEPT ![t].phase = "committed", ![t].locks = {}]
    /\ UNCHANGED <<setup, allocated, next_transaction_id, versions, ssi, seen>>

rollback_sql_transaction(t) ==
    /\ Phase(t) \in {"idle", "failed"}
    /\ Drop(t)
    /\ UNCHANGED <<setup, allocated, next_transaction_id, versions, seen>>

(* Every transaction of the history has ended.                             *)
Finished ==
    /\ \A t \in Txns : setup.levels[t] # {} => Phase(t) \in Ended
    /\ UNCHANGED vars

Idle(t) == [phase |-> "none", level |-> "ReadCommitted", snapshot |-> NoSnapshot,
            safe |-> FALSE, statements |-> 0, base |-> Initially, working |-> {},
            locks |-> {}, want |-> CHOOSE r \in Rows : TRUE, savepoint |-> NoSavepoint]

Init ==
    /\ setup \in Setups
    /\ allocated = 0
    /\ next_transaction_id = 1
    /\ session = [t \in Txns |-> Idle(t)]
    /\ versions = Initially
    /\ ssi = [t \in Txns |-> NoSsi]
    /\ seen = [t \in Txns |-> {}]

Step(t) ==
    \/ begin_durable(t)
    \/ raise_high_water(t)
    \/ register(t)
    \/ begin_statement(t)
    \/ wait_for_safe_snapshot(t)
    \/ cancel_safe_snapshot(t)
    \/ refresh_conflict(t)
    \/ \E table \in Tables : select(t, table)
    \/ \E r \in Rows, kind \in Kinds : update(t, r, kind)
    \/ locks_acquired(t)
    \/ lock_refused(t)
    \/ create_sql_savepoint(t)
    \/ rollback_to_sql_savepoint(t)
    \/ validate_commit(t)
    \/ merge_candidate(t)
    \/ finish_commit(t)
    \/ publish(t)
    \/ commit_empty(t)
    \/ rollback_sql_transaction(t)

Next == (\E t \in Txns : Step(t)) \/ Finished

Spec == Init /\ [][Next]_vars

-----------------------------------------------------------------------------
(***************************************************************************)
(* Properties.                                                             *)
(***************************************************************************)
RowVersions == Rows \X (Txns \cup {Frozen})

(* Types, with the SSI graph's own consistency: every edge is stored at    *)
(* both ends and joins transactions the SSI manager still knows.           *)
TypeOK ==
    /\ allocated \in 0..N
    /\ next_transaction_id \in 1..N+1
    /\ \A t \in Txns :
          /\ session[t].phase \in Phases
          /\ session[t].level \in Levels
          /\ session[t].snapshot \in Snapshots
          /\ session[t].statements \in 0..setup.statements
          /\ session[t].working \subseteq RowVersions
          /\ session[t].want \in Rows
          /\ ssi[t].reads \subseteq Tables /\ ssi[t].writes \subseteq Tables
          /\ \A u \in Txns : u \in ssi[t].outgoing <=> t \in ssi[u].incoming
          /\ ssi[t].outgoing # {} => ssi[t].live
    /\ versions \in [Rows -> Seq(Txns \cup {Frozen})]
    /\ seen \in [Txns -> SUBSET RowVersions]

(* project_database_visibility: a statement finds exactly one version of   *)
(* every row, whoever commits while its transaction runs.                  *)
OneVersionVisible ==
    \A t \in Txns, r \in Rows :
        Phase(t) = "statement" /\ ~StateLocked => Cardinality(View(t, r)) = 1

(* Repeatable Read and above: what a transaction has read of a row stays   *)
(* what it reads of that row, until its end.                               *)
SnapshotStable ==
    \A t \in Txns : \A a, b \in seen[t] : a[1] = b[1] => a[2] = b[2]

(* Position of a creator in a row's chain (it writes a row at most once).  *)
Position(r, w) == CHOOSE i \in DOMAIN versions[r] : versions[r][i] = w
Wrote(w, r) == \E i \in DOMAIN versions[r] : versions[r][i] = w

(* No fractured reads: a transaction (a statement, at Read Committed) that *)
(* has read something w wrote reads no version older than w's of another   *)
(* row w wrote.  The status is Committed, the active map and the published *)
(* state change in three steps of a commit; no snapshot falls in between.  *)
NoFracturedRead ==
    \A t \in Txns : \A a, b \in seen[t] :
        a[2] # Frozen /\ Wrote(a[2], b[1])
            => Position(b[1], b[2]) >= Position(b[1], a[2])

(* No lost update, at every level: the version a committed transaction put *)
(* in place follows the very version its statement read and replaced.      *)
NoLostUpdate ==
    \A t \in Txns : Phase(t) = "committed" =>
        \A w \in session[t].working :
            \E i \in 1..Len(versions[w[1]]) - 1 :
                versions[w[1]][i] = w[2] /\ versions[w[1]][i + 1] = t

(* record_read, record_write, rollback_to and cleanup_before together: a   *)
(* tracked read and a tracked write of the same table by transactions of   *)
(* which the reader does not see the writer are joined by an edge.         *)
ConflictsRecorded ==
    \A t, u \in Txns :
        /\ t # u /\ ssi[t].live /\ ssi[u].live
        /\ ssi[t].reads \cap ssi[u].writes # {}
        /\ ~Sees(t, u)
        => u \in ssi[t].outgoing

(* cleanup_before: while a serializable transaction can still read or      *)
(* write, the record of every transaction that committed beside it stays.  *)
ConcurrentRecordsKept ==
    \A t, u \in Txns :
        /\ t # u /\ ssi[t].live /\ ~ssi[t].committed
        /\ UsesSsi(u) /\ Phase(u) \in {"validated", "marked", "completed", "committed"}
        /\ ~Sees(t, u)
        => ssi[u].live

(* Every conflict that can still matter is on record when a COMMIT looks.  *)
ConflictsAreKnown == ConflictsRecorded /\ ConcurrentRecordsKept

(* The serialization graph of the committed transactions that asked for    *)
(* Serializable: reads-from, version order, and anti-dependencies from a   *)
(* reader to the next writer.                                              *)
Edges ==
    LET C == {t \in Txns : Phase(t) = "committed" /\ UsesSsi(t)} IN
    {e \in C \X C : e[1] # e[2] /\
        \/ \E a \in seen[e[2]] : a[2] = e[1]
        \/ \E r \in Rows : /\ Wrote(e[1], r) /\ Wrote(e[2], r)
                           /\ Position(r, e[1]) < Position(r, e[2])
        \/ \E a \in seen[e[1]] : /\ Wrote(e[2], a[1])
                                 /\ Position(a[1], a[2]) < Position(a[1], e[2])}

(* Serializability: the committed transactions have a serial order that    *)
(* agrees with everything they read and wrote (SsiManager::commit).        *)
Serializable ==
    \E order \in [Txns -> Txns] : \A e \in Edges : order[e[1]] < order[e[2]]
=============================================================================
