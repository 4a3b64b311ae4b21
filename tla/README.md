# A TLA+ verification of OrdaDB

OrdaDB is a single-node SQL database written in Rust: an engine with MVCC, row locks
and a write-ahead log, a PostgreSQL wire server, an administration service, tools that
migrate and back up a data root, and a desktop application. This directory holds TLA+
models of the parts of it in which processes, threads, messages, files and crashes
interact, with model-checking configurations and machine-checked proofs.

| module | models (under `src/crates/`) |
|---|---|
| `LockManager` | `ordadb-transaction/src/locks.rs` |
| `Durability` | commit, checkpoint, crash, recovery, reconciliation: `wal_parts`, `recovery_parts`, `status.rs`, `store_parts` |
| `DurableStore` | the abstract specification `Durability` is shown to implement |
| `Isolation` | snapshots, visibility, SSI, merge and publication: `mvcc_parts`, `ssi.rs`, the SQL session |
| `StorageGate`, `Notifications`, `Sessions` | the storage access gate, the notification broker, and the sessions that share both |
| `SqlWriters` | writer lease, DDL upgrade, savepoints and procedures of SQL sessions |
| `Wire` | one PostgreSQL connection: client, socket, server loop, session registry |
| `Catalog` | definitions, dependency graph and OID registry: `ordadb-catalog` |
| `BTree` | `ordadb-index` |
| `Migration` | the data root: first start, migration, receipts, rollback |
| `BufferPool` | page frames, guards and eviction over the data file: `ordadb-storage/src/buffer.rs` |
| `PluginManager` | installation, update and rollback of connector helpers: `ordadb-connectors/src/manager_parts` |
| `ConnectorSession` | one connection through a helper process: desktop, `ConnectorHost`, pipe, `ordadb-connector-sdk` |
| `AiRuns` | runs of the assistant, their tool calls and approvals: `ordadb-ai`, desktop |
| `Plpgsql` | PL/pgSQL: compiler, machine, engine as host: `ordadb-plpgsql/src/language`, `plpgsql_host_and_merge.rs` |
| `RowOperators`, `Windows`, `Execution`, `QueryPlans` | the execution of one query, in memory and in spill files: `ordadb-execution/src/advanced_parts`, `execution_parts` |
| `Dml`, `DmlPlans` | INSERT, UPDATE, DELETE, MERGE, triggers, referential actions, tuple versions of a statement: `dml_and_select.rs`, `explain_update_and_views.rs`, `plpgsql_host_and_merge.rs` |
| `LockManagerProofs`, `SessionsProofs`, `SqlWritersProofs`, `WireProofs`, `ComponentProofs`, `IsolationProofs`, `DurabilityProofs`, `RecoveryProofs` | TLAPS proofs, for all values of the constants |
| `MC*` | values of the constants, and compositions, for TLC |

`PROJECT.json` maps every definition to the source lines it models, and lists
runs, mutants, hazards, findings and theorems. Run a model with
`tlc -config X.cfg MCxxx`; check the proofs of a module with `tlapm M.tla`
for the modules `*Proofs`.

## 1. Inventory

Paths are relative to `src/crates/`.

### Modelled

**Lock manager** (`ordadb-transaction/src/locks.rs`).
*State*: under one mutex, `granted` (key -> locks), `waiting` (key -> FIFO queue),
`deadlock_victims`, and a request counter. *Operations*: `acquire` (grant at once,
refuse when `maximum_waiters` wait already, or queue, look once for a deadlock,
and loop: victim, cancelled, granted, timed out, wait), `LockGuard::drop` /
`release_request`, `release_transaction`. *Callers*: `acquire_dml_locks` takes the
sorted keys of a statement (database and table shared, rows and unique keys
exclusive) and skips the keys it holds; DDL takes the database key exclusively.
*Hard*: a grant, a timeout, a cancellation and a victim flag race for one
request; the deadlock search runs only when a request is queued. *Correct when*:
exclusion, FIFO order among conflicting requests, no stale victim flag, every
deadlock is broken, every wait ends.

**Write-ahead log** (`ordadb-transaction/src/wal_parts`, `record.rs`).
*State*: the log file, the durable LSN, dirty pages with their recLSN, the pages each
transaction dirtied, per-transaction chains and outcomes. *Operations*: `begin_transaction`,
`log_prepared` (one record per changed page, a Resize record, a flush), `commit`,
`abort`, `append_compensation`, `checkpoint` (begin and end record), `open` (scan,
cut the incomplete tail, replay). *Correct when*: no page is written before its record
is durable, and what is acknowledged is durable.

**Crash recovery** (`ordadb-transaction/src/recovery_parts`, `ordadb-storage/src/recovery.rs`).
ARIES: analysis from the last complete checkpoint, redo, undo of losers with
compensation records, final resize, validation, closing checkpoint. *Hard*: it can
be interrupted anywhere and runs again on what it has already done. *Correct when*:
afterwards the file is exactly the last committed database, and it always ends.

**Transaction status store** (`ordadb-transaction/src/status.rs`). A JSON document,
replaced atomically, with the outcome of every retained transaction, the next id and
the retention floor. It says Committed *before* the log does; `reconcile_with_wal` corrects
it at start-up. *Correct when*: it agrees with the log, an outcome never changes, ids
are never reused.

**Database store and disk** (`ordadb-storage/src/store_parts`, `disk.rs`). Builds the page
images of a candidate state, compares them with the file, writes pages, resizes, syncs.

**MVCC transaction manager** (`ordadb-transaction/src/mvcc_parts`). The active map, the id
high-water mark, snapshots (xmin, xmax, in-progress set), tuple visibility, safe
snapshots of deferrable transactions, the phases of a `DurableTransaction`.

**SSI manager** (`ordadb-transaction/src/ssi.rs`). Per serializable transaction: read and
write predicates, incoming and outgoing rw-dependencies; commit check, savepoints, cleanup.

**SQL session and commit path** (`ordadb-engine/src/engine_parts/session_*.rs`,
`storage_read_stream.rs`, `persistence_and_transaction_commands.rs`). A transaction computes
candidates on a private copy of the database; COMMIT validates with SSI, takes the write lock
of the published state, merges the candidate into the latest state (`merge_dml_candidate`),
persists it (`persist_candidate`) and replaces the state.

**Storage access gate and notification broker** (`contracts_and_engine.rs`). A readers-writer
gate in front of the data file with one mutex and one condition variable, writers preferred;
read streams hold a read lease as long as their client likes. The broker copies
the notifications of a committed transaction into a bounded queue per listening session.
*Hard*: wake-ups; a commit waits in the gate while it holds the state lock. *Correct when*:
a stream reads one generation, no wake-up is lost, every commit ends, notifications are
those of commits, once and in order, and an overflow is announced.

**Writer coordinator and DDL upgrade** (`ordadb-transaction/src/writer.rs`, the session code).
DML is merged at COMMIT; DDL replaces the state, so it holds the writer lease and the
exclusive database lock. A transaction that does DML and then DDL is upgraded, ROLLBACK TO
SAVEPOINT may take it back, a procedure commits segment by segment. *Correct when*: the lease
has an owner that will give it back, and a publication keeps what others have committed.

**PostgreSQL wire protocol** (`ordadb-protocol`) with the **session registry** of the
administration service. The connection's loop: simple and extended protocol, portals, COPY,
CancelRequest on another connection, skip-until-Sync after an error, shutdown. *Correct
when*: both ends agree on message boundaries, a cancellation stops nothing of a
later request than those the client had begun to send, the registry lists what runs, only the client's own transactions stay open, every
request is answered.

**Catalog** (`ordadb-catalog`). Definitions, a graph of dependencies, a registry of OIDs: three
structures that each CREATE, ALTER, REPLACE and DROP must keep in step. *Correct when*:
no definition names an object that is gone, the registry lists exactly the live objects.

**B+tree index** (`ordadb-index`). Filled entry by entry when an index is rebuilt, then
read by bounded scans. *Correct when*: a range returns exactly the rows within it.

**Data root: cluster directory and migration** (`ordadb-cluster`, `ordadb-backup/src/migration*`,
`ordadb-server`). Which database is authoritative is derived from the files in a directory,
twice: by the server and by the installer. *Hard*: a crash between any two changes of files, a
plan made of an older state, a receipt that is used late. *Correct when*: no acknowledged
write is missing from the database the root then opens, and both derivations agree.

**Buffer pool** (`ordadb-storage/src/buffer.rs`). Frames with pin counts and access histories
under one mutex; fetch, install, change through a guard, flush, eviction (LRU-K), invalidation,
resizing. *Hard*: a write that fails while its frame is being evicted. *Correct when*: a page
that a guard refers to stays, a change that was stored is in the pool or in the file, no
page is in the file before its log record.

**Connector helpers** (`ordadb-connectors/src/manager_parts`). Version directories, a state
document and its copy in memory; at most one operation per plugin, each a task, beside a
rollback on the main thread. *Correct when*: whatever is interrupted, the next start accepts the
document, and what was reported active is active.

**Connector session** (`host_parts`, `ordadb-connector-sdk/src/runtime_v3_parts`,
`apps/desktop/src-tauri/src/dbms_parts`). Calls of the desktop take turns with one host; the
helper has a task that reads requests and one that runs them; cancellation overtakes. *Correct
when*: every call gets the answer to its own request, and disconnect ends.

**Assistant** (`ordadb-ai`, `apps/desktop/src-tauri/src/ai_parts`). Rounds of tool calls that run
side by side; each mutation waits for the user's approval, which can be late, expire, or be
taken back with the run. *Correct when*: nothing is changed without a timely yes, what
was started is on record, no approval stays behind.

**PL/pgSQL** (`ordadb-plpgsql`, hosted by `plpgsql_host_and_merge.rs`). The lines of a body become
instructions with jump targets in one pass, with stacks of open control structures and blocks; a
machine runs them, and the host copies the state of the transaction at the start of every block that
has an EXCEPTION section, to put it back when a handler takes an error. *Hard*: an error taken by an
outer block while loops, cursors and protected regions of inner ones are active; EXIT and CONTINUE out of
several structures. *Correct when*: the routine does what its lines say, and an error undoes what its block did.

**Query execution** (`ordadb-execution`). A cursor pulls joined rows out of nested loops and hash tables, evaluates
subqueries per row, filters, groups, applies windows, sorts and delivers. Each structure
(join table, groups, sort buffer, window input and result) may pass the soft limit of the query's memory at any
row and go to spill files: partitions by hash, sorted runs merged through a heap in several passes. *Hard*: every
combination of structures in memory and on disk must mean the same. *Correct when*: the rows are those the
query means, in its order, and an error is one the query deserves.

**Changes of rows** (`dml_and_select.rs`, `explain_update_and_views.rs`, `plpgsql_host_and_merge.rs`,
`validation_and_derived_state.rs`, `routine_vm_and_triggers.rs`). A statement works on a candidate copy of the database, row
by row: BEFORE triggers, the change, a queue of the rows that refer to it, constraints and indexes, AFTER
triggers. At the end `reconcile_version_changes` derives from the rows before and after which tuple versions end
and begin. *Hard*: the table changes under the statement that goes through it. *Correct when*: the rows are those SQL
says, each trigger is called once for each change, the indexes and the versions are those of the rows, and a
failed statement changes nothing.

### How they interact

A COMMIT crosses every component of the engine, in this order:

1. `SsiTransactionGuard::validate_commit` (SSI mutex), with the horizon of the
   transaction manager;
2. write lock on the published state, held to step 8; `merge_dml_candidate`;
3. write lease of the storage gate, waiting for open read streams; `prepare_commit`: the page
   images and the differences to the file;
4. `log_prepared`: page records, Resize record, flush;
5. `mark_status_committed`: the status document is replaced;
6. `apply_prepared`: page writes, resize, file sync;
7. WAL Commit record, flushed; `publish_prepared`; `finish_commit` leaves the active map;
8. the published state is replaced; the gate and the write lock are released, then the row
   locks; the notifications go to the broker.

`Durability` has steps 3-8 in detail and no concurrent readers; `Isolation` has
steps 1, 2, 5, 7 and 8 as seen by other sessions and no crashes; `Sessions` has the lock, the
gate and the broker of steps 2, 3 and 8; `SqlWriters` has what the candidate contains and
which lease and lock its session holds. The state lock is what allows the split: it makes
persisting commits sequential. Only checkpoints, empty commits, aborts and begins run beside
one, and `Durability` has those.

`Engine::open` runs `WalManager::open`, `recover`, `TransactionStatusStore::open`,
`reconcile_with_wal`, and then loads the store. The server opens an engine on the database
that `Migration`'s authority pointer names. `Wire` drives an engine session as a state
machine of its transaction status. `Durability` has the file's pages as the store writes them;
`BufferPool` has the cache that readers and the store's tools use, with the log as its barrier.
The assistant's tools reach a database through `ConnectorSession`'s host (its `"ai"` calls).
## 2. The models

### LockManager

One action per way through `acquire`, up to the point where it returns or waits on
the condition variable: `AcquireImmediately`, `AcquireRefused`, `AcquireQueued`. The last
one appends the request, searches for a deadlock and takes the first turn of the loop in
one step, because the mutex is never released in between. Later turns are
`WakeVictim`, `WakeCancelled`, `WakeGranted`, `WakeTimeout`, with the checks in the
code's order (a victim is never granted; a request that can run does not time out).
Deadlines and cancellation flags come from outside: any waiting request may meet one.
`cycle_members` is the set of transactions that reach themselves in the wait-for
graph, which is what the code's depth-first search from every transaction collects.
`release_transaction` is called by tests only; it is modelled because it is the
manager's interface, and it stands for dropping all guards at the end of a transaction.

Constants: `Txns` (ids, ordered), `Requests` (key and mode pairs), `SkipHeldKeys` (whether
callers skip keys they hold, as `acquire_dml_locks` does), `MaxWaiters`
(`maximum_waiters`), `MaxRequests` (bound of the request counter).

### Durability and DurableStore

A database is a vector of pages; a page's content is the transaction that last wrote
it; page 1 is the metadata page, which every commit changes. An LSN is the position of
a record. For every page the file keeps the set `maybe` of versions that a power loss may
leave: all written since the last sync, the previous one, or an unreadable (torn)
page; likewise for the file length. `synced` is the prefix of the log that survives.

Every system call of `persist_candidate` that another party or a crash can separate is an
action: one per page record, the Resize record, the flush, the status document, one per
page write, the resize, the file sync, the Commit record, its flush, the publication. A
checkpoint of another session has three steps (sample, begin record, end record). Recovery
is one action per redone record and per undone record, then the final resize with
validation, two checkpoint records, and reconciliation. `power_loss` and `process_crash`
may strike at any state, recovery included; failing system calls in begin, while logging,
after the status document, and in the abort itself are actions the session survives
(`Failures` names them: `"begin_flush"`, `"begin"`, `"active"`, `"committed"`, `"abort"`).

Merged into one step: the append and the flush of Begin, Abort, empty-Commit, compensation
and checkpoint records (nothing depends on the record being in the file and not
synced that the page records do not already show). Assumed of the operating system: the
log file loses a suffix, not a hole, and the status document is replaced atomically.

`DurableStore` is what a client may rely on: a history of committed databases, a set of
transactions a client was told of, a view; a crash may cut off commits nobody was told of, and a
restart serves the end of the history. `DurabilityRefinement` defines the mapping: the history is the
list of Commit records that have page records (`CommitHistory`), the view is the published
state. `ImplementsDurableStore` is that every behaviour of `Durability` is one of `DurableStore`
under it, recovery, checkpoints, failed begins and the second crash inside recovery included.

### Isolation

A row is the sequence of the transactions that created its versions; the deleter of
a version is the creator of the next. `session[t]` is the session's
`ActiveSqlTransaction`; its phase follows the code: id taken (`begin_durable`), high-water
mark raised, registered with a snapshot, idle, in a statement, waiting for row locks,
failed, validated by SSI, status Committed under the state's write lock, out of the active
map, published. Each arrow is one action, so that other sessions act in between.
`seen` is a history variable: the versions whose content the client has received.

Merged into one step: `register` and `SsiManager::begin`; a read of the state and
its `record_read`; the horizon, `SsiManager::commit` and `cleanup_before`; the drops that
end an aborted transaction. A transaction's second write of a row takes no lock.
Left out: DDL, autocommit (a transaction of one statement), ON CONFLICT rechecks,
VACUUM, row and index-range predicates (the engine records table predicates only), more
than one savepoint at a time.

`setup` is chosen by the initial state and never changes: the tables of the rows, the
isolation levels, whether savepoints are used, `maximum_transactions` of the SSI manager, and
`overlap`, which restricts the histories: without `"begin"` a BEGIN does not overlap other
snapshots between taking its id and registering, without `"commit"` it does not overlap a
COMMIT. Both overlaps happen in the code; both lead to disagreements (section 3), so the other
properties are checked without the one that breaks them. `Kinds` says whether UPDATEs look
at one row ("keyed") or at the whole table ("scan"), and is used in the same way.

### StorageGate, Notifications, Sessions

A gate thread is a session's statement or the stream it has given to its client. Between the
test of a condition and the wait the mutex is held, so such a stretch is one step; a sleeper
stays asleep until `notify_all` and then tests again, so that a wake-up that is never sent is a
behaviour of the model. The broker's calls hold its mutex and are one step each. `Sessions` is
the order in which the session code uses state lock, gate, checkpoint and broker, with a failure
before and after publication, sessions that connect and disconnect (dropping their queue), and
clients that drain late. `OpenStreams` says whether a session may ask for something else
while its own stream is open (section 3).

### SqlWriters

A database state is the set of the effects it contains, of rows or of the catalog: the merge of
DML takes over the rows and nothing else. A session's transaction is a record of its base, its
candidate, its lease, its locks and its savepoints; the actions are the statements, the waits for
locks and lease inside them, the upgrade, COMMIT, ROLLBACK, ROLLBACK TO, and the boundary of a
procedure. Row conflicts are the subject of `Isolation`; here every DML statement touches rows of
its own.

### Wire

Client, the two directions of the socket, the connection's thread, its statements, portals and COPY
state, and its entry in `SessionRegistry`. The simple client follows `PgClient`; the extended
one sends up to three messages before it waits. A CancelRequest, an administrator's stop and a lost
connection can come at any state. Transaction status follows the engine session (I, T, E).

A statement and the first Execute of a portal call the registry twice, `reset_cancellation` and then
`begin_query`; each call is a step of its own (`execute_simple_statement` and `begin_simple_statement`,
`execute_portal_starts` and `begin_portal`), and a CancelRequest between them stops a query the registry does
not list yet. Three ghosts say whom a cancellation may reach: `queries` has, for every query id, what the client
had issued when its flag was cleared, `asked` what it had issued when the last CancelRequest came, and
`stopped` the queries the flag has stopped. A statement that raises an error 57014 by itself is reported as
cancelled too (`finish_registered_query`); it is one of the failures here and not in `stopped`.

### Catalog

One statement is one step, because a catalog changes on a copy an error discards. A definition
keeps the fields that name other objects. `create_constraint` covers UNIQUE and FOREIGN KEY; a
DROP names one object. `Limits` says how many objects of each kind a behaviour may create.

### BTree

The arena of nodes, insertion with splits along the path, lower-bound search and leaf chain. Typed keys
are naturals, with one for NULL; depth and node limits, key widths and included columns are
left out.

### Migration

Files are variables: the v1 database, clusters by id, the pointer, the journal, logical archives,
retained rollback copies. Each tool is a sequence of steps at every one of which it may die. A
database is the set of writes it holds. Tool and server never run together, and tools one at a time:
that is an assumption of the documentation (`src/README.md:234`), nothing in the code enforces it
(section 3).

### BufferPool

Every call holds the pool's mutex and is one step; callers keep guards and come in any order. A page's
content is the LSN of its last change. A write may fail, leaving the page as it was or torn
(`Unreadable`); the log may refuse to become durable. `MaxClock` bounds the accesses, which
the eviction order is made of.

### PluginManager

A version stands for its signed manifest and executable: two publications of one version with
different contents are left out. The task of an operation is download, rename into
place, copy of the state, state document, state in memory; a rollback (one at a time: the call runs
on the main thread) has the last three. The program may end anywhere, and the next one may bring newer bundled
helpers. `raced` marks behaviours in which two copies of the state were under way at once (section 3).

### ConnectorSession

A name of a call is its request id. The host's mutex is a queue, as tokio's is. The pipe and the
helper's response channel behind it are one queue, as nothing but order matters. `"execute"` calls are
registered by the desktop and can be cancelled, `"ai"` calls are executions of the assistant, whose future may
be dropped at any await, `"transaction"` stands for every request with one answer. An execution emits
events until it completes, fails or sees its token; how long that takes is not assumed. A failure is reported
as Cancelled when its SQLSTATE is 57014 or the token is set (`run_session_v3`), and drivers return 57014 also for what
happens at their server: ClickHouse for HTTP 408 and 504, Oracle for ORA-01013, SQL Server for error 596. `session_stops` fails with 57014 at any time, token or not, and the ghost `given_up` has the executions
that did so without. `unclean` marks behaviours in which a call left something behind (section 3).

### AiRuns

A run authorizes the calls of a round one after the other and then executes them side by side; which of
them need an approval is chosen freely. `select!` between the cancellation and anything that is ready may
take either, so both are actions. A tool that takes too long is dropped without an audited outcome.

### Plpgsql

The compiler is a fold over the lines of a body with the code's own state: instructions, open control
structures and blocks, handlers, label, error. The machine has one action per instruction, and between two of them
enters and leaves regions as the host does. What the lines mean is stated without jumps: `Brackets`
matches every line that opens something with its end, `Next`-lines follow from that, and the ghost
`expected` goes along; `known` takes the disagreements of section 3 out. Left out: expressions,
declarations and records, positions of cursors, routines that call routines, triggers, memory accounting.
`IsRegular` excludes the bodies of disagreement (53).

### Dml, DmlPlans

`Begin` fires the BEFORE STATEMENT triggers and plans a MERGE; one row of the source is one step of `execute_insert`,
`execute_update`, `execute_delete`, `execute_merge` or `execute_view_statement`, one turn of the work queue is
`apply_referential_action`, `finish_row` is what follows for the row, `finish_statement` the AFTER STATEMENT triggers and the
versions, `fail_statement` the loss of the candidate. A trigger is what its function does and returns, one statement on a table
without triggers at most. What a statement means (`Means`, `Own`, `Gone`, `FinalRows`) is stated for all rows
at once over the rows at its start. `Calls` counts triggers through a table they write to. Left out: RETURNING, generated
defaults, routines that change their own table again, INSERT from SELECT, the limit on fired triggers, memory grants.

### RowOperators, Windows, Execution, QueryPlans

`Execution` has one action per turn of the loops of `next_row` and per row that goes on from there, and one
per phase: end of the source, one window, output, one delivered row. `crosses`, `over`, `spills` and `cuts` are the
answers of the memory grant, chosen freely at each place the code asks: every mixture of memory and files occurs.
A spilled join writes the one set of files the query has. Sorting, merging with its heap and its
passes, aggregate states and their merge are the operators of `RowOperators`; partitions, peers, frames, the running
and sliding evaluation of aggregates and the other functions those of `Windows`. Numbers that are equal
modulo 10 stand for one value written in two ways, as the decimals 1.0 and 1.00, because hash tables, partitions and
DISTINCT use different notions of equality. A SUM keeps whether it has been widened. The meaning of a query
(`RowsMeaning`, `WindowMeaning`, `AggregateMeaning`) is stated with sets and quantifiers and shares
comparison and the evaluation of subqueries, nothing else, with the operators. Left out: cancellation (it ends the cursor),
expressions other than comparisons, limits of memory, the cursor of a single table, column kernels.
## 3. Runs

Distinct states are those of the complete search (of the search until the violation, for the
five runs that expect one).

| run | instance | properties | states |
|---|---|---|---|
| `lock_manager` | 3 transactions, 2 keys, 3 modes, 2 waiters, 4 requests | `TypeOK`, `NoConflictingGrants`, `VictimsAreWaiting`, `NoOvertaking`, `WaitsEnd` | 126,667 |
| `durability` | 2 transactions, 2 pages: a file that grows and shrinks with one power loss, or two losses that may fall into recovery and a Begin record that could not be flushed | `TypeOK`, `WalBeforeData`, `ImplementsDurableStore`, `RestartCompletes` | 202,907 |
| `durability_faults` | 2 transactions, 2 pages: a checkpoint of another session and a power loss; failing system calls in begin, commit and abort with a process crash | `StoreIsLastCommitted`, `AckedIsDurable`, `StatusAndLogAgree`, `RecoverySucceeds` | 839,399 |
| `isolation` | 2 Read Committed or Repeatable Read transactions with savepoints; 3 Serializable ones with savepoints and 2 SSI records; 2 Serializable writers with a deferrable reader | `TypeOK`, `OneVersionVisible`, `SnapshotStable`, `NoFracturedRead`, `NoLostUpdate`, `ConflictsAreKnown`, `Serializable` | 1,392,511 |
| `sessions` | 3 sessions, 4 requests, queues of 1, 1 failure; `Execution`: the queries of `QueryPlans`; `Dml`: the scripts of `DmlPlans` | `StreamsAreStable`, `NotificationsArrive`, `SleepersAreBlocked`, `CommitsEnd`, `QueriesAreExact`, `ChangesAreExact` | 207,836 |
| `services` | `Wire`: 2 requests (queries, extended batches of 3, COPY), 1 CancelRequest; `ConnectorSession`: 2 calls, 1 event, 1 dropped call | `InSync`, `NoStaleCancel`, `StateIsTheClients`, `AnswersAreOnesOwn`, `RequestsAndDisconnectsEnd` | 1,164,594 |
| `components` | the parts below, each from its own initial states | see below | 1,270,966 |
| `lock_missed_deadlock` | 3 waiters | `DeadlockHasVictim` violated | |
| `durability_aborted` | 1 failed commit, 1 process crash | `RecoveredIsLastCommitted` violated | |
| `isolation_pivot` | 3 Serializable transactions | `Serializable` violated | |
| `sql_writers_lost` | 2 sessions, 3 effects | `NoCommittedRowIsLost` violated | |
| `execution_spilled_joins` | 1 query with two hash joins | `SpilledJoinsAreExact` violated | |

`MCComponents` holds parts that share no state: the initial state chooses the part
and the others keep still, so that their state counts add and one run checks them all.
`MCServices` does the same with the two protocols, `MCSessions` with the sessions, a query and a change of rows.

| part | instance | properties |
|---|---|---|
| writers | `SqlWriters`, 2 sessions, 3 effects, 1 savepoint | `LeaseIsOwned`, `PublishKeepsCommitted` |
| catalog | `Catalog`, 6 statements, four mixes of object kinds | `CatalogIsSound` |
| data root | `Migration`, 3 plans, 2 writes, 2 crashes | `DataRootIsKept` |
| index | `BTree` of order 3, up to 8 entries of 3 keys | `RangesAreExact` |
| pool | `BufferPool`, 3 pages in 2 frames, 2 guards per page, 3 accesses counted | `PagesAreKept` |
| plugins | `PluginManager`, 2 plugins of 2 versions, 3 operations, 2 restarts | `HelpersAreKept` |
| assistant | `AiRuns`, 1 run of 3 calls, 1 concurrent read, 2 pending approvals | `ApprovalsAreKept` |
| routine | `Plpgsql`, 1,720 bodies of up to three nested structures, 9 steps, nesting limit 3 | `RunsAsWritten` |

Why the bounds are enough for the question asked:

- *Locks*: two keys and three transactions give every pair of conflicting modes with a
  third party in the queue; two waiters of three transactions reach the limit, so that
  the refusal happens, and close every two-party deadlock, through held locks or through
  queue order.
- *Durability*: two pages are the smallest file in which a crash can fall between
  page writes; two transactions are enough for a winner after a loser, and for
  a second transaction to meet the leftovers of the first; one page beside two
  makes growth and shrinking happen. `CHECK_DEADLOCK FALSE` because a history ends
  when its transactions and crashes are used up.
- *Isolation*: every anomaly the properties exclude needs two rows and two transactions,
  the read-only anomaly three. Deadlock is checked: a history ends with all
  transactions ended, never with all of them waiting.
- *Sessions*: a reader, a waiting writer and a second reader or writer are what a lost wake-up
  or a circle of lock and gate needs; a queue of one overflows with the second message.
- *Pool*: two frames for three pages make every fetch an eviction while one page can stay
  pinned and both can.
- *Plugins*: two plugins race for one document; two versions give install, update and rollback;
  the second restart sees what the first left.
- *Connector*: the second call meets what the first, cancelled or dropped, left.
- *Assistant*: three calls are more than the limits of both tables, reads and approvals.
- *Wire*: two requests show what one leaves for the next; three messages in a batch put one
  before and one after an error.
- *Writers*: one session to hold lease, locks and savepoint, one to commit in between.
- *Catalog*: six statements are two more than the longest chain an edge takes part in (create the
  two ends, the link, drop one end).
- *Data root*: two crashes let one fall into the repair of the other; three plans let a receipt
  be older than the plan that ran.
- *Index*: eight entries of order three give three levels and keys that span leaves.

- *Execution*: tables of two or three rows give a group two spills, a run a merge beside another, a merge fan-in of two
  two passes; two partitions separate and join keys; every kind of join, subquery, aggregate and frame has a query.
- *Changes*: three rows of a table that refer to each other and four of another give chains of two cascades, two keys on one
  table and every action; two columns of a key each let ON CONFLICT choose; rows without a key become equal.
- *Routine*: three nested structures put an error, an EXIT or a CONTINUE of the innermost one beyond a
  structure to an outer one; nine steps are two turns of a loop with a handled error in each.

Every property of a passing run has a mutant in `PROJECT.json`: an operator that changes one
mapped definition as a plausible bug would, under which TLC finds the property violated.

### What the properties say

- `NoConflictingGrants`, `NoOvertaking`, `VictimsAreWaiting`, `WaitsEnd`: exclusion, no grant
  past an earlier conflicting request, no victim flag left for a later wait, every wait ends
  without help from timeouts (while at most two requests wait: see `lock_missed_deadlock`).
- `ImplementsDurableStore`: the refinement. `StoreIsLastCommitted`: with no commit running and
  nothing failed, the file and the published state are exactly the last committed database,
  whatever crashed. `AckedIsDurable`, `StatusAndLogAgree`:
  the contract between client, log and status document, failures included.
  `WalBeforeData`: no unsynchronised record behind a page that may be on disk, in the instances whose
  crashes are power losses.
  `RecoverySucceeds`, `RestartCompletes`: recovery never stops with an error, and ends.
- `OneVersionVisible`, `SnapshotStable`, `NoFracturedRead`: a statement sees one version of
  each row, keeps seeing it, and sees all or nothing of another commit, although a
  commit becomes visible in three steps. `NoLostUpdate`: a committed version follows the very
  version its statement read. `ConflictsAreKnown`: the SSI graph holds
  every tracked conflict, through savepoint rollbacks too, and forgets no record too early.
  `Serializable`: the direct serialization graph of the committed transactions is acyclic.
- `StreamsAreStable`: an open stream reads the generation it copied. `SleepersAreBlocked`: a
  sleeping thread is one the gate still has to hold back. `NotificationsArrive`:
  see section 1. `CommitsEnd`: no circle of lock, gate and streams.
- `LeaseIsOwned`: the lease belongs to a session that still knows it has it. `PublishKeepsCommitted`:
  a publication made under its lock contains all that was committed before.
- `InSync`: at ReadyForQuery nothing is left on the socket. `NoStaleCancel`: a query that was stopped by the
  flag was stopped by a CancelRequest that came after the client had begun to send its request, wherever it fell
  between the clearing of the flag, the registration and the end. `StateIsTheClients`:
  see section 1. `RequestsAndDisconnectsEnd`: a request the client has
  begun is answered or its connection ends, and a disconnection ends although drivers may never finish
  an execution nobody cancels. `AnswersAreOnesOwn`: until a call leaves something behind, every call gets
  its own answer, is told it was cancelled only if it was or its driver failed with 57014 by itself, and the
  connection is clean when it returns.
- `CatalogIsSound`, `RangesAreExact`, `DataRootIsKept`, `PagesAreKept`, `HelpersAreKept`,
  `ApprovalsAreKept`: see section 1. `RunsAsWritten`: the machine is where the lines say it should be, and its
  host holds the state copies of exactly the regions that are open.
- `QueriesAreExact`: the result of a query is what it means, for every division between memory and files, and it
  fails only with an error that is due; for queries whose equal join and group keys are written the same, with at most one
  spilled join (`SpilledJoinsAreExact` is the statement without the last condition).

- `ChangesAreExact` joins `StatementsAreExact` and `VersionsAreTheRows` of `Dml`: a statement that succeeds leaves the rows it
  means, however many of them were changed by a cascade or a trigger meanwhile; constraints hold and indexes are of these
  rows before every row; each row has one live version and no version ends twice; a statement that fails leaves nothing.

### Fairness

`LockManager!FairSpec`: weak fairness of the victim and grant turns, because waiters poll
(`poll_interval`), and of the release by a transaction that is not waiting, because
a session that is not blocked ends its transaction. Timeouts and cancellations are not assumed.
`MCDurability!CrashSpec`: weak fairness of recovery as a whole, because `Engine::open` runs it
to its end; crashes are bounded. `Sessions`: a thread that can run does (the operating system
schedules it), and a client that asked for rows reads or drops its stream. `Wire`: the connection's
thread runs, and the client reads what it is sent and continues the exchange it began.
`ConnectorSession`: calls that can go on do, the helper's two tasks run, and an execution whose token is
cancelled ends; an execution that is not cancelled need not. No liveness is
claimed elsewhere.

### Findings

Runs that are expected to end in a violation, each of one property. `PROJECT.json`
quotes the test or document that promises the property.

- `lock_missed_deadlock`: T1 holds row 2, T2 row 1; T1 waits for row 1, T3 for row 2,
  and T2 queues for row 2 behind T3. One search sees two cycles and picks the youngest, T3;
  T1 and T2 then wait for each other until the lock timeout.
- `durability_aborted`: a commit that fails while logging its page records is aborted without
  compensation records. At the next restart it is no loser, so it is not undone, but
  its page records are redone: failed writes appear.
- `isolation_pivot`: `SsiManager::commit` refuses a pivot only if its incoming reader has
  already committed. If the pivot commits first, the reader's own commit is not
  checked against it, and a cycle of three commits.
- `sql_writers_lost`: a procedure that commits in its body copies the base of its next segment and
  only then takes lease and lock; a row committed in between is missing from what it publishes.
- `execution_spilled_joins`: all hash joins of a query name their partition files `hash-join-{p}.spill`. The second one
  that spills truncates the first one's table; the first then finds rows of the other table, or none.

### Other disagreements

The models show these too, or they were met while modelling. They have no run of their own; the
instance that shows one is named where there is one, and the model otherwise leaves the
behaviour in, with a ghost variable that takes it out of the property concerned.

*Durability.* (1) With a file that may grow (`PageCounts = {1, 2}`) and a crash inside recovery,
recovery extends the file for a growing loser and is interrupted; the next one measures the longer
file, finds no Resize record, keeps the length, and the store refuses to load (`RecoverySucceeds`).
(2) A commit that fails after its status was written stays a loser in the log; the next restart
undoes it over later commits (`RecoveredIsLastCommitted`, `Failures = {"process", "committed"}`,
two transactions). (3) After a process crash `WalManager::open` takes the unsynchronised
tail as durable; redo writes pages whose records a power loss then removes
(`Failures = {"power", "process"}`, two crashes). (4) A Begin record whose flush fails makes every
later BEGIN fail until a restart (`status.rs:96`, `manager_and_codec.rs:697`). (5) Off Windows,
`atomic_replace` removes the target before it renames, in the status store and in the cluster
directory, so that a crash between leaves neither.

*Isolation.* (6) Ids are given out by the status store and registered later: two overlapping BEGINs
give a Repeatable Read snapshot that does not list a lower id as in progress (`SnapshotStable`, a
set-up with `overlap = {"begin"}`). `Serializable` also fails with (7) `overlap = {"commit"}`: a
committing transaction cleans up its own SSI record while a BEGIN still counts it as
concurrent; (8) savepoints: ROLLBACK TO drops the record of reads the client has seen;
(9) `Kinds = {"scan"}` with one table: UPDATE and DELETE record no read for their WHERE clause.

*Sessions.* (10) A session that commits while its own stream is open waits for itself, holding
the state lock (`OpenStreams = TRUE`, a deadlock). (11) An automatic checkpoint that fails after
a commit makes the statement fail and its notifications are never handed over. (12) Notifications of
two commits may arrive in the other order. (13) VACUUM's horizon counts every registered transaction.

*SQL writers.* (14) ROLLBACK TO SAVEPOINT after a refused upgrade restores DML whose locks were given
back. (15) Catalog effects of triggers and functions in a DML transaction are lost by
`merge_dml_candidate`. (16) DDL after ROLLBACK TO over an upgrade is refused by the session's own
lease (`writer.rs:67`).

*Wire.* (17) A COPY IN over its limit is given up while data is on the way; the rest arrives as
unexpected messages. (18) Parse of ROLLBACK in a failed transaction is refused
(`session_lifecycle.rs:35`). (19) COPY TO neither resets the cancellation flag nor registers, so a
cancellation meant for it can stop what follows. (20) When the implicit COMMIT of a COPY
fails, the session is left in a failed transaction. (21) A completed statement may still be reported
as cancelled. A CancelRequest is not tied to a query: it stops the next statement of the same request when the one it was
meant for has just ended, and also one that has cleared the flag and is not registered yet
(`query_and_copy_stream.rs:137`, `:301`). A statement that raises 57014 itself is recorded as cancelled
(`query_and_copy_stream.rs:549`). (22) A re-Execute after a failed start, and an error in a portal's
`check_cancelled`, leave a query registered. (23) An authorization error does not fail the transaction.

*Catalog.* (24) CREATE OR REPLACE FUNCTION and ALTER SEQUENCE call `dependencies.remove`, which drops
the edges of those who depend on the object too (`constraints_and_relations.rs:407`, `:666`).
(25) A foreign key depends on table and columns, not on the unique index, so that the referenced key
can be dropped. (26) A constraint's index is found by the constraint's name. (27) A dropped column leaves
the ownership of its indexes. (28) DROP TYPE CASCADE can remove a table's only column
(`tables_and_indexes.rs:396`). (29) DROP FUNCTION CASCADE that takes a materialized view leaves its
backing table (`bound_execution_and_routines.rs:399`). (30) Views record tables, not columns: DROP
COLUMN RESTRICT does not see them.

*Data root.* (31) A crash of the first initialization leaves a root that is not empty and has no
authority; every later start refuses it. (32) A crash between the pointer's switch and `Completed`
leaves the journal incomplete for ever. (33) No lock keeps two tools, or a tool and a server, apart;
either pair can lose writes. (34) Roles changed under v2 do not bump the generation, so a rollback
drops them. (35) `restore_archive_atomic` can crash between its two renames and leave no data.

*Connector helpers.* (36) Two operations, or an operation and a rollback, each clone the state, store their
copy and overwrite the state in memory without holding the lock across: the later one undoes the earlier,
for another plugin too (`raced`). (37) `catalog_item` reports the lifecycle of an operation that is
over. (38) A cached catalog can install an older version over a newer one by "Install".

*Connector session.* (39) A Cancel that arrives after the execution has ended is answered with an Error 42704
that carries its id; the host has already removed the id, so the next call fails with 08P01 and every answer after
it is one behind. (40) `select!` drops a half-read frame when the cancellation wins, and the rest is read as a new frame.
(41) A tool of the assistant that times out or is cancelled drops the future that holds the host: Cancel
is never sent, the execution goes on, and its answers meet the next call. (42) An execution registered after disconnect
collected the registered ones is not cancelled, and disconnect waits for it. (43) A cancelled call that waits
behind a long one ends only after it. An execution nobody cancelled is answered with Cancelled when its driver fails with
57014 by itself (`named_pipe_runtime.rs:498`; ClickHouse after HTTP 408 or 504, `catalog_errors_and_tests.rs:267`).

*Assistant.* (44) Between a cancelled token and a ready lock `select!` may take the lock: a mutation may start after
`cancel_run` has returned. (45) A mutation dropped by its time limit or by the cancellation has no outcome in the
audit, though its statement may go on. (46) The mutation lock is one per run: two runs may change one database
at the same time.

*PL/pgSQL.* (47) `handle_error` clears the states of all loops, so that an error handled inside a FOR loop ends it:
the next turn fails with XX000 "iterator state is missing". (48) CONTINUE out of a protected block inside WHILE or
LOOP leaves the block's region active. (49) A query loop left by an error keeps its state, and
`ensure_transaction_boundary_ready` then refuses COMMIT. (50) A bare RAISE re-raises the error that was handled
last, not that of its own handler. (51) An integer FOR up to the largest bigint ends with 22003. (52) A
CONSTANT that is declared in a block inside a loop fails with 22005 the second time. (53) A second ELSE, ELSIF after
ELSE, statements before the first WHEN of a CASE, and control structures between EXCEPTION and WHEN are accepted.
(54) A CASE without a match falls through. (55) A handled error closes cursors that were opened outside its
block. (56) Every EXCEPTION section outside a nested scope has slots for sqlstate and sqlerrm of its own but only
the last ones are written.

*Query execution.* (57) SUM over int2, int4 or float4 widens with the second value, so that merging a partial of one row
into one of several fails with 42804 (`read_and_merge_groups`). (58) Hash joins and hash partitions compare
the JSON encoding of keys: 1.0 and 1.00, 0.0 and -0.0, and equal intervals match in a nested loop and in groups held
in memory where `Value` equates them, but not in a hash join or across spilled partitions. (59) Floats that are not finite are written to
spill files as null. (60) An uncorrelated scalar subquery of several rows fails although no outer row needs it
(`plans_and_cursor.rs:301`). (61) A RANGE offset near the limits of the integers fails with 22003, and NTH_VALUE with NULL fails
with 22013.

*Changes of rows.* (62) `apply_referential_actions` compares old and referring values with NULL equal to NULL: when the
referenced unique key is NULL, deleting that row deletes or refuses for children whose foreign key is NULL
(`explain_update_and_views.rs:798`). (63) A MERGE whose rows are all suppressed by row triggers, without statement triggers,
is not dirty, and what its triggers have written is dropped (`plpgsql_host_and_merge.rs:632`). (64) UPDATE finds each row by
equality, so that in a table without a key the versions of two equal rows may be exchanged, and a concurrent change of the
other one is taken for a conflict. (65) Constraints are checked after every row: `SET k = k + 1` over neighbouring
keys and rows of one statement that refer to each other fail. (66) Referential actions fire no triggers on the referring rows. (67) A
cascade into the statement's own table changes rows it has yet to reach; UPDATE and DELETE then fail with 55000.
## 4. Proofs

| theorem | module | statement |
|---|---|---|
| `TypeCorrect` | `LockManagerProofs` | `Spec => []TypeOK` |
| `Exclusion` | `LockManagerProofs` | `Spec => []NoConflictingGrants` |
| `NoStaleVictims` | `LockManagerProofs` | `Spec => []VictimsAreWaiting` |
| `QueueOrder` | `LockManagerProofs` | `Spec => NoOvertaking` |
| `GateTypeCorrect` | `SessionsProofs` | `GateSpec => []GateTypeOK` |
| `WriterAlwaysAlone` | `SessionsProofs` | `GateSpec => [](WriterIsAlone /\ LeasesAreCounted)` |
| `NoLostWakeup` | `SessionsProofs` | `GateSpec => []SleepersAreBlocked` |
| `SessionsTypeCorrect` | `SessionsProofs` | `Spec => [](SessionsTypeOK /\ GateTypeOK)` |
| `SessionsUseTheGate` | `SessionsProofs` | `Spec => GateSpec` (refinement) |
| `SessionsSleepForAReason` | `SessionsProofs` | `Spec => []SleepersAreBlocked` |
| `StreamsStayStable` | `SessionsProofs` | `Spec => []StreamsAreStable` |
| `WritersTypeCorrect` | `SqlWritersProofs` | `Spec => []WritersTypeOK` |
| `LeaseIsAlwaysOwned` | `SqlWritersProofs` | `Spec => []LeaseIsOwned` |
| `ExclusiveIsAlone` | `SqlWritersProofs` | `Spec => []LocksAgree` |
| `PublishingIsMonotone` | `SqlWritersProofs` | `Spec => PublishKeepsCommitted` |
| `EndsAgree` | `WireProofs` | `Spec => []InSync` |
| `CancelsAreFresh` | `WireProofs` | `Spec => []NoStaleCancel` |
| `ServerHoldsWhatTheClientDoes` | `WireProofs` | `Spec => []StateIsTheClients` |
| `AnswersStayOnesOwn` | `WireProofs` | `ConnectorSpec => []AnswersAreOnesOwn` |
| `PoolTypeCorrect` | `ComponentProofs` | `PoolSpec => []PoolTypeOK` |
| `PoolKeepsPages` | `ComponentProofs` | `PoolSpec => []PagesAreKept` |
| `ApprovalsAreAsked` | `ComponentProofs` | `AiSpec => []ApprovalsAreKept` |
| `HelpersStay` | `ComponentProofs` | `PluginSpec => []HelpersAreKept` |
| `RootIsKept` | `ComponentProofs` | `RootSpec => []DataRootIsKept` |
| `CoreInvariant` | `DurabilityProofs` | `Spec => []Core` |
| `CommitsAreDurable` | `DurabilityProofs` | `Spec => []AckedIsDurable` |
| `StatusesAreInTheLog` | `DurabilityProofs` | `Spec => [](StatusBeforeCommit /\ StatusMatchesWal)` |
| `ReconciliationSucceeds` | `DurabilityProofs` | `Spec => [][reconcile_with_wal => mode' = "up"]_vars` |
| `DurabilityTypeCorrect` | `DurabilityProofs` | `Spec => []TypeOK` |
| `StatusesAndLogAgree` | `DurabilityProofs` | `"begin_flush" \notin Failures` implies `Spec => []StatusAndLogAgree` |
| `DataFollowsTheLog` | `DurabilityProofs` | `"process" \notin Failures` implies `Spec => []WalBeforeData` |
| `RecoveryInvariant` | `RecoveryProofs` | `OneSize`, `OneKindOfCrash` imply `Spec => []RecoveryIsRight` |
| `TheStoreIsLastCommitted` | `RecoveryProofs` | the same imply `Spec => []StoreIsLastCommitted` |
| `RestartsServeLastCommitted` | `RecoveryProofs` | with no `"active"`, `"committed"` failure, `Spec => []RecoveredIsLastCommitted` |
| `RestartsSucceed` | `RecoveryProofs` | with no `"active"`, `"committed"` failure, `Spec => []RecoverySucceeds` |
| `TheEngineIsADurableStore` | `RecoveryProofs` | with no `"active"`, `"committed"` failure, `Spec => ImplementsDurableStore` (refinement) |
| `IsolationInvariant` | `IsolationProofs` | `Spec => []IsolationInv` |
| `IsolationTypeCorrect` | `IsolationProofs` | `Spec => []TypeOK` |
| `UpdatesAreNotLost` | `IsolationProofs` | `Spec => []NoLostUpdate` |
| `ConflictsAreRecorded` | `IsolationProofs` | `Spec => []ConflictsRecorded` |
| `ConflictsStayKnown` | `IsolationProofs` | `SerializableCommitsAlone /\ Spec => []ConflictsAreKnown` |
| `SeesInvariant` | `IsolationProofs` | `BeginsAlone /\ Spec => []SeesInv` |
| `OneVersionIsVisible` | `IsolationProofs` | `BeginsAlone /\ Spec => []OneVersionVisible` |
| `SnapshotsAreStable` | `IsolationProofs` | `BeginsAlone /\ Spec => []SnapshotStable` |
| `ReadsAreNotFractured` | `IsolationProofs` | `BeginsAlone /\ Spec => []NoFracturedRead` |

`LockManagerProofs` holds for any set of transaction ids, any requests and any bounds
(the `ASSUME`s of `LockManager`: ids are naturals, a request is a key and a mode, the bounds
are naturals):

- `TypeOK` is inductive as it stands. `DropAtFacts` and `RemoveWaiterType` say what removing
  one request does to a queue; each action then has one step in `TypeStep`.
- Exclusion: `NoConflictingGrants` is inductive with `TypeOK`. A lock is added only when
  `holders_compatible`, and `compatible` is the complement of `Conflict` on modes
  (`CompatibleModes`), so a grant keeps exclusion (`GrantKeepsExclusion`) and every
  other step only removes locks (`FewerGrantsKeepExclusion`).
- No stale victims: a new victim is on a cycle, so it waits for somebody, so it is queued
  (`VictimFacts`). When a request leaves a queue every other transaction stays queued
  (`OtherVictimsStay`, from `RemoveWaiterKeeps`). The turns that take a request out without
  clearing the flag are not open to a victim: this is where the order of the checks matters.
- Queue order is an action property: each granting step has the guard that the request
  found the queue empty or is compatible with everything before it.

`SessionsProofs` begins with the gate, for any finite set of threads (`GateAssumption`). The code tests counters
where the properties speak of threads, so the inductive invariant `GateInv` joins types,
`LeasesAreCounted` (each counter is the number of threads in the place it counts), `WriterIsAlone`
and `SleepersAreBlocked`. `MoveCounts` says what the move of one thread does to two head counts,
`CountIsZero` that a counter of zero means an empty place; `ReadGranted` and `WriteGranted` are the
two acquisitions, which a first call and a woken thread share; `GateStep` has one step per
action. For `NoLostWakeup` the case that matters is a drop that leaves the gate open: it is the
one that calls `notify_all`.

Then the sessions, for any finite set of clients and any number of their streams. A session
touches the gate only through the gate's operations, so each step of `Sessions` is a step of the
gate or leaves it alone (`GateIsRefined`), and the theorems of the gate hold for sessions without
being proved again. `StreamsAreStable` needs `WriterIsAlone`: a generation is published only by
the holder of the write lease, and an open stream holds a read lease.

`SqlWritersProofs` holds for any sessions, statements, procedures and savepoints. The states are sets
of effects (`WritersAssumption`: the bounds are naturals, `None` is no session and no state).
`WritersInv` says of each session what its phase allows its transaction record to be
(`PhaseAgrees`), which gives `LeaseIsOwned` on every path that ends early; and how a candidate
relates to the published state (`CandidateAgrees`, and `SavepointAgrees` for what ROLLBACK TO
restores): a base of the current generation is the published state, and a candidate that will
replace it contains it, because its session has held `LockKey::Database` exclusively since it was
made. `PublishKeepsCommitted`, an action property, follows. The property has the two
exceptions of the disagreements 14 and 15.

`WireProofs` holds for any queries (nonempty lists of statements), any extended requests on any
names and any number of COPY chunks (`WireAssumption`). `WireInv` has five parts: `WireTypes`;
`TransactionInv` (the status the client was told, and the server's); `RegistryInv` (what is in the
registry is what the connection runs or holds in a portal); `CancelInv` (while the flag is
set, the last CancelRequest came after every query so far had cleared it); and `SyncInv`, which describes the
two directions of the socket in each of nine phases of a request and is what makes
`InSync` inductive. Each part is shown for a handful of *moves*, and a lemma per group of
actions says which moves they are (`ClientMovesAre`, `CopyMovesAre`, ...).

The same module has the connector's helper, for any calls, events and dropped calls; the name of `disconnect`
among the waiters is no call's (`CallsAssumption`). `ConnectorInv` says nothing once a call has left
something of itself behind (`unclean`: a tool call dropped while it receives, a frame read in part, a
cancellation that comes too late); the code then reports an error of its own. Until then (`Clean`) only
who has the host's turn receives (`Turns`), everything under way is the receiver's and of the kind it has asked
for (`Ours`), its request is in one place only and its last answer is the last on the pipe (`OnePlace`), and
tokens are those of calls that were cancelled, and only these and executions given up by their driver are reported so
(`Tokens`, `Excused`). `OnePlace` is what makes it inductive: it is why
the pipe is empty when a call returns and the next one sends.

`ComponentProofs` has the buffer pool, for any set of page numbers with page 0 and any number of frames
(`PoolAssumption`), and the assistant, the connector helpers and the data root, each for any values of its
constants. `PoolInv` joins to `PagesAreKept` the types
and `Owed`: a page that was ever written is in a frame or in the file. `AiInv` adds to `ApprovalsAreKept` what each phase of a call
has on record (`CallsFollowTheRun`) and that a stored decision is the user's
(`DecisionsAreTheUsers`).

`ManagerInv` of the connector helpers has two layers. Whatever races: every state document, the file and each
copy that a task or `rollback` holds included, *fits* the version directories (`Documents`, with
`Fits` for one plugin), because a version is renamed into place before the copy that names it is made and
directories are never removed; and nothing runs before `open` is done (`Opening`). Unless two copies were
under way at once, `OneCopy`: the only copy there is differs from what was promised in its own plugin only. The
condition `~raced` is part of the property: the document is copied under a lock that is not kept until it is stored.

`RootInv` of the data root says where acknowledged writes are (`Kept`): in the v1 file while there is no
pointer, in the cluster it names otherwise, and still in the v1 file while the generation of a migrated
cluster has not moved, which is what makes `rollback_v2_to_v1` safe. `Migrating` says what the
tool has established before each phase: from `RollbackRetained` on the v1 file is what was read, so the
candidate built from it holds every write when the pointer moves.

`IsolationProofs` holds for any number of transactions, any nonempty set of rows and any set of
set-ups: levels per transaction, statements, savepoints, limits and overlaps (`NAssumption`,
`RowAssumption`, `KindAssumption`, `SetupAssumption`). It works by moves as well. The
unconditional invariant `IsolationInv` is

- `IdsInv`: ids are given out in order, a registered id is below `next_transaction_id`, and a snapshot lists
  only transactions between its `xmin` and `xmax`;
- `ChainsInv`: every version has a committed creator (`CreatorsCommitted`) and no creator is twice in a
  chain; every base, also one in a savepoint, is a prefix of its chain (`BasesWerePublished`); a
  write replaces the last version of its base (`WorkIsOnBase`); one transaction at a time is
  between its merge and its publication (`OneWriter`), and its bases still end their chains
  (`MergedIsLatest`). What it then appends follows what it replaced, which is `NoLostUpdate`;
- `SsiInv`: the graph is symmetric and joins known records (`Graph`), a running serializable transaction
  has a record (`Tracked`), a deferrable transaction reads nothing before its snapshot is safe, and
  `ConflictsRecorded`. `AddKeepsGraph`, `RemoveKeepsGraph`, `ReadGraph`, `WriteGraph` and
  `RollbackGraph` say what the operations of the manager do to the graph.

Two results hold only for histories without an overlap that the code allows, and the condition is a
hypothesis about the constant `Setups`; in each case the run of the disagreement shows that
without it the property is false. `SerializableCommitsAlone` (disagreement 7) is what
`ConcurrentRecordsKept` needs: `RecordsInv` relates the snapshots of active transactions to the horizon
that `cleanup_before` uses, so that the records it takes are of transactions that everybody
running sees. `BeginsAlone` (disagreement 6) is what the three properties of reads need: `SeesInv`
says that a snapshot shows a prefix of every chain (`ChainsInOrder`), that who has not committed is in
nobody's snapshot (`UnendedUnseen`), and that from the first read or write on, no commit
that the snapshot would show is under way (`AnchorsHold`). BEGINs that overlap COMMITs are
allowed by it. Every set-up of the run `isolation` satisfies both conditions, and TLC has found `SeesInv`
to hold on it. `Serializable` itself is false (run `isolation_pivot`), and so there is no theorem about it.

`DurabilityProofs` holds for any number of pages, transactions, crashes, failed calls and checkpoints and
any page counts (`DurabilityAssumption`). Five invariants, each on top of the ones before it:

- `Core`: the types; every record refers to earlier records only (`Linked`), as do the running
  checkpoint and recovery (`Pointers`); one commit runs, and only while the engine is up (`Owners`); who
  has begun is in the log (`Begun`); and the pages of the running commit that are not on
  its list are logged (`PagesLogged`), so that `apply_prepared` finds the LSN it writes;
- `CommitIsLogged`: what the running commit has appended, and whether the flush that is due will be
  skipped. `sync_locked` compares the requested LSN with `durable_lsn`, which after a restart may be beyond what
  is certain; the Commit record is new, so it is beyond `durable_lsn` and the flush happens. Hence
  `AckedIsDurable`. A restart cuts the log at `synced` at the earliest;
- `Agreement`: a retained transaction with a Commit record, or about to write one, is Committed in memory and in the
  document (a crash may follow at once); one still at work is not, so a status that says Committed with nobody
  driving it has its record (`Settled`). `Floors` keeps ids and floors in order. It gives
  `StatusBeforeCommit` and `StatusMatchesWal`, and that `reconcile_with_wal` never meets the contradiction it reports;
- `Fresh` and `Trusted`, each for the failures it can stand. `Fresh`, the next id against the
  log, is false after a Begin record that could not be flushed (disagreement 4 of *Durability* in section 3),
  and `Trusted`, the write-ahead rule through `flush_page`, redo and undo, after a crash of the
  process alone (disagreement 3): the hypotheses exclude exactly these;
- `Contents`, which gives `TypeOK`: the content of a page, a record or a database is one some transaction
  wrote. A database is published only from a file that can be read. Recovery ends with that check, but not when
  the log is empty; `Untouched` covers that case: `begin_durable` flushes, so
  before the first flush nothing has been written to the file since it was last synchronised.

`RecoveryProofs` shows that recovery is right, by one argument about prefixes of the log, since a prefix is what a power
loss leaves. `At(w, p, m)` is the image of page `p` that redo of the first `m` records leaves and
`Author(w, m)` the last transaction among them that committed changes; `Sane` says of every prefix that at most one
transaction is open at its end, and that each page is its author's, or changed by who is open, with a
before image that is its author's. A prefix says nothing about what follows it (`SamePrefixes`), so a crash does not
disturb `History`. What remains relates the file and the memory to the log (`RecoveryInv`):

- `Kept`: every version of a page that a crash may leave is an image of the part of the log that is certain
  then (the write-ahead rule: this is where `Trusted` is used). `Covered`: where a checkpoint
  begins, a page outside its table is on the disk as the log has it, or a later record changes it, so redo starts early enough.
  `Tables`: no recLSN in the dirty page table is beyond the last record of its page;
- `Quiet`, `Committing`, `Serving`: who has not begun to commit has logged no page; which pages of the running
  commit are logged, written, and on the disk after each of its steps; and what is published when there is none;
- `Restarting`: redo has still to pass the last record of every page that is not up to date (`Redoing`), and
  undo has still to put back exactly what lies behind its pointer (`Undoing`), compensation records included. Both are
  stated over the log alone, so a crash inside recovery needs no case of its own.

The hypotheses leave out the disagreements of *Durability* in section 3 at which the properties fail:
`OneSize` databases whose file grows or shrinks (disagreement 1; for those without it, `Resize` records and the final `set_len`
are model-checked), `OneKindOfCrash` logs in which a crash of the process precedes a power loss
(disagreement 3), and the failures `"active"` and `"committed"` commits that fail after they have logged a page
(disagreement 2, the state in which `durability_aborted` violates `RecoveredIsLastCommitted`). With these failures
`RecoveryIsRight` claims the invariant up to the first one, which is enough for `StoreIsLastCommitted`.
Page numbers, transactions, crashes, checkpoints, and failures of BEGIN and of
ROLLBACK are unrestricted. TLC found `RecoveryInv`, and the invariants of the refinement, to hold on small instances before they were proved.

The refinement reads the history off the log: the n-th Commit record with page records before it (`Nth`, `HistoryOf`).
`commit_append` is `Commit`, `publish_prepared` is `Answer`, a crash is `Crash`,
`reconcile_with_wal` is `Restart`, and every other step, redo and undo included,
leaves what a client sees as it is. It needs `Named` (a candidate is told from the others by the id on its metadata
page, and ids are not given out twice), `Shown` (readers see the last committed database until the running commit
publishes its own) and `Answered` (nobody was answered who is not in the history, from `CommitsAreDurable`).

TLC evaluates every `ASSUME` the proofs use, in a run of a module that extends the one that states it.

Only model-checked:

- liveness (`WaitsEnd`, `RestartCompletes`, `CommitsEnd`, `RequestsAndDisconnectsEnd`): fairness and ENABLED are out of the prover's reach;
- `DeadlockHasVictim` and `Serializable`, which do not hold for every value of the constants;
- what recursive definitions and folds compute: `Execution`, `Dml`, `Plpgsql`, `BTree`, `Catalog` (`QueriesAreExact`,
  `ChangesAreExact`, `RunsAsWritten`, `RangesAreExact`, `CatalogIsSound`), and the queues of the broker in `Sessions`
  (`NotificationsArrive`). The
  induction theorems take an operator as a parameter, which the provers cannot instantiate;
- `StoreIsLastCommitted`, `RecoverySucceeds` and `ImplementsDurableStore` for a database whose page count changes
  (the `resizing` instance of `MCDurability`).

## 5. Hazards without a property

- *A corrupt record in the middle of the log* (`manager_and_codec.rs:573`): `scan_file` cuts an incomplete
  last record and refuses a complete one with a wrong checksum. Which of the two a torn write produces
  depends on bytes, which `Durability` does not have.
- *A deferrable transaction that never starts* (`state_and_lifecycle.rs:350`): it waits until no serializable
  writer is active, and overlapping writers can keep it waiting for ever. That is what the code does, and
  no test or document promises otherwise.
- *VACUUM renumbers versions* (`persistence_and_transaction_commands.rs:568`): open transactions hold bases
  that number the versions as before. VACUUM is not modelled yet.

## 6. Not modelled

- *System catalog*: read-only relations derived from a database state; nothing is kept between two reads.
- *SQL front end*: parsing, dialect normalisation and binding are functions of the statement and the catalog,
  without state. Their hazards are in typing and syntax, which abstract data does not show.
- *Optimizer*: costs over statistics in floating point, except the choice of the join strategy, which `Execution` has.
- *Full text and vector search*: ranking and graph search with floating-point scores.
- *Query execution*: that a query ends is not stated: the fairness condition needs ENABLED of steps with large
  choices, which TLC does not evaluate in reasonable time. The loops of the model are bounded by its rows.
- *Server and Windows service*: start and stop appear in `Migration`, `Sessions` and `Wire`; the rest is
  calls of the service manager and the installer.
- *Command line*: a terminal interface over the wire protocol, whose client `Wire` has.
- *Shared types*: values and errors.

Of the components listed as partly modelled, `PROJECT.json` names what each leaves out.

## 7. Plan

Proofs: recovery of a file that grows and shrinks; what a commit that failed with logged pages leaves. Modules: VACUUM beside open bases; role store and the registry of long operations; archives; the
tail of the log at the level of bytes; the desktop's workspace documents; the console's stores.
