------------------------------ MODULE SqlWriters ------------------------------
(***************************************************************************)
(* How the sessions of ordadb-engine turn statements into a new published  *)
(* state: DML, which is merged into the latest state at COMMIT, and the    *)
(* exclusive statements (DDL, sequences, VACUUM), which replace it and so  *)
(* hold the writer lease (WriterCoordinator) and LockKey::Database in      *)
(* Exclusive mode.  A transaction that has done DML and then DDL is        *)
(* upgraded from one to the other, ROLLBACK TO SAVEPOINT may take it back, *)
(* and a procedure commits segment by segment.                             *)
(*                                                                         *)
(* A database state is the set of the effects it contains.  An effect is   *)
(* of the rows or of the catalog (a sequence's value, a definition): the   *)
(* merge of DML takes over the tuple versions and nothing else.  Row       *)
(* conflicts are the subject of Isolation; here every DML statement        *)
(* touches rows of its own.                                                *)
(***************************************************************************)
EXTENDS Naturals, Sequences, FiniteSets

CONSTANTS
    Sessions,
    None,
    MaxEffects,  \* bound: statements that change something
    MaxSavepoints

\* An effect has a number and a kind; a database state is a set of effects.
States == SUBSET ((1..MaxEffects) \X {"row", "catalog"})

ASSUME WritersAssumption ==
    /\ MaxEffects \in Nat /\ MaxSavepoints \in Nat
    /\ None \notin Sessions /\ \A state \in States : None # state \* Option::None

VARIABLES
    published,    \* the committed DatabaseState
    generation,   \* its generation
    owner,        \* WriterCoordinator.owner
    tx,           \* a session's transaction or procedure coordinator
    pc,           \* what its thread is doing
    statement,    \* the effects and the snapshot of the statement it runs
    effects,      \* bound
    committed,    \* ghost: the effects of every transaction that committed
    exposed       \* ghost: a transaction published its work without a lock

vars == <<published, generation, owner, tx, pc, statement, effects, committed, exposed>>

Idle == [mode |-> "idle", base |-> None, base_generation |-> 0, working |-> None,
         dml_only |-> TRUE, lease |-> FALSE, locks |-> << >>, saves |-> << >>,
         failed |-> FALSE, later |-> FALSE, level |-> "read_committed"]

NoStatement == [snapshot |-> {}, adds |-> {}, at |-> 0]

Init ==
    /\ published = {} /\ committed = {}
    /\ generation = 0 /\ effects = 0
    /\ owner = None /\ exposed = FALSE
    /\ tx = [s \in Sessions |-> Idle]
    /\ pc = [s \in Sessions |-> "ready"]
    /\ statement = [s \in Sessions |-> NoStatement]

(***************************************************************************)
(* Locks, the lease and the merge.                                         *)
(***************************************************************************)
Holds(s, mode) == \E i \in DOMAIN tx[s].locks : tx[s].locks[i] = mode

\* LockKey::Database can be granted.
Grantable(s, mode) ==
    \A other \in Sessions \ {s} :
        ~Holds(other, "Exclusive") /\ (mode = "Exclusive" => tx[other].locks = << >>)

\* merge_dml_candidate: the latest state with the transaction's tuple versions.
Merge(state, base, working) ==
    state \union {e \in working \ base : e[2] = "row"}

Snapshot(s) == IF tx[s].working = None THEN published ELSE tx[s].working

\* A statement's effects: a trigger may add to the catalog what the statement
\* itself does not (a sequence it advances).
NewEffects(kinds) == {<<effects + 1, kind>> : kind \in kinds}

Reset(s) == tx' = [tx EXCEPT ![s] = Idle]

Goto(s, phase) == pc' = [pc EXCEPT ![s] = phase]

ReleaseLease(s) == owner' = IF tx[s].lease THEN None ELSE owner

\* persist_candidate: the candidate becomes the published state.
Publish(candidate, own) ==
    /\ published' = candidate
    /\ generation' = generation + 1
    /\ committed' = committed \union own

Unpublished == UNCHANGED <<published, generation, committed, exposed>>

(***************************************************************************)
(* BEGIN, SAVEPOINT, ROLLBACK TO, ROLLBACK.                                *)
(***************************************************************************)
begin_sql_transaction(s) ==
    /\ tx[s].mode = "idle" /\ effects < MaxEffects
    /\ \E level \in {"read_committed", "repeatable_read"} :
          tx' = [tx EXCEPT ![s] = [Idle EXCEPT !.mode = "tx", !.level = level]]
    /\ UNCHANGED <<owner, pc, statement, effects>> /\ Unpublished

Active(s) == tx[s].mode = "tx" /\ pc[s] = "ready"

create_sql_savepoint(s) ==
    /\ Active(s) /\ ~tx[s].failed /\ Len(tx[s].saves) < MaxSavepoints
    /\ tx' = [tx EXCEPT ![s].saves = Append(@,
                [base |-> tx[s].base, base_generation |-> tx[s].base_generation,
                 working |-> tx[s].working, dml_only |-> tx[s].dml_only,
                 lock_len |-> Len(tx[s].locks)])]
    /\ UNCHANGED <<owner, pc, statement, effects>> /\ Unpublished

Truncated(locks, length) == SubSeq(locks, 1, IF length < Len(locks) THEN length ELSE Len(locks))

\* A rollback that keeps the lease whatever the savepoint was.
rollback_to_sql_savepoint_leased(s) ==
    /\ Active(s) /\ tx[s].saves # << >>
    /\ LET saved == tx[s].saves[Len(tx[s].saves)]
       IN tx' = [tx EXCEPT
            ![s].base = saved.base, ![s].base_generation = saved.base_generation,
            ![s].working = saved.working, ![s].dml_only = saved.dml_only,
            ![s].locks = Truncated(@, saved.lock_len), ![s].failed = FALSE]
    /\ UNCHANGED <<owner, pc, statement, effects>> /\ Unpublished

\* The savepoint stays; the lease goes when nothing is left to publish.
rollback_to_sql_savepoint(s) ==
    /\ Active(s) /\ tx[s].saves # << >>
    /\ LET saved    == tx[s].saves[Len(tx[s].saves)]
           unleased == saved.working = None
       IN /\ tx' = [tx EXCEPT
                ![s].base = saved.base, ![s].base_generation = saved.base_generation,
                ![s].working = saved.working, ![s].dml_only = saved.dml_only,
                ![s].locks = Truncated(@, saved.lock_len),
                ![s].lease = @ /\ ~unleased, ![s].failed = FALSE]
          /\ owner' = IF unleased /\ tx[s].lease THEN None ELSE owner
    /\ UNCHANGED <<pc, statement, effects>> /\ Unpublished

release_sql_savepoint(s) ==
    /\ Active(s) /\ ~tx[s].failed /\ tx[s].saves # << >>
    /\ tx' = [tx EXCEPT ![s].saves = SubSeq(@, 1, Len(@) - 1)]
    /\ UNCHANGED <<owner, pc, statement, effects>> /\ Unpublished

rollback_sql_transaction(s) ==
    /\ Active(s) \/ tx[s].mode = "failed"
    /\ Reset(s) /\ ReleaseLease(s)
    /\ UNCHANGED <<pc, statement, effects>> /\ Unpublished

(***************************************************************************)
(* DML inside a transaction.                                               *)
(***************************************************************************)
CanRun(s) == Active(s) /\ ~tx[s].failed /\ effects < MaxEffects

\* refresh_read_committed_candidate, at the start of every statement.
Refreshed(s) ==
    IF tx[s].dml_only /\ tx[s].level = "read_committed" /\ tx[s].working # None
    THEN [tx[s] EXCEPT !.base = published, !.base_generation = generation,
                       !.working = Merge(published, tx[s].base, tx[s].working)]
    ELSE tx[s]

\* The candidate is computed on the snapshot; then the locks it needs are taken.
dml_statement(s) ==
    /\ CanRun(s)
    /\ tx' = [tx EXCEPT ![s] = Refreshed(s)]
    /\ \E kinds \in {{"row"}, {"row", "catalog"}} :
          statement' = [statement EXCEPT ![s] =
              [snapshot |-> IF tx[s].working = None THEN published ELSE Refreshed(s).working,
               adds |-> NewEffects(kinds), at |-> generation]]
    /\ effects' = effects + 1
    /\ Goto(s, "dml_lock")
    /\ UNCHANGED owner /\ Unpublished

\* acquire_dml_locks skips a key the transaction already has.
dml_locked(s) ==
    /\ pc[s] = "dml_lock"
    /\ tx[s].locks # << >> \/ Grantable(s, "Shared")
    /\ LET st == statement[s] IN
       tx' = [tx EXCEPT
           ![s].locks = IF @ = << >> THEN <<"Shared">> ELSE @,
           ![s].base = IF @ = None THEN st.snapshot ELSE @,
           ![s].base_generation = IF tx[s].base = None THEN st.at ELSE @,
           ![s].working = st.snapshot \union st.adds]
    /\ Goto(s, "ready")
    /\ UNCHANGED <<owner, statement, effects>> /\ Unpublished

\* A statement that fails in binding, execution, refresh or a lock wait.
statement_fails(s) ==
    /\ tx[s].mode = "tx" /\ pc[s] \in {"dml_lock", "ddl_lock"}
    /\ tx' = [tx EXCEPT ![s].failed = TRUE]
    /\ Goto(s, "ready")
    /\ UNCHANGED <<owner, statement, effects>> /\ Unpublished

(***************************************************************************)
(* An exclusive statement inside a transaction that has done no DML, or    *)
(* that already is exclusive.                                              *)
(***************************************************************************)
Upgrades(s) == tx[s].working # None /\ tx[s].dml_only

\* WriterCoordinator::try_acquire refuses any transaction while there is an owner.
lease_refused(s) ==
    /\ tx' = [tx EXCEPT ![s].failed = TRUE]
    /\ UNCHANGED <<owner, pc, statement, effects>> /\ Unpublished

ddl_statement(s) ==
    /\ CanRun(s) /\ ~Upgrades(s)
    /\ IF ~tx[s].lease /\ owner # None
       THEN lease_refused(s)
       ELSE /\ tx' = [tx EXCEPT ![s].lease = TRUE]
            /\ owner' = s
            /\ statement' = [statement EXCEPT ![s] =
                   [snapshot |-> Snapshot(s), adds |-> NewEffects({"catalog"}), at |-> generation]]
            /\ effects' = effects + 1
            /\ Goto(s, "ddl_lock")
            /\ Unpublished

\* The candidate of a statement computed before the locks is not used: the
\* statement runs again on the state that is published now.
ddl_locked_stale(s) ==
    /\ pc[s] = "ddl_lock"
    /\ Holds(s, "Exclusive") \/ Grantable(s, "Exclusive")
    /\ LET st == statement[s] IN
       tx' = [tx EXCEPT
           ![s].locks = IF Holds(s, "Exclusive") THEN @ ELSE Append(@, "Exclusive"),
           ![s].dml_only = FALSE,
           ![s].base = IF @ = None THEN st.snapshot ELSE @,
           ![s].working = st.snapshot \union st.adds]
    /\ Goto(s, "ready")
    /\ UNCHANGED <<owner, statement, effects>> /\ Unpublished

ddl_locked(s) ==
    /\ pc[s] = "ddl_lock"
    /\ Holds(s, "Exclusive") \/ Grantable(s, "Exclusive")
    /\ LET st == statement[s] IN
       tx' = [tx EXCEPT
           ![s].locks = IF Holds(s, "Exclusive") THEN @ ELSE Append(@, "Exclusive"),
           ![s].dml_only = FALSE,
           ![s].base = IF @ = None THEN st.snapshot ELSE @,
           ![s].base_generation = IF tx[s].base = None THEN st.at ELSE @,
           ![s].working = Snapshot(s) \union st.adds]
    /\ Goto(s, "ready")
    /\ UNCHANGED <<owner, statement, effects>> /\ Unpublished

(***************************************************************************)
(* The upgrade: the transaction lets go of its DML locks, takes the lease  *)
(* and the exclusive lock, and moves its work onto the latest state.       *)
(***************************************************************************)
upgrade_dml_candidate(s) ==
    /\ CanRun(s) /\ Upgrades(s)
    /\ IF owner # None
       THEN /\ tx' = [tx EXCEPT ![s] = [Refreshed(s) EXCEPT !.locks = << >>, !.failed = TRUE]]
            /\ UNCHANGED <<owner, pc, statement, effects>> /\ Unpublished
       ELSE /\ tx' = [tx EXCEPT ![s] = [Refreshed(s) EXCEPT !.locks = << >>]]
            /\ owner' = s
            /\ statement' = [statement EXCEPT ![s] =
                   [snapshot |-> {}, adds |-> NewEffects({"catalog"}), at |-> generation]]
            /\ effects' = effects + 1
            /\ Goto(s, "upgrade_lock")
            /\ Unpublished

upgrade_locked(s) ==
    /\ pc[s] = "upgrade_lock" /\ Grantable(s, "Exclusive")
    /\ IF tx[s].level # "read_committed" /\ generation # tx[s].base_generation
       THEN /\ tx' = [tx EXCEPT ![s].failed = TRUE]
            /\ owner' = None
       ELSE /\ tx' = [tx EXCEPT
                   ![s].base = published, ![s].base_generation = generation,
                   ![s].working =
                       (IF tx[s].level = "read_committed" THEN Merge(published, tx[s].base, @) ELSE @)
                           \union statement[s].adds,
                   ![s].lease = TRUE, ![s].locks = <<"Exclusive">>, ![s].dml_only = FALSE]
            /\ UNCHANGED owner
    /\ Goto(s, "ready")
    /\ UNCHANGED <<statement, effects>> /\ Unpublished

\* The lock wait fails: the new lease is dropped, the DML locks are already gone.
upgrade_fails(s) ==
    /\ pc[s] = "upgrade_lock"
    /\ tx' = [tx EXCEPT ![s].failed = TRUE]
    /\ owner' = None
    /\ Goto(s, "ready")
    /\ UNCHANGED <<statement, effects>> /\ Unpublished

(***************************************************************************)
(* COMMIT.                                                                 *)
(***************************************************************************)
Own(s) == tx[s].working \ tx[s].base

\* Reset of locks and lease comes with the end of the transaction.
commit_sql_transaction(s) ==
    /\ Active(s) /\ ~tx[s].failed
    /\ IF tx[s].working = None
       THEN Unpublished
       ELSE /\ Publish(IF tx[s].dml_only THEN Merge(published, tx[s].base, tx[s].working)
                                         ELSE tx[s].working, Own(s))
            /\ exposed' = (exposed \/ tx[s].locks = << >>)
    /\ Reset(s) /\ ReleaseLease(s)
    /\ UNCHANGED <<pc, statement, effects>>

\* The merge or persist_candidate fails: only ROLLBACK is left.
commit_fails(s) ==
    /\ Active(s) /\ ~tx[s].failed /\ tx[s].working # None
    /\ tx' = [tx EXCEPT ![s] = [Idle EXCEPT !.mode = "failed"]]
    /\ ReleaseLease(s)
    /\ UNCHANGED <<pc, statement, effects>> /\ Unpublished

(***************************************************************************)
(* Autocommit: the statement runs on the published state under its lock.   *)
(***************************************************************************)
auto_dml(s) ==
    /\ tx[s].mode = "idle" /\ effects < MaxEffects /\ Grantable(s, "Shared")
    /\ effects' = effects + 1
    /\ \E kinds \in {{"row"}, {"row", "catalog"}} :
          Publish(published \union NewEffects(kinds), NewEffects(kinds))
    /\ UNCHANGED <<owner, tx, pc, statement, exposed>>

auto_exclusive(s) ==
    /\ tx[s].mode = "idle" /\ effects < MaxEffects /\ owner = None
    /\ owner' = s
    /\ tx' = [tx EXCEPT ![s].mode = "auto", ![s].lease = TRUE]
    /\ effects' = effects + 1
    /\ statement' = [statement EXCEPT ![s] =
           [snapshot |-> {}, adds |-> NewEffects({"catalog"}), at |-> generation]]
    /\ Goto(s, "auto_lock")
    /\ Unpublished

auto_exclusive_ends(s) ==
    /\ pc[s] = "auto_lock"
    /\ \/ /\ Grantable(s, "Exclusive")
          /\ Publish(published \union statement[s].adds, statement[s].adds)
          /\ UNCHANGED exposed
       \/ Unpublished
    /\ Reset(s) /\ ReleaseLease(s) /\ Goto(s, "ready")
    /\ UNCHANGED <<statement, effects>>

(***************************************************************************)
(* ProcedureTransactionCoordinator: CALL of a procedure in autocommit.     *)
(***************************************************************************)
\* start_segment: the lease, then the exclusive lock.
start_segment(s) ==
    /\ \/ tx[s].mode = "idle" /\ effects < MaxEffects
       \/ pc[s] = "start"
    /\ owner = None
    /\ owner' = s
    /\ tx' = [tx EXCEPT ![s].mode = "procedure", ![s].lease = TRUE,
                        ![s].working = IF @ = None THEN {} ELSE @]
    /\ Goto(s, "segment_lock")
    /\ UNCHANGED <<statement, effects>> /\ Unpublished

\* The first segment copies the published state when it has the lock; a later one
\* has copied it before (boundary).
segment_locked(s) ==
    /\ pc[s] = "segment_lock" /\ Grantable(s, "Exclusive")
    /\ tx' = [tx EXCEPT ![s].locks = <<"Exclusive">>,
                        ![s].base = IF @ = None THEN published ELSE @,
                        ![s].working = IF tx[s].base = None THEN published ELSE @]
    /\ Goto(s, "body")
    /\ UNCHANGED <<owner, statement, effects>> /\ Unpublished

procedure_statement(s) ==
    /\ pc[s] = "body" /\ effects < MaxEffects
    /\ effects' = effects + 1
    /\ tx' = [tx EXCEPT ![s].working = @ \union NewEffects({"row"})]
    /\ UNCHANGED <<owner, pc, statement>> /\ Unpublished

\* finish_segment at COMMIT or ROLLBACK inside the body; locks and lease go.
finish_segment(s) ==
    /\ pc[s] = "body"
    /\ \/ Own(s) # {} /\ Publish(tx[s].working, Own(s)) /\ UNCHANGED exposed
       \/ Unpublished
    /\ tx' = [tx EXCEPT ![s].locks = << >>, ![s].lease = FALSE]
    /\ owner' = None
    /\ Goto(s, "between")
    /\ UNCHANGED <<statement, effects>>

\* boundary: the next segment's base is copied here, before its locks.
copy_base(s) ==
    /\ pc[s] = "between"
    /\ tx' = [tx EXCEPT ![s].base = published, ![s].working = published, ![s].later = TRUE]
    /\ Goto(s, "start")
    /\ UNCHANGED <<owner, statement, effects>> /\ Unpublished

\* finish_final at the end of the body; or an error anywhere, which aborts.
procedure_ends(s) ==
    /\ tx[s].mode = "procedure"
    /\ \/ pc[s] = "body" /\ Own(s) # {} /\ Publish(tx[s].working, Own(s)) /\ UNCHANGED exposed
       \/ Unpublished
    /\ Reset(s) /\ ReleaseLease(s) /\ Goto(s, "ready")
    /\ UNCHANGED <<statement, effects>>

Finished == effects = MaxEffects /\ (\A s \in Sessions : tx[s].mode = "idle") /\ UNCHANGED vars

Next ==
    \/ \E s \in Sessions :
        \/ begin_sql_transaction(s) \/ create_sql_savepoint(s) \/ rollback_to_sql_savepoint(s)
        \/ release_sql_savepoint(s) \/ rollback_sql_transaction(s)
        \/ dml_statement(s) \/ dml_locked(s) \/ statement_fails(s)
        \/ ddl_statement(s) \/ ddl_locked(s)
        \/ upgrade_dml_candidate(s) \/ upgrade_locked(s) \/ upgrade_fails(s)
        \/ commit_sql_transaction(s) \/ commit_fails(s)
        \/ auto_dml(s) \/ auto_exclusive(s) \/ auto_exclusive_ends(s)
        \/ start_segment(s) \/ segment_locked(s) \/ procedure_statement(s)
        \/ finish_segment(s) \/ copy_base(s) \/ procedure_ends(s)
    \/ Finished

Spec == Init /\ [][Next]_vars

(***************************************************************************)
(* Properties.                                                             *)
(***************************************************************************)
\* The owner in the coordinator and the leases the sessions hold agree, and a
\* lease is not kept past its work: a session with nothing to publish that waits
\* for nothing would hold up every exclusive statement of the others
\* (session_execution.rs, WriterLease).
LeaseIsOwned ==
    \A s \in Sessions :
        /\ owner = s <=> tx[s].lease \/ pc[s] = "upgrade_lock"
        /\ (tx[s].lease /\ tx[s].working = None) =>
               tx[s].failed \/ pc[s] \in {"ddl_lock", "auto_lock"}

\* No commit takes away what an earlier one has published, be it DML merged into
\* the latest state or exclusive work that replaces it, through savepoints,
\* upgrades and procedure segments.  Two exceptions, both disagreements with the
\* documentation: the later segments of a procedure (boundary copies its base
\* before it has the lock), and everything after a commit without a lock (an
\* upgrade that was refused had let go of the locks, ROLLBACK TO SAVEPOINT brings
\* the work back without them).
PublishKeepsCommitted ==
    [][\/ published \subseteq published'
       \/ exposed
       \/ \E s \in Sessions : tx[s].later]_vars

\* "DML uses persistent MVCC and several writers; DDL and every other publication
\* of a whole candidate keep an exclusive boundary" (README.md): a committed row
\* stays in the database.
NoCommittedRowIsLost == \A e \in committed : e[2] = "row" => e \in published
=============================================================================
